--------------------------- MODULE MCProposalWorkflow ---------------------------
(* Instances of ProposalWorkflow for TLC. *)
EXTENDS ProposalWorkflow

(* No change, a mixed proposal and two files to create.                    *)
ProposalsOfAllKinds == {<<>>, <<"update", "create">>, <<"create", "create">>}

ReviewedProposal == {<<"update">>}
CreatedProposal == {<<"create">>}

=================================================================================

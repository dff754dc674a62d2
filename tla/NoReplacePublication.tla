------------------------- MODULE NoReplacePublication -------------------------
(***************************************************************************)
(* What a caller of the okf command may rely on when it publishes roots    *)
(* where there were none, whichever platform it runs on                    *)
(* (crates/okf-cli/src/workspace.rs, apply_missing_root_plan): in one step *)
(* a free name shows the whole root, or it never shows any of it, and the  *)
(* answer says which.  RootPublication implements it on Linux and macOS,   *)
(* WindowsPublication on Windows.                                          *)
(***************************************************************************)

CONSTANTS
  Publishers,  \* runs of the command
  Names,       \* names at which a root can be requested
  Requested    \* the name that each publisher requests

VARIABLES
  root,       \* what each name shows
  led,        \* the planned pathname leads to the directory of these names
  published,  \* the publishers whose root has been shown
  answer      \* what each publisher says in the end

abstractVars == <<root, led, published, answer>>

Free == <<"free">>

Taken == <<"taken">>

Root(p) == <<"root", p>>

(* What an implementation may not show: a root with other files than the   *)
(* planned ones.  No step below leads to it.                               *)
Part(p) == <<"part", p>>

AbstractInit ==
  /\ root = [n \in Names |-> Free]
  /\ led = TRUE
  /\ published = {}
  /\ answer = [p \in Publishers |-> "none"]

(* The root appears as a whole, at its name, where nothing was.  It is said *)
(* in the same step, or later.                                             *)
Publish(p) ==
  /\ Requested[p] \in Names
  /\ root[Requested[p]] = Free
  /\ led
  /\ p \notin published /\ answer[p] = "none"
  /\ root' = [root EXCEPT ![Requested[p]] = Root(p)]
  /\ published' = published \cup {p}
  /\ answer' = answer \/ answer' = [answer EXCEPT ![p] = "published"]
  /\ UNCHANGED led

(* Who has published does not deny it, and who has not will not any more.  *)
Answer(p) ==
  /\ answer[p] = "none"
  /\ answer' \in {[answer EXCEPT ![p] = a] :
                    a \in IF p \in published THEN {"published", "unverified"} ELSE {"nothing"}}
  /\ UNCHANGED <<root, led, published>>

(* Other programs take what is free and remove what is there, and the      *)
(* directory is moved away or put back.                                    *)
Take(n) ==
  /\ root[n] = Free
  /\ root' = [root EXCEPT ![n] = Taken]
  /\ UNCHANGED <<led, published, answer>>

Vacate(n) ==
  /\ root[n] # Free
  /\ root' = [root EXCEPT ![n] = Free]
  /\ UNCHANGED <<led, published, answer>>

Move ==
  /\ led' = ~led
  /\ UNCHANGED <<root, published, answer>>

AbstractNext ==
  \/ \E p \in Publishers : Publish(p) \/ Answer(p)
  \/ \E n \in Names : Take(n) \/ Vacate(n)
  \/ Move

AbstractSpec == AbstractInit /\ [][AbstractNext]_abstractVars
===============================================================================

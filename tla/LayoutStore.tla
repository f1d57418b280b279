----------------------------- MODULE LayoutStore -----------------------------
(***************************************************************************)
(* What the editor server promises its clients, with no directories,       *)
(* temporary files or crashes of the file system in sight: the user's      *)
(* layer is a map that each write request changes once and at once, or     *)
(* not at all, and a read tells of each file it asks about what the map    *)
(* said at some moment while the request was open.                         *)
(***************************************************************************)
EXTENDS LayoutFiles

CONSTANTS Requests, NoJob, NoAnswer

VARIABLES store,    \* the user's layer
          job,      \* what each request asks
          verdict,  \* "open", "ok", "refused" or "lost"
          answer    \* what each request was told of each file

vars == <<store, job, verdict, answer>>

Init ==
  /\ store \in [Files -> Content \union {None}]
  /\ job = [r \in Requests |-> NoJob]
  /\ verdict = [r \in Requests |-> "open"]
  /\ answer = [r \in Requests |-> [f \in Files |-> NoAnswer]]

Open(r) == job[r] # NoJob /\ verdict[r] = "open"

Ask(r, j) ==
  /\ job[r] = NoJob
  /\ job' = [job EXCEPT ![r] = j]
  /\ UNCHANGED <<store, verdict, answer>>

(* What a write makes of the user's file f; a file left without variants is *)
(* removed.                                                                 *)
Written(j, user) ==
  CASE j.op = "save" -> IF j.merge /\ user # None THEN Merged(user, j.put) ELSE j.put
    [] j.op = "put"  -> j.put
    [] OTHER -> IF DOMAIN Without(user, j.variant) = {} THEN None ELSE Without(user, j.variant)

Apply(r) ==
  /\ Open(r)
  /\ Writes(job[r])
  /\ job[r].op = "delete" =>
       /\ store[job[r].file] # None
       /\ job[r].variant \in DOMAIN store[job[r].file]
  /\ store' = [store EXCEPT ![job[r].file] = Written(job[r], @)]
  /\ verdict' = [verdict EXCEPT ![r] = "ok"]
  /\ UNCHANGED <<job, answer>>

(* A write that fails changes nothing; of the reads only "raw" may fail. *)
Refuse(r) ==
  /\ Open(r)
  /\ Writes(job[r]) \/ job[r].op = "raw"
  /\ verdict' = [verdict EXCEPT ![r] = "refused"]
  /\ UNCHANGED <<store, job, answer>>

(* The files of S are told; the request is over when all are. *)
Answer(r, S) ==
  /\ Open(r)
  /\ S # {} /\ S \subseteq {f \in Scope(job[r]) : answer[r][f] = NoAnswer}
  /\ answer' = [answer EXCEPT ![r] =
                  [f \in Files |-> IF f \in S THEN Shadow(store[f], f) ELSE @[f]]]
  /\ verdict' = [verdict EXCEPT ![r] =
                   IF \A f \in Scope(job[r]) : answer'[r][f] # NoAnswer THEN "ok" ELSE @]
  /\ UNCHANGED <<store, job>>

(* The server dies: its open requests are never answered. *)
Lose(R) ==
  /\ \A r \in R : Open(r)
  /\ verdict' = [r \in Requests |-> IF r \in R THEN "lost" ELSE verdict[r]]
  /\ UNCHANGED <<store, job, answer>>

Next ==
  \/ \E r \in Requests :
       \/ \E j \in AllJobs : Ask(r, j)
       \/ Apply(r)
       \/ Refuse(r)
       \/ \E S \in SUBSET Files : Answer(r, S)
  \/ \E R \in SUBSET Requests : Lose(R)

Spec == Init /\ [][Next]_vars
=============================================================================

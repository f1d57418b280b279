------------------------------ MODULE UserStore ------------------------------
(***************************************************************************)
(* The editor server's use of the user's data directory                    *)
(* (cmd/flexkb/serve.go): every HTTP request runs in a goroutine of its    *)
(* own, looks the data paths up afresh, and reads or rewrites a file with  *)
(* one system call after another.  There is no lock, and the temporary     *)
(* file of a write has a fixed name, so two writers of one file share it:  *)
(* temp[f] is the file under <f>.yaml.tmp, live[f] the one under <f>.yaml, *)
(* and a writer between open and write holds the file itself, which a      *)
(* rename may move and another rename unlink under it (at).                *)
(***************************************************************************)
EXTENDS LayoutFiles, Naturals

CONSTANTS Requests, NoJob, NoAnswer,
          Jobs,        \* the requests the clients make
          Overlap,     \* whether two writes of one file may be in flight
          MaxCrashes   \* bound on the times the server is killed

(* Bytes on disk: the variants they parse to and whether they are a mix of  *)
(* two files or cut short, which may or may not parse.                      *)
Stored == [vs : Content, torn : BOOLEAN]

ASSUME UserStoreAssumption ==
  /\ None \notin Stored
  /\ NoJob \notin AllJobs
  /\ NoAnswer \notin Content \union {None, Broken}
  /\ Jobs \subseteq AllJobs
  /\ Overlap \in BOOLEAN
  /\ MaxCrashes \in Nat

VARIABLES made,     \* the user's data directory exists
          live,     \* the files under their names
          temp,     \* the files under the temporary names
          job, pc,  \* the request a goroutine serves, and its next step
          paths,    \* the request's data paths, with the user's directory or without
          buf,      \* the contents about to be written
          at,       \* where the file a writer has open is now
          todo,     \* files a reader has yet to read
          answer,   \* what a reader was told
          reply,    \* how the request ended
          crashes

vars == <<made, live, temp, job, pc, paths, buf, at, todo, answer, reply, crashes>>

Whole(c) == [vs |-> c, torn |-> FALSE]

Parses(s) == IF s.torn THEN {s.vs, Broken} ELSE {s.vs}

Steps == {"idle", "root", "mkdir", "find", "readold", "open", "write", "rename",
          "cleanup", "unlink", "readdir", "read", "readraw", "done"}

TypeOK ==
  /\ made \in BOOLEAN
  /\ live \in [Files -> Stored \union {None}]
  /\ temp \in [Files -> Stored \union {None}]
  /\ job \in [Requests -> AllJobs \union {NoJob}]
  /\ pc \in [Requests -> Steps]
  /\ paths \in [Requests -> {"unset", "user", "system"}]
  /\ buf \in [Requests -> Content]
  /\ at \in [Requests -> {"temp", "live", "gone"}]
  /\ todo \in [Requests -> SUBSET Files]
  /\ answer \in [Requests -> [Files -> Content \union {None, Broken, NoAnswer}]]
  /\ reply \in [Requests -> {"none", "ok", "refused", "lost"}]
  /\ crashes \in 0..MaxCrashes

Init ==
  /\ live \in [Files -> {Whole(c) : c \in Content \ {Empty}} \union {None}]
  /\ made \in {b \in BOOLEAN : (\E f \in Files : live[f] # None) => b}
  /\ temp = [f \in Files |-> None]
  /\ job = [r \in Requests |-> NoJob]
  /\ pc = [r \in Requests |-> "idle"]
  /\ paths = [r \in Requests |-> "unset"]
  /\ buf = [r \in Requests |-> Empty]
  /\ at = [r \in Requests |-> "gone"]
  /\ todo = [r \in Requests |-> {}]
  /\ answer = [r \in Requests |-> [f \in Files |-> NoAnswer]]
  /\ reply = [r \in Requests |-> "none"]
  /\ crashes = 0
-----------------------------------------------------------------------------
InFlight(r) == pc[r] \notin {"idle", "done"}

Goto(r, s) == pc' = [pc EXCEPT ![r] = s]

InPath(r) == paths[r] = "user"

End(r, how) == Goto(r, "done") /\ reply' = [reply EXCEPT ![r] = how]

(* The mux starts the handler of a request. *)
Accept(r, j) ==
  /\ pc[r] = "idle"
  /\ Writes(j) /\ ~Overlap =>
       \A q \in Requests : InFlight(q) /\ Writes(job[q]) => job[q].file # j.file
  /\ job' = [job EXCEPT ![r] = j]
  /\ Goto(r, "root")
  /\ UNCHANGED <<made, live, temp, paths, buf, at, todo, answer, reply, crashes>>

FirstStep(j) == CASE j.op \in {"save", "put"} -> "mkdir"
                  [] j.op \in {"delete", "raw"} -> "find"
                  [] j.op = "lookup" -> "read"
                  [] OTHER -> "readdir"

(* rootFn: DiscoverPaths keeps the directories that exist at this moment. *)
Root(r) ==
  /\ pc[r] = "root"
  /\ paths' = [paths EXCEPT ![r] = IF made THEN "user" ELSE "system"]
  /\ todo' = [todo EXCEPT ![r] = IF job[r].op = "lookup" THEN {job[r].file} ELSE {}]
  /\ buf' = [buf EXCEPT ![r] = IF job[r].op \in {"save", "put"} THEN job[r].put ELSE Empty]
  /\ Goto(r, FirstStep(job[r]))
  /\ UNCHANGED <<made, live, temp, job, at, answer, reply, crashes>>

(* A save and a raw PUT create the directory; only a merge looks at the old *)
(* file.                                                                    *)
MakeDir(r) ==
  /\ pc[r] = "mkdir"
  /\ made' = TRUE
  /\ Goto(r, IF job[r].op = "save" /\ job[r].merge THEN "readold" ELSE "open")
  /\ UNCHANGED <<live, temp, job, paths, buf, at, todo, answer, reply, crashes>>

(* handleSave, Merge: a file that cannot be read counts as absent, one that *)
(* does not parse is a conflict.                                            *)
ReadForMerge(r) ==
  /\ pc[r] = "readold" /\ job[r].op = "save"
  /\ \/ /\ live[job[r].file] = None
        /\ Goto(r, "open")
        /\ UNCHANGED <<buf, reply>>
     \/ /\ live[job[r].file] # None
        /\ \E c \in Parses(live[job[r].file]) \ {Broken} :
             buf' = [buf EXCEPT ![r] = Merged(c, job[r].put)]
        /\ Goto(r, "open")
        /\ UNCHANGED reply
     \/ /\ live[job[r].file] # None
        /\ Broken \in Parses(live[job[r].file])
        /\ End(r, "refused")
        /\ UNCHANGED buf
  /\ UNCHANGED <<made, live, temp, job, paths, at, todo, answer, crashes>>

(* handleVariant refuses a file that is not in the user's directory. *)
FindForDelete(r) ==
  /\ pc[r] = "find" /\ job[r].op = "delete"
  /\ IF InPath(r) /\ live[job[r].file] # None
       THEN Goto(r, "readold") /\ UNCHANGED reply
       ELSE End(r, "refused")
  /\ UNCHANGED <<made, live, temp, job, paths, buf, at, todo, answer, crashes>>

(* handleVariant: the file may be gone by now, not parse, or not have the   *)
(* variant; one that would be left empty is removed instead.                *)
ReadForDelete(r) ==
  /\ pc[r] = "readold" /\ job[r].op = "delete"
  /\ \/ /\ live[job[r].file] # None
        /\ \E c \in Parses(live[job[r].file]) \ {Broken} :
             /\ job[r].variant \in DOMAIN c
             /\ buf' = [buf EXCEPT ![r] = Without(c, job[r].variant)]
             /\ Goto(r, IF DOMAIN c = {job[r].variant} THEN "unlink" ELSE "open")
        /\ UNCHANGED reply
     \/ /\ \/ live[job[r].file] = None
           \/ Broken \in Parses(live[job[r].file])
           \/ job[r].variant \notin DOMAIN live[job[r].file].vs
        /\ End(r, "refused")
        /\ UNCHANGED buf
  /\ UNCHANGED <<made, live, temp, job, paths, at, todo, answer, crashes>>
-----------------------------------------------------------------------------
\* Mutant: os.WriteFile on the file itself.
OpenInPlace(r) ==
  /\ pc[r] = "open"
  /\ live' = [live EXCEPT ![job[r].file] = Whole(Empty)]
  /\ at' = [at EXCEPT ![r] = "live"]
  /\ Goto(r, "write")
  /\ UNCHANGED <<made, temp, job, paths, buf, todo, answer, reply, crashes>>

(* os.WriteFile opens the temporary file, or empties the one that is there. *)
OpenTemp(r) ==
  /\ pc[r] = "open"
  /\ temp' = [temp EXCEPT ![job[r].file] = Whole(Empty)]
  /\ at' = [at EXCEPT ![r] = "temp"]
  /\ Goto(r, "write")
  /\ UNCHANGED <<made, live, job, paths, buf, todo, answer, reply, crashes>>

(* What a write from offset 0 can leave: the new bytes, with the tail of    *)
(* what another writer wrote meanwhile if that was longer.                  *)
Overwritten(old, new) ==
  IF old.vs = Empty THEN {Whole(new)}
  ELSE {Whole(new), [vs |-> Merged(old.vs, new), torn |-> TRUE]}

(* The file a writer has open, wherever it is by now, and a change to it. *)
Opened(r) == CASE at[r] = "temp" -> temp[job[r].file]
               [] at[r] = "live" -> live[job[r].file]
               [] OTHER -> Whole(Empty)

Fill(r, s) ==
  /\ temp' = IF at[r] = "temp" THEN [temp EXCEPT ![job[r].file] = s] ELSE temp
  /\ live' = IF at[r] = "live" THEN [live EXCEPT ![job[r].file] = s] ELSE live
  /\ at' = [at EXCEPT ![r] = "gone"]

WriteTemp(r) ==
  /\ pc[r] = "write"
  /\ \E s \in Overwritten(Opened(r), buf[r]) : Fill(r, s)
  /\ Goto(r, "rename")
  /\ UNCHANGED <<made, job, paths, buf, todo, answer, reply, crashes>>

(* The disk is full: the handler gives up and leaves what it wrote. *)
WriteFails(r) ==
  /\ pc[r] = "write"
  /\ Fill(r, [vs |-> Opened(r).vs, torn |-> TRUE])
  /\ End(r, "refused")
  /\ UNCHANGED <<made, job, paths, buf, todo, answer, crashes>>

(* Where the open files of f are after from has become to. *)
Moved(f, from, to) ==
  [q \in Requests |-> IF job[q] # NoJob /\ Writes(job[q]) /\ job[q].file = f /\ at[q] = from
                        THEN to ELSE at[q]]

(* The temporary file takes the name, the file that had it is unlinked. *)
RenameTemp(r) ==
  LET f == job[r].file
  IN /\ pc[r] = "rename"
     /\ temp[f] # None
     /\ live' = [live EXCEPT ![f] = temp[f]]
     /\ temp' = [temp EXCEPT ![f] = None]
     /\ at' = [q \in Requests |-> IF at[q] = "live" THEN Moved(f, "live", "gone")[q]
                                  ELSE Moved(f, "temp", "live")[q]]
     /\ End(r, "ok")
     /\ UNCHANGED <<made, job, paths, buf, todo, answer, crashes>>

(* There is no temporary file any more, or the file system refuses. *)
RenameFails(r) ==
  /\ pc[r] = "rename"
  /\ Goto(r, "cleanup")
  /\ UNCHANGED <<made, live, temp, job, paths, buf, at, todo, answer, reply, crashes>>

CleanUp(r) ==
  /\ pc[r] = "cleanup"
  /\ temp' = [temp EXCEPT ![job[r].file] = None]
  /\ at' = Moved(job[r].file, "temp", "gone")
  /\ End(r, "refused")
  /\ UNCHANGED <<made, live, job, paths, buf, todo, answer, crashes>>

(* handleVariant removes a file without variants. *)
Unlink(r) ==
  /\ pc[r] = "unlink"
  /\ live' = [live EXCEPT ![job[r].file] = None]
  /\ at' = Moved(job[r].file, "live", "gone")
  /\ End(r, IF live[job[r].file] # None THEN "ok" ELSE "refused")
  /\ UNCHANGED <<made, temp, job, paths, buf, todo, answer, crashes>>
-----------------------------------------------------------------------------
Tell(r, S, c) ==
  answer' = [answer EXCEPT ![r] = [f \in Files |-> IF f \in S THEN c ELSE @[f]]]

(* ListLayoutFiles: the names in the directories of all layers. *)
ReadDir(r) ==
  LET names == {f \in Files : System[f] # None \/ (InPath(r) /\ live[f] # None)}
  IN /\ pc[r] = "readdir"
     /\ todo' = [todo EXCEPT ![r] = names]
     /\ Tell(r, Files \ names, None)
     /\ IF names = {} THEN End(r, "ok") ELSE Goto(r, "read") /\ UNCHANGED reply
     /\ UNCHANGED <<made, live, temp, job, paths, buf, at, crashes>>

(* loadOne: the first layer that has the file decides, also when it does    *)
(* not parse.                                                               *)
ReadLayout(r, f) ==
  /\ pc[r] = "read"
  /\ f \in todo[r]
  /\ \E c \in IF InPath(r) /\ live[f] # None THEN Parses(live[f]) ELSE {System[f]} :
       Tell(r, {f}, c)
  /\ todo' = [todo EXCEPT ![r] = @ \ {f}]
  /\ IF todo[r] = {f} THEN End(r, "ok") ELSE UNCHANGED <<pc, reply>>
  /\ UNCHANGED <<made, live, temp, job, paths, buf, at, crashes>>

(* handleFile, GET: Find, and then the file is read. *)
FindForRaw(r) ==
  /\ pc[r] = "find" /\ job[r].op = "raw"
  /\ IF InPath(r) /\ live[job[r].file] # None
       THEN Goto(r, "readraw") /\ UNCHANGED <<answer, reply>>
       ELSE Tell(r, {job[r].file}, System[job[r].file]) /\ End(r, "ok")
  /\ UNCHANGED <<made, live, temp, job, paths, buf, at, todo, crashes>>

ReadRaw(r) ==
  LET f == job[r].file
  IN /\ pc[r] = "readraw"
     /\ IF live[f] = None THEN End(r, "refused") /\ UNCHANGED answer
        ELSE /\ \E c \in Parses(live[f]) : Tell(r, {f}, c)
             /\ End(r, "ok")
     /\ UNCHANGED <<made, live, temp, job, paths, buf, at, todo, crashes>>

(* The server is killed and started again; the files stay as they are. *)
Crash ==
  /\ crashes < MaxCrashes
  /\ \E r \in Requests : InFlight(r)
  /\ crashes' = crashes + 1
  /\ pc' = [r \in Requests |-> IF InFlight(r) THEN "done" ELSE pc[r]]
  /\ reply' = [r \in Requests |-> IF InFlight(r) THEN "lost" ELSE reply[r]]
  /\ at' = [r \in Requests |-> "gone"]
  /\ UNCHANGED <<made, live, temp, job, paths, buf, todo, answer>>

Handler(r) ==
  \/ Root(r) \/ MakeDir(r) \/ ReadForMerge(r)
  \/ FindForDelete(r) \/ ReadForDelete(r)
  \/ OpenTemp(r) \/ WriteTemp(r) \/ WriteFails(r)
  \/ RenameTemp(r) \/ RenameFails(r) \/ CleanUp(r) \/ Unlink(r)
  \/ ReadDir(r) \/ (\E f \in Files : ReadLayout(r, f))
  \/ FindForRaw(r) \/ ReadRaw(r)

Next ==
  \/ \E r \in Requests : (\E j \in Jobs : Accept(r, j)) \/ Handler(r)
  \/ Crash

Spec == Init /\ [][Next]_vars
-----------------------------------------------------------------------------
(* LayoutStore's view.  A torn file under the name is no contents at all.   *)
(* A reader whose paths lack the user's directory was answered when they    *)
(* were looked up: what it goes on to read never changes.                   *)
StoredUnderName ==
  [f \in Files |-> CASE live[f] = None -> None
                     [] live[f] # None /\ live[f].torn -> Broken
                     [] OTHER -> live[f].vs]

ScopeOf(r) == IF job[r] = NoJob THEN {} ELSE Scope(job[r])

Told ==
  [r \in Requests |-> [f \in Files |->
     IF f \in ScopeOf(r) /\ paths[r] = "system" THEN System[f] ELSE answer[r][f]]]

Verdicts ==
  [r \in Requests |->
     IF ScopeOf(r) # {} /\ \A f \in ScopeOf(r) : Told[r][f] # NoAnswer THEN "ok"
     ELSE IF reply[r] = "none" THEN "open" ELSE reply[r]]

Store == INSTANCE LayoutStore
           WITH store <- StoredUnderName, verdict <- Verdicts, answer <- Told

(* The editor server keeps LayoutStore's promise: temporary files, crashes  *)
(* between two system calls, full disks and refused renames are invisible,  *)
(* and every read is of a file some write left whole (serve.go, "Tempfile + *)
(* rename for atomicity").  It needs Overlap = FALSE.                       *)
ImplementsLayoutStore == Store!Spec
=============================================================================

--------------------------- MODULE UserStoreProofs ---------------------------
(***************************************************************************)
(* Theorems about UserStore for any files, contents, requests and crashes: *)
(* its types, and that without overlapping writes of one file it keeps     *)
(* LayoutStore's promise.                                                  *)
(***************************************************************************)
EXTENDS UserStore, TLAPS

LEMMA Contents ==
  /\ Empty \in Content
  /\ \A c, put \in Content : Merged(c, put) \in Content
  /\ \A c \in Content : \A v : Without(c, v) \in Content
<1>1. \A c : c \in Content <=> \E S \in SUBSET Variants : c \in [S -> Specs]
  BY DEF Content
<1>2. Empty \in Content
  <2>1. Empty \in [{} -> Specs]
    BY DEF Empty
  <2> QED
    BY <1>1, <2>1
<1>3. ASSUME NEW c \in Content, NEW put \in Content
      PROVE  Merged(c, put) \in Content
  <2>1. PICK S \in SUBSET Variants : c \in [S -> Specs]
    BY <1>1
  <2>2. PICK T \in SUBSET Variants : put \in [T -> Specs]
    BY <1>1
  <2>3. Merged(c, put) \in [S \union T -> Specs]
    BY <2>1, <2>2 DEF Merged
  <2> QED
    BY <1>1, <2>3
<1>4. ASSUME NEW c \in Content, NEW v
      PROVE  Without(c, v) \in Content
  <2>1. PICK S \in SUBSET Variants : c \in [S -> Specs]
    BY <1>1
  <2>2. Without(c, v) \in [S \ {v} -> Specs]
    BY <2>1 DEF Without
  <2> QED
    BY <1>1, <2>2
<1> QED
  BY <1>2, <1>3, <1>4

\* A variant is the last one if nothing is left without it.
LEMMA LastVariant ==
  ASSUME NEW c, NEW v \in DOMAIN c
  PROVE  DOMAIN Without(c, v) = {} <=> DOMAIN c = {v}
BY DEF Without

\* What a request says.
LEMMA JobFields ==
  ASSUME NEW j \in AllJobs
  PROVE  /\ j.op \in {"save", "put", "delete", "lookup", "raw", "list"}
         /\ j.op # "list" => j.file \in Files
         /\ j.op \in {"save", "put"} => j.put \in Content
         /\ j.op = "delete" => j.variant \in Variants
         /\ j # NoJob
BY UserStoreAssumption DEF AllJobs, Saves, Puts, Deletes, Reads, Lists

LEMMA Bytes ==
  /\ \A c \in Content : Whole(c) \in Stored /\ Whole(c).vs = c /\ ~Whole(c).torn /\ Whole(c) # None
  /\ \A s \in Stored : s.vs \in Content /\ Parses(s) \subseteq Content \union {Broken}
  /\ \A s \in Stored : [vs |-> s.vs, torn |-> TRUE] \in Stored
  /\ \A s \in Stored, c \in Content : Overwritten(s, c) \subseteq Stored
<1>1. \A c \in Content : Whole(c) \in Stored /\ Whole(c).vs = c /\ ~Whole(c).torn /\ Whole(c) # None
  <2>1. \A c \in Content : Whole(c) \in Stored
    BY DEF Whole, Stored
  <2>2. \A c : Whole(c).vs = c /\ ~Whole(c).torn
    BY DEF Whole
  <2> QED
    BY <2>1, <2>2, UserStoreAssumption
<1>2. \A s \in Stored : s.vs \in Content /\ Parses(s) \subseteq Content \union {Broken}
  BY DEF Stored, Parses
<1>3. \A s \in Stored : [vs |-> s.vs, torn |-> TRUE] \in Stored
  BY DEF Stored
<1>4. \A c, d \in Content : [vs |-> Merged(c, d), torn |-> TRUE] \in Stored
  BY Contents DEF Stored
<1>5. \A s \in Stored, c \in Content : Overwritten(s, c) \subseteq Stored
  BY <1>1, <1>2, <1>4 DEF Overwritten
<1> QED
  BY <1>1, <1>2, <1>3, <1>5
-----------------------------------------------------------------------------
(* A request only takes the steps of what it asks.                          *)
Phase(r) ==
  /\ pc[r] = "idle" <=> job[r] = NoJob
  /\ pc[r] = "done" <=> reply[r] # "none"
  /\ pc[r] \in {"idle", "root"} => paths[r] = "unset"
  /\ paths[r] = "user" => made
  /\ pc[r] = "mkdir" => job[r].op \in {"save", "put"}
  /\ pc[r] = "find" => job[r].op \in {"delete", "raw"}
  /\ pc[r] = "readold" => job[r].op \in {"save", "delete"}
  /\ pc[r] \in {"open", "write", "rename", "cleanup"} => Writes(job[r])
  /\ pc[r] = "unlink" => job[r].op = "delete"
  /\ pc[r] = "readdir" => job[r].op = "list"
  /\ pc[r] = "read" => job[r].op \in {"lookup", "list"}
  /\ pc[r] = "readraw" => job[r].op = "raw"
  /\ pc[r] = "readraw" => paths[r] = "user"
  /\ pc[r] \in {"find", "readdir", "read"} => paths[r] # "unset"
  /\ pc[r] \in {"readold", "open", "write", "rename", "cleanup", "unlink"} => made

(* A file a writer has open is where at says.                               *)
OpenFiles ==
  \A r \in Requests :
    /\ at[r] # "gone" => job[r] # NoJob /\ Writes(job[r])
    /\ at[r] = "temp" => temp[job[r].file] # None
    /\ at[r] = "live" => live[job[r].file] # None

Base == TypeOK /\ OpenFiles /\ \A r \in Requests : Phase(r)

LEMMA Working ==
  ASSUME Base, NEW r \in Requests, pc[r] # "idle"
  PROVE  /\ job[r] \in AllJobs
         /\ Writes(job[r]) => job[r].file \in Files
         /\ pc[r] \in {"mkdir", "readold", "open", "write", "rename", "cleanup", "unlink"} => Writes(job[r])
<1>1. job[r] \in AllJobs
  BY DEF Base, TypeOK, Phase
<1> QED
  BY <1>1, JobFields DEF Base, Phase, Writes

\* What any step of a handler does to the request it serves.
Moves(r, s, how) ==
  /\ pc' = [pc EXCEPT ![r] = s]
  /\ reply' = IF s = "done" THEN [reply EXCEPT ![r] = how] ELSE reply
  /\ paths' = IF pc[r] = "root" THEN [paths EXCEPT ![r] = IF made THEN "user" ELSE "system"] ELSE paths
  /\ made' \in {made, TRUE}
  /\ UNCHANGED <<job, crashes>>

LEMMA HandlerMoves ==
  ASSUME Base, NEW r \in Requests, Handler(r)
  PROVE  /\ \E s \in Steps \ {"idle", "root"}, how \in {"ok", "refused"} : Moves(r, s, how)
         /\ InFlight(r)
         /\ Phase(r)'
<1> USE DEF Moves, Goto, End, Steps, InFlight, Phase
<1> DEFINE Goal == /\ \E s \in Steps \ {"idle", "root"}, how \in {"ok", "refused"} : Moves(r, s, how)
                   /\ InFlight(r)
                   /\ Phase(r)'
<1>0. Phase(r) /\ pc \in [Requests -> Steps] /\ paths \in [Requests -> {"unset", "user", "system"}]
      /\ reply \in [Requests -> {"none", "ok", "refused", "lost"}] /\ made \in BOOLEAN
  BY DEF Base, TypeOK
<1>1. ASSUME Root(r)
      PROVE  Goal
  <2>1. job[r] \in AllJobs /\ pc[r] = "root"
    BY <1>1, Working DEF Root
  <2>2. job[r].op \in {"save", "put", "delete", "lookup", "raw", "list"}
    BY <2>1, JobFields
  <2>3. FirstStep(job[r]) \in {"mkdir", "find", "read", "readdir"}
        /\ (FirstStep(job[r]) = "mkdir" <=> job[r].op \in {"save", "put"})
        /\ (FirstStep(job[r]) = "find" <=> job[r].op \in {"delete", "raw"})
        /\ (FirstStep(job[r]) = "read" <=> job[r].op = "lookup")
        /\ (FirstStep(job[r]) = "readdir" <=> job[r].op = "list")
    BY <2>2 DEF FirstStep
  <2> QED
    BY <1>0, <1>1, <2>1, <2>3 DEF Root
<1>2. ASSUME MakeDir(r)
      PROVE  Goal
  BY <1>0, <1>2 DEF MakeDir, Writes
<1>3. ASSUME ReadForMerge(r)
      PROVE  Goal
  BY <1>0, <1>3 DEF ReadForMerge, Writes
<1>4. ASSUME FindForDelete(r)
      PROVE  Goal
  BY <1>0, <1>4 DEF FindForDelete, InPath
<1>5. ASSUME ReadForDelete(r)
      PROVE  Goal
  BY <1>0, <1>5 DEF ReadForDelete, Writes
<1>6. ASSUME OpenTemp(r) \/ WriteTemp(r) \/ WriteFails(r)
      PROVE  Goal
  BY <1>0, <1>6 DEF OpenTemp, WriteTemp, WriteFails
<1>7. ASSUME RenameTemp(r) \/ RenameFails(r) \/ CleanUp(r) \/ Unlink(r)
      PROVE  Goal
  BY <1>0, <1>7 DEF RenameTemp, RenameFails, CleanUp, Unlink
<1>8. ASSUME ReadDir(r)
      PROVE  Goal
  BY <1>0, <1>8 DEF ReadDir
<1>9. ASSUME NEW f \in Files, ReadLayout(r, f)
      PROVE  Goal
  <2>1. CASE todo[r] = {f}
    BY <1>0, <1>9, <2>1 DEF ReadLayout
  <2>2. CASE todo[r] # {f}
    <3>1. pc' = [pc EXCEPT ![r] = "read"]
      BY <1>0, <1>9, <2>2 DEF ReadLayout
    <3> QED
      BY <1>0, <1>9, <2>2, <3>1 DEF ReadLayout
  <2> QED
    BY <2>1, <2>2
<1>10. ASSUME FindForRaw(r) \/ ReadRaw(r)
       PROVE  Goal
  BY <1>0, <1>10 DEF FindForRaw, ReadRaw, InPath
<1> QED
  BY <1>1, <1>2, <1>3, <1>4, <1>5, <1>6, <1>7, <1>8, <1>9, <1>10 DEF Handler

\* The other requests go on as they were.
LEMMA PhasesKeep ==
  ASSUME Base, [Next]_vars
  PROVE  \A q \in Requests : Phase(q)'
<1>1. ASSUME NEW r \in Requests, Handler(r), NEW q \in Requests
      PROVE  Phase(q)'
  <2>1. CASE q = r
    BY <1>1, <2>1, HandlerMoves
  <2>2. CASE q # r
    <3>1. PICK s \in Steps \ {"idle", "root"}, how \in {"ok", "refused"} : Moves(r, s, how)
      BY <1>1, HandlerMoves
    <3>2. pc'[q] = pc[q] /\ reply'[q] = reply[q] /\ paths'[q] = paths[q] /\ job'[q] = job[q] /\ (made => made')
      BY <2>2, <3>1 DEF Moves, Base, TypeOK
    <3> QED
      BY <3>2 DEF Base, Phase, Writes
  <2> QED
    BY <2>1, <2>2
<1>2. ASSUME NEW r \in Requests, NEW j \in Jobs, Accept(r, j), NEW q \in Requests
      PROVE  Phase(q)'
  <2>1. j \in AllJobs /\ j # NoJob
    BY UserStoreAssumption
  <2>2. CASE q = r
    BY <1>2, <2>1, <2>2 DEF Accept, Goto, Base, TypeOK, Phase
  <2>3. CASE q # r
    BY <1>2, <2>3 DEF Accept, Goto, Base, TypeOK, Phase, Writes
  <2> QED
    BY <2>2, <2>3
<1>3. ASSUME Crash, NEW q \in Requests
      PROVE  Phase(q)'
  BY <1>3 DEF Crash, InFlight, Base, TypeOK, Phase, Writes
<1>4. ASSUME UNCHANGED vars, NEW q \in Requests
      PROVE  Phase(q)'
  BY <1>4 DEF vars, Base, Phase, Writes
<1> QED
  BY <1>1, <1>2, <1>3, <1>4 DEF Next

DataTypes ==
  /\ live \in [Files -> Stored \union {None}]
  /\ temp \in [Files -> Stored \union {None}]
  /\ buf \in [Requests -> Content]
  /\ at \in [Requests -> {"temp", "live", "gone"}]
  /\ todo \in [Requests -> SUBSET Files]
  /\ answer \in [Requests -> [Files -> Content \union {None, Broken, NoAnswer}]]

\* Where the open files of f are after from has become to.
LEMMA MovedFiles ==
  ASSUME Base, NEW f, NEW from, NEW to \in {"live", "gone"}
  PROVE  /\ Moved(f, from, to) \in [Requests -> {"temp", "live", "gone"}]
         /\ \A q \in Requests :
              \/ Moved(f, from, to)[q] = at[q] /\ ~(at[q] = from /\ job[q].file = f)
              \/ Moved(f, from, to)[q] = to /\ at[q] = from /\ job[q].file = f
              \/ at[q] = "gone" /\ Moved(f, from, to)[q] \in {"gone", to} /\ from = "gone"
BY DEF Moved, Base, TypeOK, OpenFiles

\* Reading: the files stay, and what is read is of a type.
LEMMA ReaderTypes ==
  ASSUME Base, NEW r \in Requests,
         \/ Root(r) \/ MakeDir(r) \/ ReadForMerge(r)
         \/ FindForDelete(r) \/ ReadForDelete(r)
         \/ ReadDir(r) \/ (\E f \in Files : ReadLayout(r, f))
         \/ FindForRaw(r) \/ ReadRaw(r)
  PROVE  DataTypes' /\ OpenFiles'
<1>0. DataTypes /\ System \in [Files -> Content \union {None}]
      /\ \A f \in Files : live[f] # None => Parses(live[f]) \subseteq Content \union {Broken}
  BY LayersAssumption, Bytes DEF Base, TypeOK, DataTypes
<1>1. UNCHANGED <<live, temp, at>>
  BY DEF Root, MakeDir, ReadForMerge, FindForDelete, ReadForDelete, ReadDir, ReadLayout, FindForRaw, ReadRaw
<1>2. job' = job
  BY DEF Root, MakeDir, ReadForMerge, FindForDelete, ReadForDelete, ReadDir, ReadLayout, FindForRaw, ReadRaw
<1>3. OpenFiles'
  BY <1>1, <1>2 DEF Base, OpenFiles, Writes
<1>4. pc[r] # "idle" => job[r] \in AllJobs
  BY Working
<1>5. \A S \in SUBSET Files, c \in Content \union {None, Broken} : Tell(r, S, c) =>
        answer' \in [Requests -> [Files -> Content \union {None, Broken, NoAnswer}]]
  BY <1>0 DEF Tell, DataTypes
<1>6. CASE Root(r)
  <2>1. job[r] \in AllJobs
    BY <1>4, <1>6 DEF Root
  <2>2. job[r].op \in {"save", "put"} => job[r].put \in Content
    BY <2>1, JobFields
  <2>3. job[r].op = "lookup" => job[r].file \in Files
    BY <2>1, JobFields
  <2>4. buf' \in [Requests -> Content]
    BY <1>0, <1>6, <2>2, Contents DEF Root, DataTypes
  <2>5. todo' \in [Requests -> SUBSET Files]
    BY <1>0, <1>6, <2>3 DEF Root, DataTypes
  <2> QED
    BY <1>0, <1>1, <1>3, <1>6, <2>4, <2>5 DEF Root, DataTypes
<1>7. CASE MakeDir(r) \/ FindForDelete(r)
  BY <1>0, <1>1, <1>3, <1>7 DEF MakeDir, FindForDelete, DataTypes
<1>8. CASE ReadForMerge(r)
  <2>1. job[r] \in AllJobs /\ job[r].put \in Content /\ job[r].file \in Files
    BY <1>4, <1>8, JobFields DEF ReadForMerge
  <2>2. buf' = buf \/ \E c \in Content : buf' = [buf EXCEPT ![r] = Merged(c, job[r].put)]
    BY <1>0, <1>8, <2>1 DEF ReadForMerge
  <2>3. buf' \in [Requests -> Content]
    BY <1>0, <2>1, <2>2, Contents DEF DataTypes
  <2> QED
    BY <1>0, <1>1, <1>3, <1>8, <2>3 DEF ReadForMerge, DataTypes
<1>9. CASE ReadForDelete(r)
  <2>1. job[r] \in AllJobs /\ job[r].file \in Files
    BY <1>4, <1>9, JobFields DEF ReadForDelete
  <2>2. buf' = buf \/ \E c \in Content : buf' = [buf EXCEPT ![r] = Without(c, job[r].variant)]
    BY <1>0, <1>9, <2>1 DEF ReadForDelete
  <2>3. buf' \in [Requests -> Content]
    BY <1>0, <2>2, Contents DEF DataTypes
  <2> QED
    BY <1>0, <1>1, <1>3, <1>9, <2>3 DEF ReadForDelete, DataTypes
<1>10. CASE ReadDir(r)
  <2>1. answer' \in [Requests -> [Files -> Content \union {None, Broken, NoAnswer}]]
    BY <1>5, <1>10 DEF ReadDir
  <2>2. todo' \in [Requests -> SUBSET Files]
    BY <1>0, <1>10 DEF ReadDir, DataTypes
  <2> QED
    BY <1>0, <1>1, <1>3, <1>10, <2>1, <2>2 DEF ReadDir, DataTypes
<1>11. ASSUME NEW f \in Files, ReadLayout(r, f)
       PROVE  DataTypes' /\ OpenFiles'
  <2>1. PICK c \in IF InPath(r) /\ live[f] # None THEN Parses(live[f]) ELSE {System[f]} : Tell(r, {f}, c)
    BY <1>11 DEF ReadLayout
  <2>2. c \in Content \union {None, Broken}
    BY <1>0, <2>1
  <2>3. answer' \in [Requests -> [Files -> Content \union {None, Broken, NoAnswer}]]
    BY <1>5, <2>1, <2>2
  <2>4. todo' \in [Requests -> SUBSET Files]
    BY <1>0, <1>11 DEF ReadLayout, DataTypes
  <2> QED
    BY <1>0, <1>1, <1>3, <1>11, <2>3, <2>4 DEF ReadLayout, DataTypes
<1>12. CASE FindForRaw(r) \/ ReadRaw(r)
  <2>1. job[r] \in AllJobs /\ job[r].file \in Files
    BY <1>4, <1>12, JobFields DEF FindForRaw, ReadRaw, Base, Phase
  <2>2. answer' = answer \/ \E c \in Content \union {None, Broken} : Tell(r, {job[r].file}, c)
    BY <1>0, <1>12, <2>1 DEF FindForRaw, ReadRaw
  <2>3. answer' \in [Requests -> [Files -> Content \union {None, Broken, NoAnswer}]]
    BY <1>0, <1>5, <2>1, <2>2 DEF DataTypes
  <2> QED
    BY <1>0, <1>1, <1>3, <1>12, <2>3 DEF FindForRaw, ReadRaw, DataTypes
<1> QED
  BY <1>6, <1>7, <1>8, <1>9, <1>10, <1>11, <1>12

\* Writing: a file a writer has open is somewhere, or nowhere any more.
LEMMA WriterTypes ==
  ASSUME Base, NEW r \in Requests,
         \/ OpenTemp(r) \/ WriteTemp(r) \/ WriteFails(r)
         \/ RenameTemp(r) \/ RenameFails(r) \/ CleanUp(r) \/ Unlink(r)
  PROVE  DataTypes' /\ OpenFiles'
<1> DEFINE f == job[r].file
<1>0. DataTypes /\ OpenFiles
  BY DEF Base, TypeOK, DataTypes
<1>1. job[r] \in AllJobs /\ f \in Files /\ Writes(job[r]) /\ job[r] # NoJob
  BY Working, JobFields DEF OpenTemp, WriteTemp, WriteFails, RenameTemp, RenameFails, CleanUp, Unlink
<1>2. job' = job /\ UNCHANGED <<buf, todo, answer>>
  BY DEF OpenTemp, WriteTemp, WriteFails, RenameTemp, RenameFails, CleanUp, Unlink
<1>3. Whole(Empty) \in Stored /\ Whole(Empty) # None /\ buf[r] \in Content
  BY <1>0, Contents, Bytes DEF DataTypes
<1>4. Opened(r) \in Stored
  BY <1>0, <1>1, <1>3 DEF Opened, OpenFiles, DataTypes
<1> HIDE DEF f
<1>5. ASSUME NEW s \in Stored, Fill(r, s)
      PROVE  DataTypes' /\ OpenFiles'
  <2>1. s # None
    BY UserStoreAssumption
  <2>2. DataTypes'
    BY <1>0, <1>1, <1>2, <1>5 DEF Fill, DataTypes, f
  <2>3. OpenFiles'
    BY <1>0, <1>1, <1>2, <1>5, <2>1 DEF Fill, DataTypes, OpenFiles, f
  <2> QED
    BY <2>2, <2>3
<1>6. CASE OpenTemp(r)
  BY <1>0, <1>1, <1>2, <1>3, <1>6 DEF OpenTemp, DataTypes, OpenFiles, f
<1>7. CASE WriteTemp(r)
  BY <1>3, <1>4, <1>5, <1>7, Bytes DEF WriteTemp
<1>8. CASE WriteFails(r)
  BY <1>4, <1>5, <1>8, Bytes DEF WriteFails
<1>9. CASE RenameTemp(r)
  <2>1. /\ temp[f] # None /\ live' = [live EXCEPT ![f] = temp[f]] /\ temp' = [temp EXCEPT ![f] = None]
        /\ at' = [q \in Requests |-> IF at[q] = "live" THEN Moved(f, "live", "gone")[q]
                                     ELSE Moved(f, "temp", "live")[q]]
    BY <1>9 DEF RenameTemp, f
  <2>2. \A q \in Requests :
          \/ at[q] = "live" /\ job[q].file # f /\ at'[q] = "live"
          \/ at[q] = "temp" /\ job[q].file # f /\ at'[q] = "temp"
          \/ at[q] = "temp" /\ job[q].file = f /\ at'[q] = "live"
          \/ at'[q] = "gone"
    BY <1>0, <2>1, MovedFiles DEF DataTypes
  <2>3. at' \in [Requests -> {"temp", "live", "gone"}]
    BY <2>1, MovedFiles
  <2>4. DataTypes'
    BY <1>0, <1>1, <1>2, <2>1, <2>3 DEF DataTypes
  <2>5. OpenFiles'
    <3> SUFFICES ASSUME NEW q \in Requests, at'[q] # "gone"
                 PROVE  /\ job[q] # NoJob /\ Writes(job[q])
                        /\ at'[q] = "temp" => temp'[job[q].file] # None
                        /\ at'[q] = "live" => live'[job[q].file] # None
      BY <1>2 DEF OpenFiles
    <3>1. at[q] # "gone"
      BY <2>2
    <3>2. job[q] # NoJob /\ Writes(job[q]) /\ job[q].file \in Files
      BY <1>0, <3>1, JobFields DEF OpenFiles, Base, TypeOK, Writes
    <3> QED
      BY <1>0, <1>1, <2>1, <2>2, <3>2 DEF OpenFiles, DataTypes
  <2> QED
    BY <2>4, <2>5
<1>10. CASE RenameFails(r)
  BY <1>0, <1>2, <1>10 DEF RenameFails, DataTypes, OpenFiles
<1>11. CASE CleanUp(r)
  <2>1. temp' = [temp EXCEPT ![f] = None] /\ at' = Moved(f, "temp", "gone") /\ live' = live
    BY <1>11 DEF CleanUp, f
  <2>2. \A q \in Requests : at'[q] = "gone" \/ (at'[q] = at[q] /\ ~(at[q] = "temp" /\ job[q].file = f))
    BY <2>1, MovedFiles
  <2>3. DataTypes'
    BY <1>0, <1>1, <1>2, <2>1, MovedFiles DEF DataTypes
  <2>4. \A q \in Requests : at[q] # "gone" => job[q].file \in Files
    BY <1>0, JobFields DEF OpenFiles, Base, TypeOK, Writes
  <2>5. OpenFiles'
    BY <1>0, <1>1, <1>2, <2>1, <2>2, <2>4 DEF OpenFiles, DataTypes
  <2> QED
    BY <2>3, <2>5
<1>12. CASE Unlink(r)
  <2>1. live' = [live EXCEPT ![f] = None] /\ at' = Moved(f, "live", "gone") /\ temp' = temp
    BY <1>12 DEF Unlink, f
  <2>2. \A q \in Requests : at'[q] = "gone" \/ (at'[q] = at[q] /\ ~(at[q] = "live" /\ job[q].file = f))
    BY <2>1, MovedFiles
  <2>3. DataTypes'
    BY <1>0, <1>1, <1>2, <2>1, MovedFiles DEF DataTypes
  <2>4. \A q \in Requests : at[q] # "gone" => job[q].file \in Files
    BY <1>0, JobFields DEF OpenFiles, Base, TypeOK, Writes
  <2>5. OpenFiles'
    BY <1>0, <1>1, <1>2, <2>1, <2>2, <2>4 DEF OpenFiles, DataTypes
  <2> QED
    BY <2>3, <2>5
<1> QED
  BY <1>6, <1>7, <1>8, <1>9, <1>10, <1>11, <1>12

LEMMA BaseKeeps ==
  ASSUME Base, [Next]_vars
  PROVE  Base'
<1>1. ASSUME NEW r \in Requests, Handler(r)
      PROVE  (TypeOK /\ OpenFiles)'
  <2>1. DataTypes' /\ OpenFiles'
    BY <1>1, ReaderTypes, WriterTypes DEF Handler
  <2>2. PICK s \in Steps \ {"idle", "root"}, how \in {"ok", "refused"} : Moves(r, s, how)
    BY <1>1, HandlerMoves
  <2> QED
    BY <2>1, <2>2 DEF Base, TypeOK, DataTypes, Moves
<1>2. ASSUME NEW r \in Requests, NEW j \in Jobs, Accept(r, j)
      PROVE  (TypeOK /\ OpenFiles)'
  <2>1. j \in AllJobs /\ job[r] = NoJob /\ "root" \in Steps
    BY <1>2, UserStoreAssumption DEF Accept, Base, Phase, Steps
  <2>2. TypeOK'
    BY <1>2, <2>1 DEF Accept, Goto, Base, TypeOK
  <2>3. OpenFiles'
    BY <1>2, <2>1 DEF Accept, Base, TypeOK, OpenFiles, Writes
  <2> QED
    BY <2>2, <2>3
<1>3. ASSUME Crash
      PROVE  (TypeOK /\ OpenFiles)'
  <2>1. "done" \in Steps
    BY DEF Steps
  <2> QED
    BY <1>3, <2>1, UserStoreAssumption DEF Crash, Base, TypeOK, OpenFiles
<1>4. ASSUME UNCHANGED vars
      PROVE  (TypeOK /\ OpenFiles)'
  BY <1>4 DEF vars, Base, TypeOK, OpenFiles, Writes
<1> QED
  BY <1>1, <1>2, <1>3, <1>4, PhasesKeep DEF Next, Base

LEMMA BaseBegins == Init => Base
<1> SUFFICES ASSUME Init
             PROVE  Base
  OBVIOUS
<1>1. \A c \in Content : Whole(c) \in Stored
  BY Bytes
<1>2. TypeOK
  BY <1>1, Contents, UserStoreAssumption DEF Init, TypeOK, Steps
<1>3. OpenFiles /\ \A r \in Requests : Phase(r)
  BY DEF Init, OpenFiles, Phase
<1> QED
  BY <1>2, <1>3 DEF Base

(* UserStore.TypeOK, with and without overlapping writes: what lies under a *)
(* name is one file's contents, two writers' mixed, or nothing, and a       *)
(* reader is told nothing else.                                             *)
THEOREM StoreTypeCorrect == Spec => []TypeOK
<1>1. Base => TypeOK
  BY DEF Base
<1> QED
  BY <1>1, BaseBegins, BaseKeeps, PTL DEF Spec
-----------------------------------------------------------------------------
(* Writers of one file never meet ...                                       *)
Exclusive ==
  \A q, r \in Requests :
    q # r /\ InFlight(q) /\ InFlight(r) /\ Writes(job[q]) /\ Writes(job[r])
      => job[q].file # job[r].file

(* ... so no file under its name is torn; and there is none without the     *)
(* directory.                                                               *)
OnDisk ==
  /\ \A f \in Files : live[f] # None => ~live[f].torn
  /\ ~made => \A f \in Files : live[f] = None

\* What is left for r to do is what its job makes of the file as it is now.
Due(r) ==
  LET f == job[r].file
  IN /\ job[r].op = "save" =>
          buf[r] = IF job[r].merge /\ live[f] # None THEN Merged(live[f].vs, job[r].put) ELSE job[r].put
     /\ job[r].op = "put" => buf[r] = job[r].put
     /\ job[r].op = "delete" =>
          /\ live[f] # None /\ job[r].variant \in DOMAIN live[f].vs
          /\ DOMAIN live[f].vs # {job[r].variant}
          /\ buf[r] = Without(live[f].vs, job[r].variant)

(* A writer has its temporary file to itself.                               *)
Pen(r) ==
  /\ at[r] = IF pc[r] = "write" THEN "temp" ELSE "gone"
  /\ pc[r] = "write" => temp[job[r].file] = Whole(Empty)
  /\ pc[r] = "rename" => temp[job[r].file] = Whole(buf[r])
  /\ pc[r] \in {"mkdir", "readold"} /\ job[r].op \in {"save", "put"} => buf[r] = job[r].put
  /\ pc[r] = "readold" /\ job[r].op = "save" => job[r].merge
  /\ pc[r] \in {"open", "write", "rename"} => Due(r)
  /\ pc[r] = "unlink" => live[job[r].file] # None /\ DOMAIN live[job[r].file].vs = {job[r].variant}

(* A reader has been told of what it need not read any more.                *)
Heard(r) ==
  /\ pc[r] \in {"idle", "root", "readdir", "find", "readraw"} => \A f \in Files : answer[r][f] = NoAnswer
  /\ pc[r] = "read" => todo[r] # {} /\ todo[r] = {f \in Scope(job[r]) : answer[r][f] = NoAnswer}

Undisturbed == Exclusive /\ OnDisk /\ \A r \in Requests : Pen(r) /\ Heard(r)

\* A writer in flight is the only one of its file.
LEMMA OneWriter ==
  ASSUME Base, Undisturbed, NEW r \in Requests, InFlight(r), Writes(job[r]),
         NEW q \in Requests, q # r, InFlight(q), Writes(job[q])
  PROVE  job[q].file # job[r].file
BY DEF Undisturbed, Exclusive

\* Nobody's open file is moved.
LEMMA NothingMoves ==
  ASSUME Base, Undisturbed, NEW r \in Requests, InFlight(r), Writes(job[r]), pc[r] # "write",
         NEW from \in {"temp", "live"}, NEW to, NEW q \in Requests
  PROVE  Moved(job[r].file, from, to)[q] = at[q]
<1>1. at[q] = "gone" \/ (at[q] = "temp" /\ pc[q] = "write" /\ Writes(job[q]))
  BY DEF Undisturbed, Pen, Base, Phase
<1>2. at[q] = "temp" => q # r /\ InFlight(q)
  BY <1>1 DEF InFlight, Undisturbed, Pen
<1>3. at[q] = "temp" => job[q].file # job[r].file
  BY <1>1, <1>2, OneWriter
<1> QED
  BY <1>1, <1>3 DEF Moved

\* What a handler's step leaves alone.
Apart(r) ==
  /\ \A g \in Files : ~Writes(job[r]) \/ g # job[r].file => live'[g] = live[g] /\ temp'[g] = temp[g]
  /\ \A q \in Requests \ {r} :
       at'[q] = at[q] /\ buf'[q] = buf[q] /\ todo'[q] = todo[q] /\ answer'[q] = answer[q]

LEMMA StepsAreApart ==
  ASSUME Base, Undisturbed, NEW r \in Requests, Handler(r)
  PROVE  Apart(r)
<1>0. /\ live \in [Files -> Stored \union {None}] /\ temp \in [Files -> Stored \union {None}]
      /\ buf \in [Requests -> Content] /\ at \in [Requests -> {"temp", "live", "gone"}]
      /\ todo \in [Requests -> SUBSET Files] /\ at[r] # "live"
      /\ answer \in [Requests -> [Files -> Content \union {None, Broken, NoAnswer}]]
  BY DEF Base, TypeOK, Undisturbed, Pen
<1>1. CASE Root(r) \/ MakeDir(r) \/ ReadForMerge(r) \/ FindForDelete(r) \/ ReadForDelete(r)
  BY <1>0, <1>1 DEF Root, MakeDir, ReadForMerge, FindForDelete, ReadForDelete, Apart
<1>2. CASE ReadDir(r) \/ FindForRaw(r) \/ ReadRaw(r) \/ \E f \in Files : ReadLayout(r, f)
  BY <1>0, <1>2 DEF ReadDir, FindForRaw, ReadRaw, ReadLayout, Tell, Apart
<1>3. CASE OpenTemp(r) \/ RenameFails(r)
  <2>1. Writes(job[r])
    BY <1>3 DEF OpenTemp, RenameFails, Base, Phase
  <2> QED
    BY <1>0, <1>3, <2>1 DEF OpenTemp, RenameFails, Apart
<1>4. CASE WriteTemp(r) \/ WriteFails(r)
  <2>1. PICK s : Fill(r, s)
    BY <1>4 DEF WriteTemp, WriteFails
  <2>2. Writes(job[r]) /\ UNCHANGED <<buf, todo, answer>>
    BY <1>4 DEF WriteTemp, WriteFails, Base, Phase
  <2> QED
    BY <1>0, <2>1, <2>2 DEF Fill, Apart
<1>5. CASE RenameTemp(r) \/ CleanUp(r) \/ Unlink(r)
  <2>1. /\ Writes(job[r]) /\ InFlight(r) /\ pc[r] # "write"
    BY <1>5 DEF RenameTemp, CleanUp, Unlink, Base, Phase, InFlight, Writes
  <2>2. \A q \in Requests : /\ Moved(job[r].file, "temp", "live")[q] = at[q]
                            /\ Moved(job[r].file, "temp", "gone")[q] = at[q]
                            /\ Moved(job[r].file, "live", "gone")[q] = at[q]
    BY <2>1, NothingMoves
  <2>3. \A q \in Requests : at'[q] = at[q]
    BY <1>5, <2>2 DEF RenameTemp, CleanUp, Unlink
  <2> QED
    BY <1>0, <1>5, <2>1, <2>3 DEF RenameTemp, CleanUp, Unlink, Apart
<1> QED
  BY <1>1, <1>2, <1>3, <1>4, <1>5 DEF Handler

\* What one request does is nothing to the others.
LEMMA OthersKeep ==
  ASSUME Base, Undisturbed, NEW r \in Requests, Handler(r), NEW q \in Requests, q # r
  PROVE  (Pen(q) /\ Heard(q))'
<1>1. PICK s \in Steps \ {"idle", "root"}, how \in {"ok", "refused"} : Moves(r, s, how)
  BY HandlerMoves
<1>2. InFlight(r) /\ Apart(r) /\ Pen(q) /\ Heard(q)
  BY HandlerMoves, StepsAreApart DEF Undisturbed
<1>3. /\ pc'[q] = pc[q] /\ job'[q] = job[q] /\ buf'[q] = buf[q] /\ at'[q] = at[q]
      /\ todo'[q] = todo[q] /\ answer'[q] = answer[q]
  BY <1>1, <1>2 DEF Moves, Apart, Base, TypeOK
<1>4. ASSUME pc[q] \in {"open", "write", "rename", "unlink"}
      PROVE  live'[job[q].file] = live[job[q].file] /\ temp'[job[q].file] = temp[job[q].file]
  <2>1. Writes(job[q]) /\ InFlight(q) /\ job[q].file \in Files
    BY <1>4, Working DEF InFlight
  <2>2. ~Writes(job[r]) \/ job[q].file # job[r].file
    BY <1>2, <2>1, OneWriter
  <2> QED
    BY <1>2, <2>1, <2>2 DEF Apart
<1>5. Heard(q)'
  BY <1>2, <1>3 DEF Heard
<1>6. Pen(q)'
  BY <1>2, <1>3, <1>4 DEF Pen, Due
<1> QED
  BY <1>5, <1>6

\* What is read under a name is what some write left there.
LEMMA ReadWhole ==
  ASSUME Base, Undisturbed, NEW f \in Files, live[f] # None
  PROVE  live[f] \in Stored /\ live[f].vs \in Content /\ Parses(live[f]) = {live[f].vs}
<1>1. live[f] \in Stored /\ ~live[f].torn
  BY DEF Base, TypeOK, Undisturbed, OnDisk
<1> QED
  BY <1>1, Bytes DEF Parses

LEMMA PlanningKeeps ==
  ASSUME Base, Undisturbed, NEW r \in Requests,
         Root(r) \/ MakeDir(r) \/ ReadForMerge(r) \/ FindForDelete(r) \/ ReadForDelete(r)
  PROVE  (Pen(r) /\ Heard(r) /\ OnDisk)'
<1>0. /\ Pen(r) /\ Heard(r) /\ OnDisk /\ Phase(r)
      /\ pc \in [Requests -> Steps] /\ buf \in [Requests -> Content]
      /\ at \in [Requests -> {"temp", "live", "gone"}] /\ todo \in [Requests -> SUBSET Files]
      /\ live \in [Files -> Stored \union {None}]
  BY DEF Base, TypeOK, Undisturbed
<1>1. UNCHANGED <<live, temp, at, job, answer>>
  BY DEF Root, MakeDir, ReadForMerge, FindForDelete, ReadForDelete
<1>2. job[r] \in AllJobs
  BY Working DEF Root, MakeDir, ReadForMerge, FindForDelete, ReadForDelete
<1>3. OnDisk'
  BY <1>0, <1>1 DEF OnDisk, Root, MakeDir, ReadForMerge, FindForDelete, ReadForDelete
<1>4. CASE Root(r)
  <2>1. job[r].op \in {"save", "put", "delete", "lookup", "raw", "list"}
    BY <1>2, JobFields
  <2>2. pc'[r] = FirstStep(job[r]) /\ at[r] = "gone" /\ \A f \in Files : answer[r][f] = NoAnswer
    BY <1>0, <1>4 DEF Root, Goto, Pen, Heard
  <2>3. pc'[r] \in {"mkdir", "find", "read", "readdir"}
    BY <2>1, <2>2 DEF FirstStep
  <2>4. pc'[r] = "mkdir" => buf'[r] = job[r].put
    BY <1>0, <1>4, <2>1, <2>2 DEF Root, FirstStep
  <2>5. pc'[r] = "read" => todo'[r] = {job[r].file} /\ Scope(job[r]) = {job[r].file} /\ job[r].file \in Files
    BY <1>0, <1>2, <1>4, <2>1, <2>2, JobFields DEF Root, FirstStep, Scope
  <2>6. Pen(r)'
    BY <1>1, <2>2, <2>3, <2>4 DEF Pen
  <2>7. Heard(r)'
    BY <1>1, <2>2, <2>3, <2>5 DEF Heard
  <2> QED
    BY <1>3, <2>6, <2>7
<1>5. CASE MakeDir(r)
  <2>1. /\ pc'[r] = IF job[r].op = "save" /\ job[r].merge THEN "readold" ELSE "open"
        /\ pc[r] = "mkdir" /\ buf' = buf
    BY <1>0, <1>5 DEF MakeDir, Goto
  <2>2. job[r].op \in {"save", "put"} /\ buf[r] = job[r].put /\ at[r] = "gone"
    BY <1>0, <2>1 DEF Pen, Phase
  <2>3. pc'[r] = "open" => Due(r)'
    BY <1>1, <2>1, <2>2 DEF Due
  <2>4. Pen(r)'
    BY <1>1, <2>1, <2>2, <2>3 DEF Pen
  <2>5. Heard(r)'
    BY <2>1 DEF Heard
  <2> QED
    BY <1>3, <2>4, <2>5
<1>6. CASE ReadForMerge(r)
  <2>1. /\ pc[r] = "readold" /\ job[r].op = "save" /\ job[r].merge /\ buf[r] = job[r].put /\ at[r] = "gone"
        /\ job[r].file \in Files
    BY <1>0, <1>2, <1>6, JobFields DEF ReadForMerge, Pen
  <2>2. CASE pc'[r] = "open"
    <3>1. \/ live[job[r].file] = None /\ buf' = buf
          \/ /\ live[job[r].file] # None
             /\ \E c \in Parses(live[job[r].file]) : buf' = [buf EXCEPT ![r] = Merged(c, job[r].put)]
      BY <1>0, <1>6, <2>2 DEF ReadForMerge, Goto, End
    <3>2. \/ live[job[r].file] = None /\ buf'[r] = job[r].put
          \/ live[job[r].file] # None /\ buf'[r] = Merged(live[job[r].file].vs, job[r].put)
      BY <1>0, <2>1, <3>1, ReadWhole
    <3>3. Due(r)'
      BY <1>1, <2>1, <3>2 DEF Due
    <3> QED
      BY <1>1, <1>3, <2>1, <2>2, <3>3 DEF Pen, Heard
  <2>3. CASE pc'[r] = "done"
    BY <1>1, <1>3, <2>1, <2>3 DEF Pen, Heard
  <2> QED
    BY <1>0, <1>6, <2>2, <2>3 DEF ReadForMerge, Goto, End
<1>7. CASE FindForDelete(r)
  <2>1. pc[r] = "find" /\ job[r].op = "delete" /\ pc'[r] \in {"readold", "done"} /\ at[r] = "gone"
    BY <1>0, <1>7 DEF FindForDelete, Goto, End, Pen
  <2> QED
    BY <1>1, <1>3, <2>1 DEF Pen, Heard
<1>8. CASE ReadForDelete(r)
  <2>1. /\ pc[r] = "readold" /\ job[r].op = "delete" /\ at[r] = "gone"
        /\ job[r].file \in Files
    BY <1>0, <1>2, <1>8, JobFields DEF ReadForDelete, Pen
  <2>2. CASE pc'[r] \in {"open", "unlink"}
    <3>1. /\ live[job[r].file] # None
          /\ \E c \in Parses(live[job[r].file]) :
               /\ job[r].variant \in DOMAIN c
               /\ buf' = [buf EXCEPT ![r] = Without(c, job[r].variant)]
               /\ pc'[r] = IF DOMAIN c = {job[r].variant} THEN "unlink" ELSE "open"
      BY <1>0, <1>8, <2>2 DEF ReadForDelete, Goto, End
    <3>2. PICK c \in Parses(live[job[r].file]) :
               /\ job[r].variant \in DOMAIN c
               /\ buf' = [buf EXCEPT ![r] = Without(c, job[r].variant)]
               /\ pc'[r] = IF DOMAIN c = {job[r].variant} THEN "unlink" ELSE "open"
      BY <3>1
    <3>3. c = live[job[r].file].vs /\ buf'[r] = Without(c, job[r].variant)
      BY <1>0, <2>1, <3>1, <3>2, ReadWhole
    <3>4. pc'[r] = "open" => Due(r)'
      BY <1>1, <2>1, <3>1, <3>2, <3>3 DEF Due
    <3> QED
      BY <1>1, <1>3, <2>1, <2>2, <3>1, <3>2, <3>3, <3>4 DEF Pen, Heard
  <2>3. CASE pc'[r] = "done"
    BY <1>1, <1>3, <2>1, <2>3 DEF Pen, Heard
  <2> QED
    BY <1>0, <1>8, <2>2, <2>3 DEF ReadForDelete, Goto, End
<1> QED
  BY <1>4, <1>5, <1>6, <1>7, <1>8

LEMMA WritingKeeps ==
  ASSUME Base, Undisturbed, NEW r \in Requests,
         \/ OpenTemp(r) \/ WriteTemp(r) \/ WriteFails(r)
         \/ RenameTemp(r) \/ RenameFails(r) \/ CleanUp(r) \/ Unlink(r)
  PROVE  (Pen(r) /\ Heard(r) /\ OnDisk)'
<1> DEFINE f == job[r].file
<1>0. /\ Pen(r) /\ Heard(r) /\ OnDisk /\ Phase(r)
      /\ pc \in [Requests -> Steps] /\ buf \in [Requests -> Content]
      /\ at \in [Requests -> {"temp", "live", "gone"}]
      /\ live \in [Files -> Stored \union {None}] /\ temp \in [Files -> Stored \union {None}]
  BY DEF Base, TypeOK, Undisturbed
<1>1. UNCHANGED <<job, buf, todo, answer>> /\ made' = made
  BY DEF OpenTemp, WriteTemp, WriteFails, RenameTemp, RenameFails, CleanUp, Unlink
<1>2. f \in Files /\ Writes(job[r]) /\ InFlight(r)
  BY Working DEF OpenTemp, WriteTemp, WriteFails, RenameTemp, RenameFails, CleanUp, Unlink, InFlight
<1>3. pc'[r] \in {"write", "rename", "cleanup", "done"}
  BY <1>0 DEF OpenTemp, WriteTemp, WriteFails, RenameTemp, RenameFails, CleanUp, Unlink, Goto, End
<1>4. Heard(r)'
  BY <1>3 DEF Heard
<1> HIDE DEF f
<1>5. CASE OpenTemp(r)
  <2>1. /\ pc[r] = "open" /\ pc'[r] = "write" /\ at'[r] = "temp" /\ live' = live
        /\ temp'[f] = Whole(Empty)
    BY <1>0, <1>2, <1>5 DEF OpenTemp, Goto, f
  <2>2. Due(r)'
    BY <1>0, <1>1, <2>1 DEF Due, Pen
  <2>3. Pen(r)'
    BY <1>1, <2>1, <2>2 DEF Pen, f
  <2> QED
    BY <1>0, <1>1, <1>4, <2>1, <2>3 DEF OnDisk
<1>6. CASE WriteTemp(r) \/ WriteFails(r)
  <2>1. pc[r] = "write" /\ at[r] = "temp" /\ temp[f] = Whole(Empty) /\ Due(r)
    BY <1>0, <1>6 DEF WriteTemp, WriteFails, Pen, f
  <2>2. Opened(r) = Whole(Empty)
    BY <2>1 DEF Opened, f
  <2>3. Whole(Empty).vs = Empty
    BY Contents, Bytes
  <2>4. PICK s : Fill(r, s) /\ (WriteTemp(r) => s = Whole(buf[r]))
    BY <1>6, <2>2, <2>3 DEF WriteTemp, WriteFails, Overwritten
  <2>5. at'[r] = "gone" /\ live' = live /\ temp'[f] = s
    BY <1>0, <1>2, <2>1, <2>4 DEF Fill, f
  <2>6. Due(r)'
    BY <1>1, <2>1, <2>5 DEF Due
  <2>7. (WriteTemp(r) /\ pc'[r] = "rename") \/ pc'[r] = "done"
    BY <1>0, <1>6 DEF WriteTemp, WriteFails, Goto, End
  <2>8. Pen(r)'
    BY <1>1, <2>4, <2>5, <2>6, <2>7 DEF Pen, f
  <2> QED
    BY <1>0, <1>1, <1>4, <2>5, <2>8 DEF OnDisk
<1>7. CASE RenameFails(r)
  <2>1. pc'[r] = "cleanup" /\ at' = at /\ live' = live /\ pc[r] = "rename"
    BY <1>0, <1>7 DEF RenameFails, Goto
  <2> QED
    BY <1>0, <1>1, <1>4, <2>1 DEF Pen, OnDisk
<1>8. CASE RenameTemp(r) \/ CleanUp(r) \/ Unlink(r)
  <2>1. /\ pc[r] \in {"rename", "cleanup", "unlink"} /\ at[r] = "gone" /\ pc'[r] = "done"
    BY <1>0, <1>8 DEF RenameTemp, CleanUp, Unlink, Goto, End, Pen
  <2>2. at'[r] = "gone"
    BY <1>8, <2>1 DEF RenameTemp, CleanUp, Unlink, Moved
  <2>3. Pen(r)'
    BY <2>1, <2>2 DEF Pen
  <2>4. OnDisk'
    <3>1. CASE RenameTemp(r)
      <4>1. live' = [live EXCEPT ![f] = Whole(buf[r])] /\ made
        BY <1>0, <3>1 DEF RenameTemp, Pen, Phase, f
      <4>2. ~Whole(buf[r]).torn
        BY <1>0, Bytes
      <4> QED
        BY <1>0, <1>1, <4>1, <4>2 DEF OnDisk
    <3>2. CASE CleanUp(r)
      BY <1>0, <1>1, <3>2 DEF CleanUp, OnDisk
    <3>3. CASE Unlink(r)
      BY <1>0, <1>1, <1>2, <3>3 DEF Unlink, OnDisk, f
    <3> QED
      BY <1>8, <3>1, <3>2, <3>3
  <2> QED
    BY <1>4, <2>3, <2>4
<1> QED
  BY <1>5, <1>6, <1>7, <1>8

LEMMA ReadingKeeps ==
  ASSUME Base, Undisturbed, NEW r \in Requests,
         ReadDir(r) \/ (\E f \in Files : ReadLayout(r, f)) \/ FindForRaw(r) \/ ReadRaw(r)
  PROVE  (Pen(r) /\ Heard(r) /\ OnDisk)'
<1>0. /\ Pen(r) /\ Heard(r) /\ OnDisk /\ Phase(r)
      /\ pc \in [Requests -> Steps] /\ todo \in [Requests -> SUBSET Files]
      /\ answer \in [Requests -> [Files -> Content \union {None, Broken, NoAnswer}]]
      /\ live \in [Files -> Stored \union {None}]
      /\ System \in [Files -> Content \union {None}]
  BY LayersAssumption DEF Base, TypeOK, Undisturbed
<1>1. UNCHANGED <<made, live, temp, at, job, buf>>
  BY DEF ReadDir, ReadLayout, FindForRaw, ReadRaw
<1>2. OnDisk'
  BY <1>0, <1>1 DEF OnDisk
<1>3. pc[r] \in {"readdir", "read", "find", "readraw"} /\ pc'[r] \in {"read", "readraw", "done"}
  BY <1>0 DEF ReadDir, ReadLayout, FindForRaw, ReadRaw, Goto, End
<1>4. Pen(r)'
  BY <1>0, <1>1, <1>3 DEF Pen
<1>5. CASE ReadDir(r)
  <2> DEFINE names == {f \in Files : System[f] # None \/ (InPath(r) /\ live[f] # None)}
  <2>1. /\ pc[r] = "readdir" /\ job[r].op = "list" /\ Scope(job[r]) = Files
        /\ \A f \in Files : answer[r][f] = NoAnswer
        /\ todo'[r] = names /\ Tell(r, Files \ names, None)
        /\ pc'[r] = IF names = {} THEN "done" ELSE "read"
    BY <1>0, <1>5 DEF ReadDir, Goto, End, Phase, Heard, Scope
  <2>2. names \subseteq Files /\ None # NoAnswer
    BY UserStoreAssumption
  <2> HIDE DEF names
  <2>3. \A f \in Files : answer'[r][f] = IF f \in names THEN NoAnswer ELSE None
    BY <1>0, <2>1, <2>2 DEF Tell
  <2>4. names = {f \in Files : answer'[r][f] = NoAnswer}
    BY <2>2, <2>3
  <2> QED
    BY <1>1, <1>2, <1>4, <2>1, <2>2, <2>4 DEF Heard
<1>6. ASSUME NEW f \in Files, ReadLayout(r, f)
      PROVE  Heard(r)'
  <2>1. PICK c \in IF InPath(r) /\ live[f] # None THEN Parses(live[f]) ELSE {System[f]} : Tell(r, {f}, c)
    BY <1>6 DEF ReadLayout
  <2>2. c # NoAnswer
    BY <1>0, <2>1, Bytes, UserStoreAssumption
  <2>3. /\ pc[r] = "read" /\ f \in todo[r] /\ todo'[r] = todo[r] \ {f}
        /\ todo[r] = {g \in Scope(job[r]) : answer[r][g] = NoAnswer}
        /\ todo[r] \subseteq Files
    BY <1>0, <1>6 DEF ReadLayout, Heard
  <2>4. \A g \in Files : answer'[r][g] = IF g = f THEN c ELSE answer[r][g]
    BY <1>0, <2>1 DEF Tell
  <2>5. Scope(job[r]) \subseteq Files
    <3>1. job[r] \in AllJobs
      BY Working, <2>3
    <3> QED
      BY <3>1, JobFields DEF Scope
  <2>6. todo'[r] = {g \in Scope(job[r]) : answer'[r][g] = NoAnswer}
    BY <2>2, <2>3, <2>4, <2>5
  <2>7. pc'[r] = "read" => todo'[r] # {}
    BY <1>0, <1>6, <2>3 DEF ReadLayout, Goto, End
  <2> QED
    BY <1>1, <1>3, <2>3, <2>6, <2>7, <1>6, <1>0 DEF Heard, ReadLayout, Goto, End
<1>7. CASE FindForRaw(r)
  <2>1. pc[r] = "find" /\ \A f \in Files : answer[r][f] = NoAnswer
    BY <1>0, <1>7 DEF FindForRaw, Heard
  <2>2. (pc'[r] = "readraw" /\ answer' = answer) \/ pc'[r] = "done"
    BY <1>0, <1>7 DEF FindForRaw, Goto, End
  <2> QED
    BY <1>1, <1>2, <1>4, <2>1, <2>2 DEF Heard
<1>8. CASE ReadRaw(r)
  <2>1. pc'[r] = "done"
    BY <1>0, <1>8 DEF ReadRaw, Goto, End
  <2> QED
    BY <1>2, <1>4, <2>1 DEF Heard
<1> QED
  BY <1>2, <1>4, <1>5, <1>6, <1>7, <1>8

\* A request that is handled stays the only writer of its file.
LEMMA ExclusiveKeeps ==
  ASSUME Overlap = FALSE, Base, Exclusive, [Next]_vars
  PROVE  Exclusive'
<1>1. ASSUME NEW r \in Requests, Handler(r)
      PROVE  Exclusive'
  <2>1. PICK s \in Steps \ {"idle", "root"}, how \in {"ok", "refused"} : Moves(r, s, how)
    BY <1>1, HandlerMoves
  <2>2. job' = job /\ \A q \in Requests : InFlight(q)' => InFlight(q)
    BY <1>1, <2>1, HandlerMoves DEF Moves, InFlight, Base, TypeOK
  <2> QED
    BY <2>2 DEF Exclusive, Writes
<1>2. ASSUME NEW r \in Requests, NEW j \in Jobs, Accept(r, j)
      PROVE  Exclusive'
  <2>1. /\ job' = [job EXCEPT ![r] = j] /\ job \in [Requests -> AllJobs \union {NoJob}]
        /\ \A q \in Requests \ {r} : InFlight(q)' => InFlight(q)
        /\ Writes(j) => \A q \in Requests : InFlight(q) /\ Writes(job[q]) => job[q].file # j.file
    BY <1>2 DEF Accept, Goto, InFlight, Base, TypeOK
  <2>2. /\ job'[r] = j
        /\ \A q \in Requests \ {r} : job'[q] = job[q]
    BY <2>1
  <2> QED
    BY <2>1, <2>2 DEF Exclusive, Writes
<1>3. CASE Crash
  <2>1. job' = job /\ \A q \in Requests : ~InFlight(q)'
    BY <1>3 DEF Crash, InFlight, Base, TypeOK
  <2> QED
    BY <2>1 DEF Exclusive
<1>4. CASE UNCHANGED vars
  BY <1>4 DEF vars, Exclusive, InFlight, Writes
<1> QED
  BY <1>1, <1>2, <1>3, <1>4 DEF Next

LEMMA UndisturbedKeeps ==
  ASSUME Overlap = FALSE, Base, Undisturbed, [Next]_vars
  PROVE  Undisturbed'
<1>0. Exclusive'
  BY ExclusiveKeeps DEF Undisturbed
<1>1. ASSUME NEW r \in Requests, Handler(r)
      PROVE  Undisturbed'
  <2>1. (Pen(r) /\ Heard(r) /\ OnDisk)'
    BY <1>1, PlanningKeeps, WritingKeeps, ReadingKeeps DEF Handler
  <2>2. \A q \in Requests \ {r} : (Pen(q) /\ Heard(q))'
    BY <1>1, OthersKeep
  <2> QED
    BY <1>0, <2>1, <2>2 DEF Undisturbed
<1>2. ASSUME NEW r \in Requests, NEW j \in Jobs, Accept(r, j)
      PROVE  Undisturbed'
  <2>1. /\ pc[r] = "idle" /\ pc'[r] = "root"
        /\ \A q \in Requests \ {r} : pc'[q] = pc[q] /\ job'[q] = job[q]
        /\ UNCHANGED <<made, live, temp, buf, at, todo, answer>>
    BY <1>2 DEF Accept, Goto, Base, TypeOK
  <2>2. OnDisk'
    BY <2>1 DEF OnDisk, Undisturbed
  <2>3. (Pen(r) /\ Heard(r))'
    BY <2>1 DEF Pen, Heard, Undisturbed
  <2>4. ASSUME NEW q \in Requests, q # r
        PROVE  (Pen(q) /\ Heard(q))'
    BY <2>1, <2>4 DEF Pen, Heard, Due, Undisturbed
  <2> QED
    BY <1>0, <2>2, <2>3, <2>4 DEF Undisturbed
<1>3. CASE Crash
  <2>1. /\ UNCHANGED <<made, live, temp, answer>>
        /\ \A q \in Requests : at'[q] = "gone" /\ (pc'[q] = "done" \/ (pc'[q] = "idle" /\ pc[q] = "idle"))
    BY <1>3 DEF Crash, InFlight
  <2>2. OnDisk'
    BY <2>1 DEF OnDisk, Undisturbed
  <2>3. \A q \in Requests : (Pen(q) /\ Heard(q))'
    BY <2>1 DEF Pen, Heard, Undisturbed
  <2> QED
    BY <1>0, <2>2, <2>3 DEF Undisturbed
<1>4. CASE UNCHANGED vars
  BY <1>0, <1>4 DEF vars, Undisturbed, OnDisk, Pen, Heard, Due
<1> QED
  BY <1>1, <1>2, <1>3, <1>4 DEF Next

LEMMA UndisturbedBegins == Init => Undisturbed
<1> SUFFICES ASSUME Init
             PROVE  Undisturbed
  OBVIOUS
<1>1. Exclusive
  BY DEF Init, Exclusive, InFlight
<1>2. OnDisk
  <2>1. \A f \in Files : live[f] # None => \E c \in Content : live[f] = Whole(c)
    BY DEF Init
  <2>2. \A f \in Files : live[f] # None => ~live[f].torn
    BY <2>1, Bytes
  <2>3. ~made => \A f \in Files : live[f] = None
    BY DEF Init
  <2> QED
    BY <2>2, <2>3 DEF OnDisk
<1>3. \A r \in Requests : Pen(r) /\ Heard(r)
  BY DEF Init, Pen, Heard
<1> QED
  BY <1>1, <1>2, <1>3 DEF Undisturbed
-----------------------------------------------------------------------------
(* What LayoutStore sees of the files and of one request.                   *)
Seen(l) == [f \in Files |-> IF l[f] = None THEN None ELSE l[f].vs]

ToldOf(j, p, a) == [f \in Files |-> IF j # NoJob /\ f \in Scope(j) /\ p = "system" THEN System[f] ELSE a[f]]

AllTold(j, told) == j # NoJob /\ Scope(j) # {} /\ \A f \in Scope(j) : told[f] # NoAnswer

VerdictOn(j, told, how) == IF AllTold(j, told) THEN "ok" ELSE IF how = "none" THEN "open" ELSE how

\* LayoutStore's helpers are this module's.
LEMMA SameFiles ==
  /\ Store!AllJobs = AllJobs
  /\ Store!Content = Content
  /\ \A j : (Store!Writes(j) <=> Writes(j)) /\ Store!Scope(j) = Scope(j)
  /\ \A c, d : Store!Merged(c, d) = Merged(c, d) /\ Store!Without(c, d) = Without(c, d)
  /\ \A c, f : Store!Shadow(c, f) = Shadow(c, f)
<1>1. Store!Content = Content /\ Store!Empty = Empty
  BY DEF Store!Content, Content, Store!Empty, Empty
<1>2. Store!AllJobs = AllJobs
  BY <1>1 DEF Store!AllJobs, AllJobs, Store!Saves, Saves, Store!Puts, Puts, Store!Deletes, Deletes,
              Store!Reads, Reads, Store!Lists, Lists
<1>3. \A j : (Store!Writes(j) <=> Writes(j)) /\ Store!Scope(j) = Scope(j)
  BY DEF Store!Writes, Writes, Store!Scope, Scope
<1>4. \A c, d : Store!Merged(c, d) = Merged(c, d) /\ Store!Without(c, d) = Without(c, d)
  BY DEF Store!Merged, Merged, Store!Without, Without
<1>5. \A c, f : Store!Shadow(c, f) = Shadow(c, f)
  BY DEF Store!Shadow, Shadow
<1> QED
  BY <1>1, <1>2, <1>3, <1>4, <1>5

LEMMA Views ==
  /\ OnDisk => StoredUnderName = Seen(live)
  /\ Told = [r \in Requests |-> ToldOf(job[r], paths[r], answer[r])]
  /\ Verdicts = [r \in Requests |-> VerdictOn(job[r], Told[r], reply[r])]
<1>1. OnDisk => StoredUnderName = Seen(live)
  BY DEF OnDisk, StoredUnderName, Seen
<1>2. Told = [r \in Requests |-> ToldOf(job[r], paths[r], answer[r])]
  BY DEF Told, ToldOf, ScopeOf
<1>3. Verdicts = [r \in Requests |-> VerdictOn(job[r], Told[r], reply[r])]
  BY DEF Verdicts, VerdictOn, AllTold, ScopeOf
<1> QED
  BY <1>1, <1>2, <1>3

LEMMA ViewsNext ==
  /\ OnDisk' => StoredUnderName' = Seen(live')
  /\ Told' = [r \in Requests |-> ToldOf(job'[r], paths'[r], answer'[r])]
  /\ Verdicts' = [r \in Requests |-> VerdictOn(job'[r], (Told')[r], reply'[r])]
<1>1. OnDisk' => StoredUnderName' = Seen(live')
  BY DEF OnDisk, StoredUnderName, Seen
<1>2. Told' = [r \in Requests |-> ToldOf(job'[r], paths'[r], answer'[r])]
  BY DEF Told, ToldOf, ScopeOf
<1>3. Verdicts' = [r \in Requests |-> VerdictOn(job'[r], (Told')[r], reply'[r])]
  BY DEF Verdicts, VerdictOn, AllTold, ScopeOf
<1> QED
  BY <1>1, <1>2, <1>3

\* A step that leaves all of this alone.
LEMMA StutterMaps ==
  ASSUME OnDisk, OnDisk', UNCHANGED <<live, job, paths, answer, reply>>
  PROVE  UNCHANGED Store!vars
<1>1. UNCHANGED StoredUnderName
  BY DEF StoredUnderName
<1>2. UNCHANGED <<Told, Verdicts>>
  BY Views, ViewsNext
<1> QED
  BY <1>1, <1>2 DEF Store!vars

\* A handler's step changes what is seen of its own request only.
LEMMA HandlerSees ==
  ASSUME Base, Undisturbed, OnDisk', NEW r \in Requests, Handler(r)
  PROVE  /\ job' = job /\ reply[r] = "none" /\ job[r] \in AllJobs /\ job[r] # NoJob
         /\ StoredUnderName = Seen(live) /\ StoredUnderName' = Seen(live')
         /\ Told[r] = ToldOf(job[r], paths[r], answer[r])
         /\ (Told')[r] = ToldOf(job[r], paths'[r], answer'[r])
         /\ Verdicts[r] = VerdictOn(job[r], Told[r], "none")
         /\ (Verdicts')[r] = VerdictOn(job[r], (Told')[r], reply'[r])
         /\ Told' = [Told EXCEPT ![r] = (Told')[r]]
         /\ Verdicts' = [Verdicts EXCEPT ![r] = (Verdicts')[r]]
<1>1. PICK s \in Steps \ {"idle", "root"}, how \in {"ok", "refused"} : Moves(r, s, how)
  BY HandlerMoves
<1>2. InFlight(r) /\ Apart(r) /\ Phase(r) /\ OnDisk
  BY HandlerMoves, StepsAreApart DEF Undisturbed, Base
<1>3. job' = job /\ reply[r] = "none" /\ job[r] \in AllJobs /\ job[r] # NoJob
  BY <1>1, <1>2, Working, JobFields DEF Moves, InFlight, Phase
<1>4. \A q \in Requests \ {r} : paths'[q] = paths[q] /\ answer'[q] = answer[q] /\ reply'[q] = reply[q]
  BY <1>1, <1>2 DEF Moves, Apart, Base, TypeOK
<1>5. \A q \in Requests \ {r} : (Told')[q] = Told[q]
  BY <1>3, <1>4, Views, ViewsNext
<1>6. \A q \in Requests \ {r} : (Verdicts')[q] = Verdicts[q]
  BY <1>3, <1>4, <1>5, Views, ViewsNext
<1>7. Told' = [Told EXCEPT ![r] = (Told')[r]]
  BY <1>5, Views, ViewsNext
<1>8. Verdicts' = [Verdicts EXCEPT ![r] = (Verdicts')[r]]
  BY <1>6, Views, ViewsNext
<1> QED
  BY <1>2, <1>3, <1>7, <1>8, Views, ViewsNext

\* A writer's step before the rename or after a failure.
LEMMA WriterWaits ==
  ASSUME Base, Undisturbed, OnDisk', NEW r \in Requests, Handler(r), Writes(job[r]),
         live' = live, UNCHANGED answer,
         reply' = reply \/ reply' = [reply EXCEPT ![r] = "refused"]
  PROVE  [Store!Next]_(Store!vars)
<1>1. Scope(job[r]) = {} /\ ~AllTold(job[r], Told[r]) /\ ~AllTold(job[r], (Told')[r])
  BY HandlerSees DEF Scope, Writes, AllTold
<1>2. (Told')[r] = Told[r]
  <2>1. \A p : ToldOf(job[r], p, answer[r]) = [f \in Files |-> answer[r][f]]
    BY <1>1 DEF ToldOf
  <2>2. Told[r] = ToldOf(job[r], paths[r], answer[r]) /\ (Told')[r] = ToldOf(job[r], paths'[r], answer[r])
    BY HandlerSees
  <2> QED
    BY <2>1, <2>2
<1>3. Verdicts[r] = "open" /\ (Verdicts')[r] = IF reply'[r] = "none" THEN "open" ELSE reply'[r]
  BY <1>1, HandlerSees DEF VerdictOn
<1>4. reply'[r] \in {"none", "refused"}
  BY HandlerSees DEF Base, TypeOK
<1>5. Told' = Told
  BY <1>2, HandlerSees, Views
<1>6. StoredUnderName' = StoredUnderName
  BY HandlerSees
<1>7. CASE reply'[r] = "none"
  <2>1. Verdicts' = Verdicts
    BY <1>3, <1>7, HandlerSees, Views
  <2> QED
    BY <1>5, <1>6, <2>1, HandlerSees DEF Store!vars
<1>8. CASE reply'[r] = "refused"
  <2>1. Verdicts' = [Verdicts EXCEPT ![r] = "refused"]
    BY <1>3, <1>8, HandlerSees
  <2>2. Store!Refuse(r)
    BY <1>3, <1>5, <1>6, <2>1, HandlerSees, SameFiles DEF Store!Refuse, Store!Open
  <2> QED
    BY <2>2 DEF Store!Next
<1> QED
  BY <1>4, <1>7, <1>8

\* A rename puts under the name what was due, an unlink takes the last
\* variant away with the file.
LEMMA WriterApplies ==
  ASSUME Base, Undisturbed, OnDisk', NEW r \in Requests, Handler(r), RenameTemp(r) \/ Unlink(r)
  PROVE  Store!Apply(r)
<1> DEFINE f == job[r].file
           old == Seen(live)[f]
<1>0. /\ live \in [Files -> Stored \union {None}] /\ buf \in [Requests -> Content]
      /\ reply \in [Requests -> {"none", "ok", "refused", "lost"}]
      /\ Pen(r) /\ Phase(r) /\ OnDisk
  BY DEF Base, TypeOK, Undisturbed
<1>1. Writes(job[r]) /\ f \in Files /\ job[r].op \in {"save", "put", "delete"}
  BY <1>0, Working DEF RenameTemp, Unlink, Phase, Writes
<1>2. Scope(job[r]) = {} /\ ~AllTold(job[r], Told[r]) /\ ~AllTold(job[r], (Told')[r])
  BY HandlerSees, <1>1 DEF Scope, Writes, AllTold
<1>3. answer' = answer /\ paths' = paths
  BY DEF RenameTemp, Unlink
<1>4. Told' = Told
  BY <1>3, HandlerSees, Views
<1>5. Unlink(r) => live[f] # None /\ job[r].op = "delete" /\ DOMAIN live[f].vs = {job[r].variant}
  BY <1>0 DEF Unlink, Pen, Phase
<1>6. reply' = [reply EXCEPT ![r] = "ok"]
  BY <1>5 DEF RenameTemp, Unlink, End
<1>7. Verdicts[r] = "open" /\ Verdicts' = [Verdicts EXCEPT ![r] = "ok"]
  BY <1>0, <1>2, <1>6, HandlerSees DEF VerdictOn
<1>8. RenameTemp(r) => Due(r) /\ live' = [live EXCEPT ![f] = Whole(buf[r])]
  BY <1>0 DEF RenameTemp, Pen
<1>9. buf[r] \in Content /\ Whole(buf[r]) # None /\ Whole(buf[r]).vs = buf[r]
  BY <1>0, Bytes
<1>10. old = IF live[f] = None THEN None ELSE live[f].vs
  BY <1>1 DEF Seen
<1>11. live[f] # None => live[f].vs \in Content /\ live[f].vs # None
  BY <1>0, <1>1, Bytes, LayersAssumption
<1>12. job[r].op = "delete" => old # None /\ job[r].variant \in DOMAIN old
  BY <1>5, <1>8, <1>10, <1>11 DEF Due
<1>13. Seen(live') = [Seen(live) EXCEPT ![f] = Store!Written(job[r], old)]
  <2>1. ASSUME RenameTemp(r)
        PROVE  Store!Written(job[r], old) = buf[r]
    <3>1. CASE job[r].op = "save"
      BY <1>8, <1>10, <1>11, <2>1, <3>1, SameFiles DEF Due, Store!Written
    <3>2. CASE job[r].op = "put"
      BY <1>8, <2>1, <3>2 DEF Due, Store!Written
    <3>3. CASE job[r].op = "delete"
      <4>1. /\ job[r].variant \in DOMAIN old /\ DOMAIN old # {job[r].variant}
            /\ buf[r] = Without(old, job[r].variant)
        BY <1>8, <1>10, <2>1, <3>3 DEF Due
      <4>2. DOMAIN Without(old, job[r].variant) # {}
        BY <4>1, LastVariant
      <4> QED
        BY <3>3, <4>1, <4>2, SameFiles DEF Store!Written
    <3> QED
      BY <1>1, <3>1, <3>2, <3>3
  <2>2. ASSUME Unlink(r)
        PROVE  Store!Written(job[r], old) = None
    <3>1. DOMAIN old = {job[r].variant} /\ job[r].op = "delete"
      BY <1>5, <1>10, <2>2
    <3>2. DOMAIN Without(old, job[r].variant) = {}
      BY <3>1, LastVariant
    <3> QED
      BY <3>1, <3>2, SameFiles DEF Store!Written
  <2> HIDE DEF f, old
  <2>3. CASE RenameTemp(r)
    BY <1>0, <1>1, <1>8, <1>9, <2>1, <2>3 DEF Seen
  <2>4. CASE Unlink(r)
    <3>1. live' = [live EXCEPT ![f] = None]
      BY <2>4 DEF Unlink, f
    <3> QED
      BY <1>0, <1>1, <2>2, <2>4, <3>1 DEF Seen
  <2> QED
    BY <2>3, <2>4
<1>14. StoredUnderName' = [StoredUnderName EXCEPT ![f] = Store!Written(job[r], @)]
  BY <1>13, HandlerSees
<1> QED
  BY <1>1, <1>4, <1>7, <1>12, <1>14, HandlerSees, SameFiles DEF Store!Apply, Store!Open

LEMMA WriterMaps ==
  ASSUME Base, Undisturbed, Undisturbed', NEW r \in Requests, Handler(r), Writes(job[r])
  PROVE  [Store!Next]_(Store!vars)
<1>0. OnDisk' /\ Phase(r)
  BY DEF Undisturbed, Base
<1>1. CASE RenameTemp(r) \/ Unlink(r)
  BY <1>0, <1>1, WriterApplies DEF Store!Next
<1>2. CASE ~RenameTemp(r) /\ ~Unlink(r)
  <2>1. job[r].op \notin {"list", "lookup", "raw"}
    BY DEF Writes
  <2>2. /\ ~ReadDir(r) /\ ~FindForRaw(r) /\ ~ReadRaw(r)
        /\ \A f \in Files : ~ReadLayout(r, f)
    BY <1>0, <2>1 DEF ReadDir, FindForRaw, ReadRaw, ReadLayout, Phase
  <2>3. live' = live
    <3>1. at[r] = IF pc[r] = "write" THEN "temp" ELSE "gone"
      BY DEF Undisturbed, Pen
    <3> QED
      BY <1>2, <2>2, <3>1 DEF Handler, Root, MakeDir, ReadForMerge, FindForDelete, ReadForDelete,
           OpenTemp, WriteTemp, WriteFails, RenameFails, CleanUp, Fill
  <2>4. /\ answer' = answer
        /\ reply' = reply \/ reply' = [reply EXCEPT ![r] = "refused"]
    BY <1>2, <2>2 DEF Handler, Root, MakeDir, ReadForMerge, FindForDelete, ReadForDelete,
         OpenTemp, WriteTemp, WriteFails, RenameFails, CleanUp, End
  <2> QED
    BY <1>0, <2>3, <2>4, WriterWaits
<1> QED
  BY <1>1, <1>2

\* A reader is told of the files of S what is under their names now.
LEMMA AnswerMaps ==
  ASSUME Base, Undisturbed, OnDisk', NEW r \in Requests, Handler(r), live' = live,
         ~Writes(job[r]),
         NEW S, S # {}, S \subseteq {f \in Scope(job[r]) : Told[r][f] = NoAnswer},
         \A f \in Files : (Told')[r][f] = IF f \in S THEN Store!Shadow(Seen(live)[f], f) ELSE Told[r][f],
         reply'[r] = "none" \/ \A f \in Scope(job[r]) : (Told')[r][f] # NoAnswer
  PROVE  [Store!Next]_(Store!vars)
<1>1. Scope(job[r]) # {} /\ Scope(job[r]) \subseteq Files
  BY HandlerSees, JobFields DEF Scope
<1>2. ~AllTold(job[r], Told[r])
  BY DEF AllTold
<1>3. Verdicts[r] = "open"
  BY <1>2, HandlerSees DEF VerdictOn
<1>4. (Verdicts')[r] = IF \A f \in Scope(job[r]) : (Told')[r][f] # NoAnswer THEN "ok" ELSE "open"
  BY <1>1, HandlerSees DEF VerdictOn, AllTold
<1>5. (Told')[r] = [f \in Files |-> IF f \in S THEN Store!Shadow(StoredUnderName[f], f) ELSE Told[r][f]]
  <2>1. (Told')[r] = [f \in Files |-> (Told')[r][f]]
    BY HandlerSees DEF ToldOf
  <2> QED
    BY <2>1, HandlerSees
<1>6. Told' = [Told EXCEPT ![r] =
        [f \in Files |-> IF f \in S THEN Store!Shadow(StoredUnderName[f], f) ELSE @[f]]]
  BY <1>5, HandlerSees
<1>7. Verdicts' = [Verdicts EXCEPT ![r] =
        IF \A f \in Scope(job[r]) : (Told')[r][f] # NoAnswer THEN "ok" ELSE @]
  BY <1>3, <1>4, HandlerSees
<1>8. Store!Answer(r, S)
  BY <1>3, <1>6, <1>7, HandlerSees, SameFiles DEF Store!Answer, Store!Open
<1> QED
  BY <1>1, <1>8 DEF Store!Next

LEMMA ReaderMaps ==
  ASSUME Base, Undisturbed, Undisturbed', NEW r \in Requests, Handler(r), ~Writes(job[r])
  PROVE  [Store!Next]_(Store!vars)
<1>0. /\ OnDisk' /\ OnDisk /\ Phase(r) /\ Heard(r) /\ reply[r] = "none"
      /\ job[r] \in AllJobs /\ job[r] # NoJob /\ job' = job
      /\ pc \in [Requests -> Steps]
      /\ reply \in [Requests -> {"none", "ok", "refused", "lost"}]
      /\ paths \in [Requests -> {"unset", "user", "system"}]
      /\ answer \in [Requests -> [Files -> Content \union {None, Broken, NoAnswer}]]
      /\ live \in [Files -> Stored \union {None}]
      /\ System \in [Files -> Content \union {None}]
      /\ NoAnswer \notin Content \union {None, Broken}
  BY HandlerSees, LayersAssumption, UserStoreAssumption DEF Undisturbed, Base, TypeOK
<1>1. job[r].op \in {"lookup", "raw", "list"}
  BY <1>0, JobFields DEF Writes
<1>2. Scope(job[r]) # {} /\ Scope(job[r]) \subseteq Files
      /\ (job[r].op = "list" => Scope(job[r]) = Files)
      /\ (job[r].op # "list" => Scope(job[r]) = {job[r].file})
  BY <1>0, <1>1, JobFields, LayersAssumption DEF Scope
<1>3. \A f \in Files : Told[r][f] = IF f \in Scope(job[r]) /\ paths[r] = "system" THEN System[f] ELSE answer[r][f]
  <2>1. Told[r] = ToldOf(job[r], paths[r], answer[r])
    BY HandlerSees, <1>0
  <2> QED
    BY <1>0, <2>1 DEF ToldOf
<1>4. \A f \in Files : (Told')[r][f] = IF f \in Scope(job[r]) /\ paths'[r] = "system" THEN System[f] ELSE answer'[r][f]
  <2>1. (Told')[r] = ToldOf(job[r], paths'[r], answer'[r])
    BY HandlerSees, <1>0
  <2> QED
    BY <1>0, <2>1 DEF ToldOf
<1>5. \A f \in Files : Store!Shadow(Seen(live)[f], f) =
        IF live[f] = None THEN System[f] ELSE live[f].vs
  <2>1. \A f \in Files : live[f] # None => live[f].vs # None
    BY <1>0, Bytes, LayersAssumption
  <2> QED
    BY <2>1, SameFiles DEF Seen, Shadow
\* Who cannot see the user's directory was told everything with the paths.
<1>6. ASSUME live' = live, paths' = paths, paths[r] = "system",
             \A f \in Files \ Scope(job[r]) : answer'[r][f] = answer[r][f]
      PROVE  [Store!Next]_(Store!vars)
  <2>1. \A f \in Files : (Told')[r][f] = Told[r][f]
    BY <1>3, <1>4, <1>6
  <2>2. (Told')[r] = Told[r]
    <3>1. Told[r] = ToldOf(job[r], paths[r], answer[r]) /\ (Told')[r] = ToldOf(job[r], paths'[r], answer'[r])
      BY HandlerSees, <1>0
    <3>2. Told[r] = [f \in Files |-> Told[r][f]] /\ (Told')[r] = [f \in Files |-> (Told')[r][f]]
      BY <3>1 DEF ToldOf
    <3> QED
      BY <2>1, <3>2
  <2>3. AllTold(job[r], Told[r])
    BY <1>0, <1>2, <1>3, <1>6 DEF AllTold
  <2>4. (Verdicts')[r] = Verdicts[r]
    BY <1>0, <2>2, <2>3, HandlerSees DEF VerdictOn
  <2>5. Told' = Told /\ Verdicts' = Verdicts
    BY <1>0, <2>2, <2>4, HandlerSees, Views
  <2> QED
    BY <1>0, <1>6, <2>5, HandlerSees DEF Store!vars
<1>7. CASE Root(r)
  <2>1. /\ paths[r] = "unset" /\ paths'[r] = (IF made THEN "user" ELSE "system")
        /\ UNCHANGED <<live, answer, reply>> /\ pc[r] = "root"
    BY <1>0, <1>7 DEF Root, Phase
  <2>2. \A f \in Files : Told[r][f] = NoAnswer
    BY <1>0, <1>3, <2>1 DEF Heard
  <2>3. CASE made
    <3>1. ToldOf(job[r], paths'[r], answer[r]) = ToldOf(job[r], paths[r], answer[r])
      BY <2>1, <2>3 DEF ToldOf
    <3>2. Told' = Told
      BY <1>0, <2>1, <3>1, HandlerSees, Views
    <3>3. Verdicts' = Verdicts
      BY <1>0, <2>1, <3>2, HandlerSees, Views
    <3> QED
      BY <1>0, <2>1, <3>2, <3>3, HandlerSees DEF Store!vars
  <2>4. CASE ~made
    <3>1. \A f \in Files : live[f] = None
      BY <1>0, <2>4 DEF OnDisk
    <3>2. \A f \in Files : (Told')[r][f] =
            IF f \in Scope(job[r]) THEN Store!Shadow(Seen(live)[f], f) ELSE Told[r][f]
      BY <1>3, <1>4, <1>5, <2>1, <2>4, <3>1
    <3>3. \A f \in Scope(job[r]) : (Told')[r][f] # NoAnswer
      BY <1>0, <1>2, <1>5, <3>1, <3>2
    <3>4. Scope(job[r]) \subseteq {f \in Scope(job[r]) : Told[r][f] = NoAnswer}
      BY <1>2, <2>2
    <3> QED
      BY <1>0, <1>2, <2>1, <3>2, <3>3, <3>4, AnswerMaps
  <2> QED
    BY <2>3, <2>4
<1>8. CASE ReadDir(r)
  <2> DEFINE names == {f \in Files : System[f] # None \/ (InPath(r) /\ live[f] # None)}
             S == Files \ names
  <2>1. /\ pc[r] = "readdir" /\ job[r].op = "list" /\ UNCHANGED <<live, paths>>
        /\ \A f \in Files : answer[r][f] = NoAnswer
        /\ Tell(r, S, None)
        /\ reply' = IF names = {} THEN [reply EXCEPT ![r] = "ok"] ELSE reply
    BY <1>0, <1>8 DEF ReadDir, End, Phase, Heard
  <2>2. \A f \in Files : answer'[r][f] = IF f \in S THEN None ELSE NoAnswer
    BY <1>0, <2>1 DEF Tell
  <2>3. CASE paths[r] = "system"
    BY <1>2, <1>6, <2>1, <2>3
  <2>4. CASE paths[r] = "user"
    <3>1. \A f \in S : live[f] = None /\ System[f] = None
      BY <2>4 DEF InPath
    <3>2. \A f \in Files : (Told')[r][f] = (IF f \in S THEN None ELSE NoAnswer) /\ Told[r][f] = NoAnswer
      BY <1>3, <1>4, <2>1, <2>2, <2>4
    <3>3. CASE S = {}
      <4>1. names # {}
        BY <3>3, LayersAssumption
      <4>2. answer' = answer
        <5>1. answer' = [answer EXCEPT ![r] = [f \in Files |-> IF f \in S THEN None ELSE @[f]]]
          BY <2>1 DEF Tell
        <5>2. [f \in Files |-> IF f \in S THEN None ELSE answer[r][f]] = answer[r]
          BY <1>0, <3>3
        <5> QED
          BY <1>0, <5>1, <5>2
      <4> QED
        BY <1>0, <2>1, <4>1, <4>2, StutterMaps
    <3>4. CASE S # {}
      <4>1. \A f \in Files : (Told')[r][f] = IF f \in S THEN Store!Shadow(Seen(live)[f], f) ELSE Told[r][f]
        BY <1>5, <3>1, <3>2
      <4>2. reply'[r] = "none" \/ \A f \in Scope(job[r]) : (Told')[r][f] # NoAnswer
        BY <1>0, <1>2, <2>1, <3>2
      <4>3. S \subseteq {f \in Scope(job[r]) : Told[r][f] = NoAnswer}
        BY <1>2, <2>1, <3>2
      <4> HIDE DEF S, names
      <4> QED
        BY <1>0, <2>1, <3>4, <4>1, <4>2, <4>3, AnswerMaps
    <3> QED
      BY <3>3, <3>4
  <2> QED
    BY <1>0, <2>1, <2>3, <2>4 DEF Phase
<1>9. ASSUME NEW f \in Files, ReadLayout(r, f)
      PROVE  [Store!Next]_(Store!vars)
  <2>1. PICK c \in IF InPath(r) /\ live[f] # None THEN Parses(live[f]) ELSE {System[f]} : Tell(r, {f}, c)
    BY <1>9 DEF ReadLayout
  <2>2. /\ pc[r] = "read" /\ f \in todo[r] /\ UNCHANGED <<live, paths>>
        /\ todo[r] = {g \in Scope(job[r]) : answer[r][g] = NoAnswer}
        /\ reply' = IF todo[r] = {f} THEN [reply EXCEPT ![r] = "ok"] ELSE reply
    BY <1>0, <1>9 DEF ReadLayout, End, Heard
  <2>3. \A g \in Files : answer'[r][g] = IF g = f THEN c ELSE answer[r][g]
    BY <1>0, <2>1 DEF Tell
  <2>4. CASE paths[r] = "system"
    BY <1>2, <1>6, <2>2, <2>3, <2>4
  <2>5. CASE paths[r] = "user"
    <3>1. c = IF live[f] = None THEN System[f] ELSE live[f].vs
      BY <1>0, <2>1, <2>5, ReadWhole DEF InPath
    <3>2. c # NoAnswer
      BY <1>0, <3>1, Bytes
    <3>3. \A g \in Files : (Told')[r][g] = IF g \in {f} THEN Store!Shadow(Seen(live)[g], g) ELSE Told[r][g]
      BY <1>3, <1>4, <1>5, <2>2, <2>3, <2>5, <3>1
    <3>4. {f} \subseteq {g \in Scope(job[r]) : Told[r][g] = NoAnswer}
      BY <1>2, <1>3, <2>2, <2>5
    <3>5. reply'[r] = "none" \/ \A g \in Scope(job[r]) : (Told')[r][g] # NoAnswer
      <4>1. CASE todo[r] = {f}
        BY <1>2, <1>4, <2>2, <2>3, <2>5, <3>2, <4>1
      <4>2. CASE todo[r] # {f}
        BY <1>0, <2>2, <4>2
      <4> QED
        BY <4>1, <4>2
    <3> DEFINE S == {f}
    <3>6. S # {} /\ live' = live /\ OnDisk'
      BY <1>0, <2>2
    <3> HIDE DEF S
    <3> QED
      BY <3>3, <3>4, <3>5, <3>6, AnswerMaps DEF S
  <2> QED
    BY <1>0, <2>2, <2>4, <2>5 DEF Phase
<1>10. CASE FindForRaw(r) \/ ReadRaw(r)
  <2> DEFINE f == job[r].file
  <2>1. /\ job[r].op = "raw" /\ f \in Files /\ Scope(job[r]) = {f} /\ UNCHANGED <<live, paths>>
        /\ paths[r] \in {"user", "system"}
        /\ \A g \in Files : answer[r][g] = NoAnswer
        /\ ReadRaw(r) => paths[r] = "user"
    BY <1>0, <1>2, <1>10, JobFields DEF FindForRaw, ReadRaw, Phase, Heard
  <2> HIDE DEF f
  <2>2. \A c : Tell(r, {f}, c) => \A g \in Files : answer'[r][g] = IF g = f THEN c ELSE answer[r][g]
    BY <1>0 DEF Tell
  <2>3. \/ UNCHANGED <<answer, reply>>
        \/ live[f] = None /\ ReadRaw(r) /\ answer' = answer /\ reply' = [reply EXCEPT ![r] = "refused"]
        \/ live[f] = None /\ Tell(r, {f}, System[f])
        \/ paths[r] = "system" /\ Tell(r, {f}, System[f])
        \/ paths[r] = "user" /\ live[f] # None /\ Tell(r, {f}, live[f].vs)
    <3>1. CASE FindForRaw(r)
      BY <1>0, <2>1, <3>1 DEF FindForRaw, InPath, End, Goto, f
    <3>2. CASE ReadRaw(r) /\ live[f] = None
      BY <3>2 DEF ReadRaw, End, f
    <3>3. CASE ReadRaw(r) /\ live[f] # None
      <4>1. Parses(live[f]) = {live[f].vs}
        BY <2>1, <3>3, ReadWhole
      <4>2. \E c \in Parses(live[f]) : Tell(r, {f}, c)
        BY <3>3 DEF ReadRaw, f
      <4> QED
        BY <2>1, <3>3, <4>1, <4>2
    <3> QED
      BY <1>10, <3>1, <3>2, <3>3
  <2>4. CASE UNCHANGED <<answer, reply>>
    BY <1>0, <2>1, <2>4, StutterMaps
  <2>5. CASE paths[r] = "system" /\ Tell(r, {f}, System[f])
    BY <1>6, <2>1, <2>2, <2>5
  <2>6. CASE paths[r] = "user" /\ Tell(r, {f}, IF live[f] = None THEN System[f] ELSE live[f].vs)
    <3> DEFINE c == IF live[f] = None THEN System[f] ELSE live[f].vs
    <3>1. c # NoAnswer
      BY <1>0, <2>1, Bytes
    <3>2. \A g \in Files : answer'[r][g] = IF g = f THEN c ELSE answer[r][g]
      BY <2>2, <2>6
    <3>3. \A g \in Files : (Told')[r][g] = IF g \in {f} THEN Store!Shadow(Seen(live)[g], g) ELSE Told[r][g]
      BY <1>3, <1>4, <1>5, <2>1, <2>6, <3>2
    <3>4. {f} \subseteq {g \in Scope(job[r]) : Told[r][g] = NoAnswer}
      BY <1>3, <2>1, <2>6
    <3>5. \A g \in Scope(job[r]) : (Told')[r][g] # NoAnswer
      BY <1>4, <2>1, <2>6, <3>1, <3>2
    <3> QED
      BY <1>0, <2>1, <3>3, <3>4, <3>5, AnswerMaps
  <2>7. CASE paths[r] = "user" /\ answer' = answer /\ reply' = [reply EXCEPT ![r] = "refused"]
    <3>1. Told[r][f] = NoAnswer /\ (Told')[r][f] = NoAnswer
      BY <1>3, <1>4, <2>1, <2>7
    <3>2. ~AllTold(job[r], Told[r]) /\ ~AllTold(job[r], (Told')[r])
      BY <2>1, <3>1 DEF AllTold
    <3>3. Verdicts[r] = "open" /\ Verdicts' = [Verdicts EXCEPT ![r] = "refused"]
      BY <1>0, <2>7, <3>2, HandlerSees DEF VerdictOn
    <3>4. Told' = Told
      BY <1>0, <2>1, <2>7, HandlerSees, Views
    <3>5. Store!Refuse(r)
      BY <1>0, <2>1, <3>3, <3>4, HandlerSees DEF Store!Refuse, Store!Open
    <3> QED
      BY <3>5 DEF Store!Next
  <2> QED
    BY <2>1, <2>3, <2>4, <2>5, <2>6, <2>7
<1>11. ~(MakeDir(r) \/ ReadForMerge(r) \/ FindForDelete(r) \/ ReadForDelete(r)
         \/ OpenTemp(r) \/ WriteTemp(r) \/ WriteFails(r)
         \/ RenameTemp(r) \/ RenameFails(r) \/ CleanUp(r) \/ Unlink(r))
  BY <1>0, <1>1 DEF Phase, Writes, MakeDir, ReadForMerge, FindForDelete, ReadForDelete,
       OpenTemp, WriteTemp, WriteFails, RenameTemp, RenameFails, CleanUp, Unlink
<1> QED
  BY <1>7, <1>8, <1>9, <1>10, <1>11 DEF Handler

LEMMA AcceptMaps ==
  ASSUME Base, Undisturbed, Undisturbed', NEW r \in Requests, NEW j \in Jobs, Accept(r, j)
  PROVE  [Store!Next]_(Store!vars)
<1>0. /\ j \in AllJobs /\ j # NoJob /\ job[r] = NoJob /\ reply[r] = "none" /\ paths[r] = "unset"
      /\ \A f \in Files : answer[r][f] = NoAnswer
      /\ job' = [job EXCEPT ![r] = j] /\ job \in [Requests -> AllJobs \union {NoJob}]
      /\ UNCHANGED <<live, paths, answer, reply>> /\ OnDisk /\ OnDisk'
  BY UserStoreAssumption DEF Accept, Base, TypeOK, Phase, Undisturbed, Heard
<1>1. job'[r] = j /\ \A q \in Requests \ {r} : job'[q] = job[q]
  BY <1>0
<1>2. \A k : ToldOf(k, "unset", answer[r]) = [f \in Files |-> NoAnswer]
  BY <1>0 DEF ToldOf
<1>3. Told' = Told
  <2>1. \A q \in Requests : ToldOf(job'[q], paths'[q], answer'[q]) = ToldOf(job[q], paths[q], answer[q])
    BY <1>0, <1>1, <1>2
  <2> QED
    BY <2>1, Views, ViewsNext
<1>4. Told[r] = [f \in Files |-> NoAnswer]
  BY <1>0, <1>2, Views
<1>5. ~AllTold(j, Told[r]) /\ ~AllTold(NoJob, Told[r])
  <2>1. Scope(j) \subseteq Files
    BY <1>0, JobFields DEF Scope
  <2> QED
    BY <1>4, <2>1 DEF AllTold
<1>6. Verdicts' = Verdicts
  <2>1. \A q \in Requests : VerdictOn(job'[q], Told[q], reply'[q]) = VerdictOn(job[q], Told[q], reply[q])
    BY <1>0, <1>1, <1>5 DEF VerdictOn
  <2> QED
    BY <1>3, <2>1, Views, ViewsNext
<1>7. StoredUnderName' = StoredUnderName
  BY <1>0, Views, ViewsNext
<1>8. Store!Ask(r, j)
  BY <1>0, <1>3, <1>6, <1>7 DEF Store!Ask
<1> QED
  BY <1>0, <1>8, SameFiles DEF Store!Next

\* The requests that were in flight and had not been told all are lost.
LEMMA CrashMaps ==
  ASSUME Base, Undisturbed, Undisturbed', Crash
  PROVE  [Store!Next]_(Store!vars)
<1> DEFINE R == {r \in Requests : InFlight(r) /\ Verdicts[r] = "open"}
<1>0. /\ UNCHANGED <<live, job, paths, answer>> /\ OnDisk /\ OnDisk'
      /\ \A r \in Requests : reply'[r] = IF InFlight(r) THEN "lost" ELSE reply[r]
      /\ \A r \in Requests : InFlight(r) => reply[r] = "none" /\ job[r] # NoJob
  BY DEF Crash, Base, Undisturbed, Phase, InFlight
<1>1. StoredUnderName' = StoredUnderName /\ Told' = Told
  BY <1>0, Views, ViewsNext
<1>2. \A r \in Requests : VerdictOn(job[r], Told[r], reply'[r]) =
        IF InFlight(r) /\ VerdictOn(job[r], Told[r], reply[r]) = "open" THEN "lost"
        ELSE VerdictOn(job[r], Told[r], reply[r])
  BY <1>0 DEF VerdictOn
<1>3. Verdicts' = [r \in Requests |-> IF r \in R THEN "lost" ELSE Verdicts[r]]
  BY <1>0, <1>1, <1>2, Views, ViewsNext
<1>4. \A r \in R : Store!Open(r)
  BY <1>0 DEF Store!Open
<1> HIDE DEF R
<1>5. Store!Lose(R)
  BY <1>0, <1>1, <1>3, <1>4 DEF Store!Lose
<1>6. R \in SUBSET Requests
  BY DEF R
<1> QED
  BY <1>5, <1>6 DEF Store!Next

LEMMA StoreBegins == Init => Store!Init
<1> SUFFICES ASSUME Init
             PROVE  Store!Init
  OBVIOUS
<1>1. OnDisk
  BY UndisturbedBegins DEF Undisturbed
<1>2. \A f \in Files : live[f] # None => live[f].vs \in Content
  BY BaseBegins, Bytes DEF Base, TypeOK
<1>3. StoredUnderName \in [Files -> Content \union {None}]
  BY <1>1, <1>2, Views DEF Seen
<1>4. Told = [r \in Requests |-> [f \in Files |-> NoAnswer]]
  BY Views DEF Init, ToldOf
<1>5. \A t, how : VerdictOn(NoJob, t, how) = IF how = "none" THEN "open" ELSE how
  BY DEF VerdictOn, AllTold
<1>6. Verdicts = [r \in Requests |-> "open"]
  BY <1>5, Views DEF Init
<1>7. job = [r \in Requests |-> NoJob]
  BY DEF Init
<1> QED
  BY <1>3, <1>4, <1>6, <1>7, SameFiles DEF Store!Init

(* UserStore.ImplementsLayoutStore: with no two writes of one file in       *)
(* flight the editor server keeps LayoutStore's promise, for any files,     *)
(* contents, requests and crashes: each write happens at its rename (or     *)
(* its unlink), each answer at the read of the file, or when the paths were *)
(* looked up if the user had no directory yet, and nothing else shows.      *)
THEOREM EditorImplementsStore ==
  ASSUME Overlap = FALSE
  PROVE  Spec => ImplementsLayoutStore
<1>1. Init => Base /\ Undisturbed
  BY BaseBegins, UndisturbedBegins
<1>2. Base /\ Undisturbed /\ [Next]_vars => (Base /\ Undisturbed)'
  BY BaseKeeps, UndisturbedKeeps
<1>3. Base /\ Undisturbed /\ (Base /\ Undisturbed)' /\ [Next]_vars => [Store!Next]_(Store!vars)
  <2> SUFFICES ASSUME Base, Undisturbed, Undisturbed', [Next]_vars
               PROVE  [Store!Next]_(Store!vars)
    OBVIOUS
  <2>1. ASSUME NEW r \in Requests, Handler(r)
        PROVE  [Store!Next]_(Store!vars)
    BY <2>1, WriterMaps, ReaderMaps
  <2>2. ASSUME NEW r \in Requests, NEW j \in Jobs, Accept(r, j)
        PROVE  [Store!Next]_(Store!vars)
    BY <2>2, AcceptMaps
  <2>3. CASE Crash
    BY <2>3, CrashMaps
  <2>4. CASE UNCHANGED vars
    <3>1. UNCHANGED <<live, job, paths, answer, reply>>
      BY <2>4 DEF vars
    <3> QED
      BY <3>1, StutterMaps DEF Undisturbed
  <2> QED
    BY <2>1, <2>2, <2>3, <2>4 DEF Next
<1>4. Init => Store!Init
  BY StoreBegins
<1> QED
  BY <1>1, <1>2, <1>3, <1>4, PTL DEF Spec, ImplementsLayoutStore, Store!Spec
=============================================================================

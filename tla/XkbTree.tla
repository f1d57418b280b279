------------------------------- MODULE XkbTree -------------------------------
(***************************************************************************)
(* The commands that write an xkb tree (cmd/flexkb/main.go): generate and  *)
(* build fill an output directory, dropin-check compares it with the       *)
(* upstream tree, activate fills ~/.xkb and installs ~/.XCompose.  One     *)
(* command runs at a time; any write may fail, or the process be killed,   *)
(* half way through a file, and the next command runs on what is left.     *)
(* Every file is written in place.                                         *)
(*                                                                         *)
(* A symbols file is a sequence of xkb_symbols blocks, those in comments   *)
(* included; body says whose text a block is.  What the blocks say is      *)
(* LayoutCompose's subject.  Of the four registry files one .xml and one   *)
(* .lst are modelled: the two of a kind are treated alike.                 *)
(***************************************************************************)
EXTENDS Naturals, FiniteSets, SequencesExt

CONSTANTS
  Files,        \* names of symbols files
  Upstreams,    \* [symbols, xml, lst] of an upstream tree, linked if its root is a symlink
  DataTrees,    \* the data root: its layout files, in the order they are listed
  Hands,        \* what a user may write into ~/.XCompose
  NoFile,
  Scripts       \* bound: the commands a user runs one after the other

\* Blocks: kind is "live", or the comment the block is in, "block" or "line",
\* each in one of its own; plain says the declaration is written with one space
\* before the name.
Block(name, body) == [name |-> name, body |-> body, kind |-> "live", plain |-> TRUE]
Blocks == [name : STRING, body : {"ours", "upstream", "old"},
           kind : {"live", "block", "line"}, plain : BOOLEAN]
\* A text that parses is FALSE for ends inside a block, or confuses matchBraces;
\* one that is open ends in the comment of its last block.
Text(blocks) == [blocks |-> blocks, parses |-> TRUE, open |-> FALSE]
Texts == [blocks : Seq(Blocks), parses : BOOLEAN, open : BOOLEAN]

\* What a registry file lists.
Registry == Seq([name : Files, variants : Seq(STRING)])
Lst == [layouts : Seq(Files), variants : Seq([tag : {f \o ":" : f \in Files}, name : STRING])]

\* compose says whether a variant declares chains, and whether they are found.
Variants == [name : STRING, passthrough : BOOLEAN, composes : BOOLEAN,
             compose : {"none", "good", "missing", "bad"}]
Layouts == [file : Files, variants : Seq(Variants)]

\* A name of a symbols file is not another one with a colon after it.
ASSUME FilesAssumption == IsFiniteSet(Files) /\ \A f, g \in Files : g # f \o ":"

ASSUME UpstreamAssumption ==
  /\ Upstreams \subseteq [symbols : [Files -> Texts \union {NoFile}],
                          xml : Registry \union {NoFile}, lst : Lst \union {NoFile},
                          linked : BOOLEAN]
  /\ NoFile \notin Texts /\ NoFile \notin Registry /\ NoFile \notin Lst

\* A data tree is a sequence of layouts, each with a sequence of variants.  A
\* layout says which symbols file it is for; no two say the same.
ASSUME TreeAssumption ==
  /\ DataTrees \subseteq Seq(Layouts)
  /\ \A d \in DataTrees : \A i, j \in DOMAIN d : d[i].file = d[j].file => i = j

ASSUME ScriptAssumption == Scripts \subseteq Seq(STRING)

ASSUME HandAssumption ==
  /\ "flexkb" \notin Hands
  /\ NoFile \notin [by : Hands \union {"flexkb"}, marked : BOOLEAN]

VARIABLES
  upstream,  \* the xkb tree of --xkb
  data,      \* what makeRoot's paths hold
  tree,      \* symbols/ of the output directory and of ~/.xkb
  rules,     \* rules/ of the output directory: its .xml and its .lst
  chains,    \* Compose.d of the output directory, by name
  xcompose,  \* ~/.XCompose: who wrote it and whether it has the marker
  backups,   \* ~/.XCompose.flexkb-backup-<pid>
  cmd, todo, \* the command that runs, and the steps it has left
  script,    \* the commands still to run
  finished,  \* what last ran to its end over each tree, the data unchanged since
  report,    \* what dropin-check said of the output directory as it is
  owed       \* what the user wrote to ~/.XCompose and did not replace himself

vars == <<upstream, data, tree, rules, chains, xcompose, backups, cmd, todo, script,
          finished, report, owed>>

Idle == [op |-> "none"]
Dest == IF cmd.op = "activate" THEN "home" ELSE "out"
Named(l, name) == {v \in ToSet(l.variants) : v.name = name}

Init ==
  /\ upstream \in Upstreams /\ data \in DataTrees
  /\ tree = [d \in {"out", "home"} |-> [f \in Files |-> NoFile]]
  /\ rules = [xml |-> NoFile, lst |-> NoFile]
  /\ chains = {}
  /\ xcompose = NoFile /\ backups = {}
  /\ cmd = Idle /\ todo = <<>> /\ script \in Scripts
  /\ finished = [d \in {"out", "home"} |-> "none"]
  /\ report = "none" /\ owed = {}
-----------------------------------------------------------------------------
(* xkbparser: the live blocks, and the source text each is credited with. *)

\* Only a comment that ends is stripped.
Seen(text, i) ==
  \/ text.blocks[i].kind = "live"
  \/ text.open /\ i = Len(text.blocks) /\ text.blocks[i].kind = "block"

\* extractRaw takes the first mention of the name of block i from an offset on;
\* inside a line comment the closing brace is never found.
Source(text, i, from) ==
  LET mentions == {j \in from .. Len(text.blocks) :
                     text.blocks[j].name = text.blocks[i].name /\ text.blocks[j].plain}
  IN {j \in mentions : text.blocks[j].kind # "line" /\ \A k \in mentions : j <= k}

\* Where the search goes on after each block.
Offsets(text) ==
  LET after[i \in 0 .. Len(text.blocks)] ==
        IF i = 0 THEN 1
        ELSE LET found == Source(text, i, after[i - 1]) IN
             IF Seen(text, i) /\ found # {} THEN Min(found) + 1 ELSE after[i - 1]
  IN after

\* A seen block's raw source is the block found, or nothing.
Raw(text, i) ==
  LET found == Source(text, i, Offsets(text)[i - 1])
  IN IF found = {} THEN <<>> ELSE <<[text.blocks[Min(found)] EXCEPT !.kind = "live"]>>

Parse(text) ==
  IF text = NoFile \/ ~text.parses THEN <<>>
  ELSE FlattenSeq([i \in DOMAIN text.blocks |->
                     IF ~Seen(text, i) THEN <<>>
                     ELSE <<[name |-> text.blocks[i].name, raw |-> Raw(text, i)]>>])

\* The variants of a layout that are composed.
Composed(l) ==
  FlattenSeq([i \in DOMAIN l.variants |->
                IF l.variants[i].passthrough THEN <<>>
                ELSE <<Block(l.variants[i].name, "ours")>>])

\* The variants marked passthrough, as upstream has them last.
Passthroughs(l, up) ==
  LET from(v) == {j \in DOMAIN up : up[j].name = v.name}
      raw(v) == IF v.passthrough /\ from(v) # {} THEN up[Max(from(v))].raw ELSE <<>>
  IN FlattenSeq([i \in DOMAIN l.variants |-> raw(l.variants[i])])

\* Mutant: a passthrough variant is not counted as owned.
ImplicitForgetsPassthrough(l, up) ==
  FlattenSeq([i \in DOMAIN up |-> IF \E v \in Named(l, up[i].name) : ~v.passthrough THEN <<>>
                                  ELSE up[i].raw])

\* Upstream's variants that the layout file does not name.
Implicit(l, up) ==
  FlattenSeq([i \in DOMAIN up |-> IF Named(l, up[i].name) = {} THEN up[i].raw ELSE <<>>])

\* generateOneWithUpstream: what it writes to the layout's symbols file.
Generated(op, l) ==
  LET up == IF op = "build" THEN Parse(upstream.symbols[l.file]) ELSE <<>>
  IN Text(Composed(l) \o Passthroughs(l, up) \o Implicit(l, up))
-----------------------------------------------------------------------------
(* rulespatch: the registry the keyboard pickers read. *)

Names(l) == [i \in DOMAIN l.variants |-> l.variants[i].name]

\* Known layouts get their new variants, others are added at the end.
PatchXML(reg) ==
  LET at(l) == {i \in DOMAIN reg : reg[i].name = l.file}
      new(l, i) == IF at(l) = {} \/ i # Max(at(l)) THEN <<>>
                   ELSE FlattenSeq([k \in DOMAIN l.variants |->
                          IF l.variants[k].name \in ToSet(reg[i].variants) THEN <<>>
                          ELSE <<l.variants[k].name>>])
      added(l) == IF at(l) # {} THEN <<>> ELSE <<[name |-> l.file, variants |-> Names(l)]>>
  IN [i \in DOMAIN reg |->
        [reg[i] EXCEPT !.variants = @ \o FlattenSeq([k \in DOMAIN data |-> new(data[k], i)])]]
     \o FlattenSeq([k \in DOMAIN data |-> added(data[k])])

\* Mutant: no colon.
BareTag(file) == file

\* What a line of the .lst's variant section says of the name's file.
Tag(file) == file \o ":"

\* The look-up of what is known already leaves the colon out.
PatchLst(lst) ==
  LET known(l, v) == \E i \in DOMAIN lst.variants :
                       lst.variants[i].tag = l.file /\ lst.variants[i].name = v.name
      line(l, v) == IF known(l, v) THEN <<>> ELSE <<[tag |-> Tag(l.file), name |-> v.name]>>
      lines(l) == FlattenSeq([i \in DOMAIN l.variants |-> line(l, l.variants[i])])
      layout(l) == IF l.file \in ToSet(lst.layouts) THEN <<>> ELSE <<l.file>>
  IN [layouts |-> lst.layouts \o FlattenSeq([k \in DOMAIN data |-> layout(data[k])]),
      variants |-> lst.variants \o FlattenSeq([k \in DOMAIN data |-> lines(data[k])])]
-----------------------------------------------------------------------------
(* The commands' steps. *)

Each(do, seq) == [i \in DOMAIN seq |-> [do |-> do, at |-> seq[i]]]
Owned == {data[i].file : i \in DOMAIN data}

\* The upstream symbols files that are not skipped.
CopyTree == Each("registry", <<"lst", "xml">>)
            \o Each("copy", SetToSeq({f \in Files \ Owned : upstream.symbols[f] # NoFile}))

\* One file for each variant that declares compose chains.
ComposeFiles ==
  LET at(l, v) == IF v.compose = "none" THEN <<>> ELSE <<[file |-> l.file, variant |-> v]>>
      of(l) == FlattenSeq([i \in DOMAIN l.variants |-> at(l, l.variants[i])])
  IN Each("compose", FlattenSeq([k \in DOMAIN data |-> of(data[k])]))

Install(v) == IF v.compose = "none" THEN <<>>
              ELSE Each("keep", <<v>>) \o Each("install", <<v>>)
                   \o (IF v.compose = "good" THEN Each("sign", <<v>>) ELSE <<>>)

Plan(c) ==
  CASE c.op = "generate" -> Each("symbols", data) \o ComposeFiles
    [] c.op = "build" -> CopyTree \o Each("symbols", data)
                         \o Each("patch", <<"xml", "lst">>) \o ComposeFiles
    [] c.op = "dropin-check" -> Each("check", <<"out">>)
    [] OTHER -> Each("symbols", data) \o Install(c.variant)

\* activate looks the variant up before it writes anything.
Commands ==
  [op : {"generate", "build", "dropin-check"}]
  \union [op : {"activate"}, variant : UNION {ToSet(l.variants) : l \in ToSet(data)}]

Start(c) ==
  /\ cmd = Idle /\ script # <<>> /\ c.op = Head(script)
  /\ cmd' = c /\ todo' = Plan(c) /\ script' = Tail(script)
  /\ finished' = CASE c.op = "activate" -> [finished EXCEPT !["home"] = "none"]
                   [] c.op \in {"generate", "build"} -> [finished EXCEPT !["out"] = "none"]
                   [] OTHER -> finished
  /\ report' = IF c.op = "activate" THEN report ELSE "none"
  /\ UNCHANGED <<upstream, data, tree, rules, chains, xcompose, backups, owed>>

At(do) == todo # <<>> /\ Head(todo).do = do
Proceed == todo' = Tail(todo) /\ UNCHANGED <<upstream, data, cmd, script, finished, report, owed>>
Stop == cmd' = Idle /\ todo' = <<>>
       /\ UNCHANGED <<upstream, data, script, finished, report, owed>>

\* What a write that stops half way leaves, in a comment perhaps.
Cut(text) ==
  [blocks : Prefixes(text.blocks), parses : BOOLEAN, open : {FALSE}]
  \union [blocks : {p \in Prefixes(text.blocks) : p # <<>> /\ Last(p).kind = "block"},
          parses : {TRUE}, open : {TRUE}]

PutSymbols(f, text) ==
  \/ tree' = [tree EXCEPT ![Dest][f] = text] /\ Proceed
  \/ \E part \in Cut(text) : tree' = [tree EXCEPT ![Dest][f] = part] /\ Stop

CopyFile ==
  /\ At("copy")
  /\ PutSymbols(Head(todo).at, upstream.symbols[Head(todo).at])
  /\ UNCHANGED <<rules, chains, xcompose, backups>>

\* A recipe that does not compose ends the command before the file is created.
WriteSymbols ==
  /\ At("symbols")
  /\ LET l == Head(todo).at IN
       IF \E v \in ToSet(l.variants) : ~v.passthrough /\ ~v.composes
       THEN Stop /\ UNCHANGED tree
       ELSE PutSymbols(l.file, Generated(cmd.op, l))
  /\ UNCHANGED <<rules, chains, xcompose, backups>>

PutRules(kind, content, parts) ==
  \/ rules' = [rules EXCEPT ![kind] = content] /\ Proceed
  \/ \E part \in parts : rules' = [rules EXCEPT ![kind] = part] /\ Stop

PartsXML(reg) == Prefixes(reg)
PartsLst(lst) == {[layouts |-> l, variants |-> <<>>] : l \in Prefixes(lst.layouts)}
                 \union [layouts : {lst.layouts}, variants : Prefixes(lst.variants)]

CopyRules ==
  /\ At("registry")
  /\ LET kind == Head(todo).at IN
       IF upstream[kind] = NoFile THEN Proceed /\ UNCHANGED rules
       ELSE PutRules(kind, upstream[kind], IF kind = "xml" THEN PartsXML(upstream.xml)
                                           ELSE PartsLst(upstream.lst))
  /\ UNCHANGED <<tree, chains, xcompose, backups>>

\* EnsureRules: each file is read and written back where it is.
PatchRules ==
  /\ At("patch")
  /\ LET kind == Head(todo).at IN
       IF rules[kind] = NoFile THEN Proceed /\ UNCHANGED rules
       ELSE IF kind = "xml" THEN PutRules("xml", PatchXML(rules.xml), PartsXML(PatchXML(rules.xml)))
       ELSE PutRules("lst", PatchLst(rules.lst), PartsLst(PatchLst(rules.lst)))
  /\ UNCHANGED <<tree, chains, xcompose, backups>>

\* A variant's file in Compose.d.
Path(file, name) == file \o "-" \o name
Paths == UNION {{Path(l.file, v.name) : v \in ToSet(l.variants)} :
                l \in UNION {ToSet(d) : d \in DataTrees}}

\* generateComposeFiles: created first, removed again if no chain was found.
WriteCompose ==
  /\ At("compose")
  /\ LET v == Head(todo).at.variant
         path == Path(Head(todo).at.file, v.name)
         without == {c \in chains : c.path # path}
         With(state) == without \union {[path |-> path, state |-> state]}
     IN \/ v.compose = "good" /\ chains' = With("whole") /\ Proceed
        \/ v.compose = "missing" /\ chains' = without /\ Proceed
        \/ v.compose = "missing" /\ chains' = With("empty") /\ Stop
        \/ v.compose # "missing" /\ chains' = With("part") /\ Stop
  /\ UNCHANGED <<tree, rules, xcompose, backups>>

\* Mutant: one name for all backups.
OneBackup == 0

\* os.Getpid: no two commands of a script have the same.
BackupName == Len(script)

\* installUserXCompose: a file without the marker is moved aside.
KeepUserFile ==
  /\ cmd.op = "activate" /\ At("keep")
  /\ IF xcompose = NoFile \/ xcompose.marked THEN UNCHANGED <<xcompose, backups>>
     ELSE /\ xcompose' = NoFile
          /\ backups' = {b \in backups : b.pid # BackupName} \union {[pid |-> BackupName, of |-> xcompose]}
  /\ Proceed /\ UNCHANGED <<tree, rules, chains>>

Written(marked) == [by |-> "flexkb", marked |-> marked]

\* The chains are first written under the header of build, which has no
\* marker.  With a chain that is not there the file stays, empty.
InstallXCompose ==
  /\ cmd.op = "activate" /\ At("install")
  /\ xcompose' = Written(FALSE)
  /\ \/ Head(todo).at.compose # "bad" /\ Proceed
     \/ Stop
  /\ UNCHANGED <<tree, rules, chains, backups>>

\* writeVariantComposeWithHeader: once more, with the marker.
SignXCompose ==
  /\ cmd.op = "activate" /\ At("sign")
  /\ \/ xcompose' = Written(TRUE) /\ Proceed
     \/ \E marked \in BOOLEAN : xcompose' = Written(marked) /\ Stop
  /\ UNCHANGED <<tree, rules, chains, backups>>

\* os.Exit or a signal between two writes.
Killed ==
  /\ cmd # Idle /\ Stop
  /\ UNCHANGED <<tree, rules, chains, xcompose, backups>>

\* setxkbmap and xkbcomp, which activate runs at last, write no file.
Finish ==
  /\ cmd # Idle /\ todo = <<>>
  /\ cmd' = Idle
  /\ finished' = IF cmd.op = "dropin-check" THEN finished
                 ELSE [finished EXCEPT ![Dest] = cmd.op]
  /\ UNCHANGED <<upstream, data, tree, rules, chains, xcompose, backups, todo, script,
                 report, owed>>
-----------------------------------------------------------------------------
(* dropincheck *)

VariantNames(text) == {v.name : v \in ToSet(Parse(text))}
Pairs(reg) == UNION {{<<reg[i].name>>} \union {<<reg[i].name, v>> : v \in ToSet(reg[i].variants)} :
                     i \in DOMAIN reg}

\* Mutant: files of the layouts are not compared.
MissingInCopies ==
  UNION {{f} \X (VariantNames(upstream.symbols[f]) \ VariantNames(tree["out"][f])) :
         f \in Files \ Owned}

\* compareVariants: of two texts that parse.
MissingVariants ==
  UNION {{f} \X (VariantNames(upstream.symbols[f]) \ VariantNames(tree["out"][f])) :
         f \in {g \in Files : /\ upstream.symbols[g] # NoFile /\ tree["out"][g] # NoFile
                              /\ upstream.symbols[g].parses /\ tree["out"][g].parses}}

\* filepath.Walk does not follow a root that is a symlink: then it compares
\* that with the output directory itself.
MissingFiles(made) ==
  IF upstream.linked THEN (IF made THEN {} ELSE {"."})
  ELSE {f \in Files : upstream.symbols[f] # NoFile /\ tree["out"][f] = NoFile}
       \union {k \in {"xml", "lst"} : upstream[k] # NoFile /\ rules[k] = NoFile}

MissingRules ==
  IF upstream.xml = NoFile \/ rules.xml = NoFile THEN {} ELSE Pairs(upstream.xml) \ Pairs(rules.xml)

\* A command that stopped at once need not have made the output directory.
NothingYet ==
  /\ finished["out"] = "none" /\ chains = {}
  /\ \A f \in Files : tree["out"][f] = NoFile
  /\ rules = [xml |-> NoFile, lst |-> NoFile]

DropinCheck ==
  /\ At("check")
  /\ todo' = Tail(todo)
  /\ \E made \in BOOLEAN :
       /\ made \/ NothingYet
       /\ report' = IF MissingFiles(made) = {} /\ MissingVariants = {} /\ MissingRules = {}
                    THEN "clean" ELSE "missing"
  /\ UNCHANGED <<upstream, data, tree, rules, chains, xcompose, backups, cmd, script,
                 finished, owed>>
-----------------------------------------------------------------------------
(* Between commands the user edits the data and his ~/.XCompose. *)

EditData ==
  /\ cmd = Idle /\ script # <<>>
  /\ data' \in DataTrees \ {data}
  /\ finished' = [d \in {"out", "home"} |-> "none"]
  /\ UNCHANGED <<upstream, tree, rules, chains, xcompose, backups, cmd, todo, script,
                 report, owed>>

UserWrites(h) ==
  /\ cmd = Idle /\ script # <<>> /\ Head(script) = "activate"
  /\ xcompose' = [by |-> h, marked |-> FALSE]
  /\ owed' = (IF xcompose = NoFile THEN owed ELSE owed \ {xcompose.by}) \union {h}
  /\ UNCHANGED <<upstream, data, tree, rules, chains, backups, cmd, todo, script,
                 finished, report>>

Next ==
  \/ \E c \in Commands : Start(c)
  \/ CopyFile \/ CopyRules \/ WriteSymbols \/ PatchRules \/ WriteCompose
  \/ KeepUserFile \/ InstallXCompose \/ SignXCompose \/ DropinCheck
  \/ Killed \/ Finish \/ EditData
  \/ \E h \in Hands : UserWrites(h)

Spec == Init /\ [][Next]_vars
-----------------------------------------------------------------------------
(* Properties. *)

\* Types.
TypeOK ==
  /\ upstream \in Upstreams /\ data \in DataTrees
  /\ tree \in [{"out", "home"} -> [Files -> Texts \union {NoFile}]]
  /\ rules \in [xml : Registry \union {NoFile}, lst : Lst \union {NoFile}]
  /\ chains \subseteq [path : Paths, state : {"whole", "part", "empty"}]
  /\ \A x \in {xcompose} \union {b.of : b \in backups} :
       x = NoFile \/ (x.by \in Hands \union {"flexkb"} /\ (x.marked => x.by = "flexkb"))
  /\ cmd # Idle => cmd.op \in {"generate", "build", "dropin-check", "activate"}
  /\ report \in {"none", "clean", "missing"}
  /\ finished \in [{"out", "home"} -> {"none", "generate", "build", "activate"}]
  /\ owed \subseteq Hands

\* What libxkbcommon finds under a name.
Live(text, name) ==
  IF text = NoFile THEN <<>>
  ELSE FlattenSeq([i \in DOMAIN text.blocks |->
                     IF text.blocks[i].kind = "live" /\ text.blocks[i].name = name
                     THEN <<text.blocks[i]>> ELSE <<>>])

\* It parses, no two blocks have the same name, and none is oddly spaced.
Tidy(text) ==
  /\ text.parses /\ ~text.open
  /\ \A i \in DOMAIN text.blocks :
       text.blocks[i].plain /\ \A j \in DOMAIN text.blocks :
                                 text.blocks[i].name = text.blocks[j].name => i = j

\* No two variants of a layout have the same name.
OneOfEach(l) ==
  \A i, j \in DOMAIN l.variants : l.variants[i].name = l.variants[j].name => i = j

\* No other variant's chains go to the same file: a-b of c does, with b-c of a.
OwnPath(l, v) ==
  \A k \in ToSet(data) : \A w \in ToSet(k.variants) :
    (w.compose # "none" /\ Path(k.file, w.name) = Path(l.file, v.name)) => k = l /\ w = v

\* Where the .xml lists a variant of a layout.
Entries(reg, file, name) ==
  {p \in UNION {{i} \X DOMAIN reg[i].variants : i \in DOMAIN reg} :
     reg[p[1]].name = file /\ reg[p[1]].variants[p[2]] = name}

ListedOnce(reg, file, name) == Cardinality(Entries(reg, file, name)) = 1

\* A registry that lists each layout once, and each of its variants once.
OneOfEachListed(reg) ==
  \A i, j \in DOMAIN reg :
    /\ reg[i].name = reg[j].name => i = j
    /\ \A p, q \in DOMAIN reg[i].variants : reg[i].variants[p] = reg[i].variants[q] => p = q

\* A command that finished, over whatever earlier commands left behind, has
\* written every variant the data composes, once.  After a build each upstream
\* file is there, as it was unless a layout file names it; then each of its
\* variants is there once, replaced if the layout composes it and verbatim
\* otherwise.  The registry lists every variant of both, the .xml once.  A
\* variant that declares chains has a whole file in Compose.d if they are found
\* and none otherwise, unless another variant's has the same path.
\* (docs/DESIGN.md, Drop-in compatibility.)
FinishedTreeIsDropIn ==
  /\ \A d \in {"out", "home"} : finished[d] # "none" =>
       \A l \in ToSet(data) : OneOfEach(l) => \A v \in ToSet(l.variants) : ~v.passthrough =>
         Live(tree[d][l.file], v.name) = <<Block(v.name, "ours")>>
  /\ finished["out"] # "none" =>
       \A l \in ToSet(data) : \A v \in ToSet(l.variants) :
         (OwnPath(l, v) /\ v.compose # "none") =>
         {c.state : c \in {x \in chains : x.path = Path(l.file, v.name)}}
           = (IF v.compose = "good" THEN {"whole"} ELSE {})
  /\ finished["out"] = "build" =>
       /\ \A f \in Files \ Owned :
            upstream.symbols[f] # NoFile => tree["out"][f] = upstream.symbols[f]
       /\ \A l \in ToSet(data) :
            LET up == upstream.symbols[l.file] IN
            (OneOfEach(l) /\ up # NoFile /\ Tidy(up)) =>
              \A b \in ToSet(up.blocks) : b.kind = "live" =>
                LET ours == \E v \in Named(l, b.name) : ~v.passthrough IN
                Live(tree["out"][l.file], b.name) =
                  <<IF ours THEN Block(b.name, "ours") ELSE b>>
       /\ (upstream.xml # NoFile /\ OneOfEachListed(upstream.xml)) =>
            /\ \A i \in DOMAIN upstream.xml : \A v \in ToSet(upstream.xml[i].variants) :
                 ListedOnce(rules.xml, upstream.xml[i].name, v)
            /\ \A l \in ToSet(data) : OneOfEach(l) =>
                 \A v \in ToSet(Names(l)) : ListedOnce(rules.xml, l.file, v)
       /\ upstream.lst # NoFile =>
            \A l \in ToSet(data) : \A v \in ToSet(Names(l)) :
              \E line \in ToSet(rules.lst.variants) : line = [tag |-> l.file \o ":", name |-> v]

\* What dropin-check can be relied on for.  If it finds nothing missing, then
\* every variant of an upstream file that the tree has is in the tree's, whichever
\* commands were killed over it, unless the parser rejects either or the tree's
\* ends in a comment; and so is each entry of a registry that is there.  Every
\* upstream file is there if the root is no symlink: of one that is, the tree
\* may lack any.  And it lets every finished build of a tidy upstream tree pass.
ReportIsTrue ==
  /\ report = "clean" => \A f \in Files :
       LET up == upstream.symbols[f]
           out == tree["out"][f]
       IN up # NoFile =>
            /\ upstream.linked \/ out # NoFile
            /\ (out # NoFile /\ up.parses /\ out.parses /\ ~out.open) =>
                 \A b \in ToSet(up.blocks) : b.kind = "live" => Live(out, b.name) # <<>>
  /\ (report = "clean" /\ upstream.xml # NoFile) =>
       /\ upstream.linked \/ rules.xml # NoFile
       /\ rules.xml # NoFile =>
            \A i \in DOMAIN upstream.xml : \A v \in ToSet(upstream.xml[i].variants) :
              Entries(rules.xml, upstream.xml[i].name, v) # {}
  /\ (report # "none" /\ finished["out"] = "build"
      /\ \A f \in Files : upstream.symbols[f] # NoFile => Tidy(upstream.symbols[f]))
       => report = "clean"

\* What a user wrote to his ~/.XCompose stays there or in a backup, through
\* any number of activations, wherever they stop (installUserXCompose: "a
\* hand-written file with the user's own includes is recoverable").
HandWrittenIsKept ==
  \A h \in owed :
    \/ xcompose # NoFile /\ xcompose.by = h
    \/ \E b \in backups : b.of.by = h
=============================================================================

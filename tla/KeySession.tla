----------------------------- MODULE KeySession -----------------------------
(***************************************************************************)
(* The in-process tier: imsession.Session (session.go) resolves a key with *)
(* runtime.Resolver, feeds the symbol to the input-method engine           *)
(* (inputmethod/engine.go) and translates its events into actions, which   *)
(* either run()'s keyboard grab (cmd/flexkb-imed/main.go) sends to the     *)
(* compositor or ibus.InputContext (context.go) emits as signals.          *)
(*                                                                         *)
(* Text is a sequence of symbols.  A template is a sequence of literals    *)
(* and of the variables expand() knows.  A match class is given as the set *)
(* of its members.                                                         *)
(***************************************************************************)
EXTENDS Naturals, SequencesExt

CONSTANTS
  Layout,    \* ComposedLayout.Symbols: the levels of each key
  Chains,    \* compose chains: sequences of [input, output]
  Methods,   \* hand-written input methods
  ModStates, \* what a modifiers event may report: sets of xkb modifiers
  StateId(_), \* stateID: what the state of a path is called
  FirstOf(_), \* of paths, the one that sort.Strings puts first
  MaxKeys,   \* bound: symbols fed to one session
  MaxHides   \* bound: focus-outs and resets under way

NoSymbol == "NoSymbol"
Variables == {"${buffer}", "${match}", "${lookup.top}"}

(* What FromCompose accepts: a chain has sequences, and they have an input  *)
(* and an output, which is made of code points, so it holds no variable.    *)
ChainSequences == [input : Seq(STRING) \ {<<>>}, output : Seq(STRING \ Variables) \ {<<>>}]

(* What Load accepts: an action's text is a template, every goto names a    *)
(* state of the method; the method starts in its first one.                 *)
Actions == [commit : Seq(STRING), preedit : Seq(STRING)]
Transitions(ids) ==
  [match : STRING \union {"*"}, class : SUBSET STRING, append : BOOLEAN, pop : BOOLEAN,
   lookup : BOOLEAN, commit : Seq(STRING), preedit : Seq(STRING), clear : BOOLEAN,
   goto : SUBSET ids, gotoIfEmpty : SUBSET ids]
IsMethod(m) ==
  /\ m.initial \in DOMAIN m.states
  /\ \A id \in DOMAIN m.states :
       /\ m.states[id].onEnter \in Actions
       /\ m.states[id].transitions \in Seq(Transitions(DOMAIN m.states))

ASSUME SessionAssumption ==
  /\ MaxKeys \in Nat /\ MaxHides \in Nat
  /\ \A k \in DOMAIN Layout : Layout[k] \in Seq(STRING)
  /\ Chains \subseteq Seq(ChainSequences) \ {<<>>}
  /\ \A m \in Methods : IsMethod(m)

VARIABLES
  tier,          \* the transport of the session: "wayland" or "ibus"
  chain, im,     \* what the session runs; chain is <<>> for a method
  state, buffer, lastLookup,    \* inputmethod.Session
  mods, keymapPending, serial,  \* imsession.Session
  acc,           \* what the compositor holds until the next commit request
  text, preedit, \* committed to the application, and shown in it
  hides,         \* HidePreedit signals decided on and not yet emitted
  focused,       \* InputContext.focused (the wayland tier has no such flag)
  fed,           \* symbols fed since the session was created
  muted          \* TRUE: a key was fed while a keymap was pending

fsm == <<state, buffer, lastLookup>>
session == <<mods, keymapPending, serial>>
app == <<acc, text, preedit, hides, focused>>
history == <<fed, muted>>
vars == <<tier, chain, im, fsm, session, app, history>>

Key == DOMAIN Layout
NoBatch == [text |-> <<>>, preedit |-> <<>>, open |-> FALSE]
-----------------------------------------------------------------------------
(* runtime/resolver.go *)

\* Index from 1: L3 with AltGr, one more with Shift or Lock, clamped.
SelectLevel(m, available) ==
  Min({available, 1 + (IF "AltGr" \in m THEN 2 ELSE 0)
                      + (IF m \intersect {"Shift", "Lock"} # {} THEN 1 ELSE 0)})

\* {} when the key has no symbol there.
Resolve(k, m) ==
  LET levels == Layout[k] IN
  IF levels = <<>> THEN {} ELSE {levels[SelectLevel(m, Len(levels))]} \ {NoSymbol}
-----------------------------------------------------------------------------
(* inputmethod/compose.go *)

\* A transition that matches the symbol m, commits o and goes to g, and no more.
Move(m, o, g) ==
  [match |-> m, class |-> {}, append |-> FALSE, pop |-> FALSE, lookup |-> FALSE,
   commit |-> o, preedit |-> <<>>, clear |-> FALSE, goto |-> g, gotoIfEmpty |-> {}]
Plain == Move("", <<>>, {})
Silent == [commit |-> <<>>, preedit |-> <<>>]   \* no on_enter
Initial == <<>>   \* the state a chain starts in

\* The nodes of a chain's trie: what begins one of its inputs.
Inputs(c) == {c[n].input : n \in DOMAIN c}
Starts(w) == {SubSeq(w, 1, n) : n \in 0..Len(w)}
Paths(c) == UNION {Starts(w) : w \in Inputs(c)}

\* findState: where an arc to the path p leads.  stateID joins a path with
\* underscores, so that two paths may share an id; the first in order is found.
Namesakes(c, p) == {q \in Paths(c) : StateId(q) = StateId(p)}
Found(c, p) == FirstOf(Namesakes(c, p))

ASSUME NamesAssumption ==
  \A c \in Chains : \A p \in Paths(c) : Found(c, p) \in Namesakes(c, p)

\* Mutant: only a sequence of one symbol is given up.
DiscardLate(p) ==
  IF Len(p) < 2 THEN <<>> ELSE <<Move("*", <<>>, {Initial})>>

\* The wildcard arc of a partial sequence: an unknown one is dropped.
Discard(p) ==
  IF p = <<>> THEN <<>> ELSE <<Move("*", <<>>, {Initial})>>

\* The output of the last sequence of c written for w.
Output(c, w) ==
  c[Max({n \in DOMAIN c : c[n].input = w})].output

\* FromCompose: one state per prefix of a sequence, an arc for each symbol
\* that goes on; a path that ends a sequence commits the output of the last
\* sequence written for it, whether longer ones go on or not.  Literals are
\* distinct, so their order does not matter; the wildcard comes last.
FromCompose(c) ==
  LET arc(p) == IF p \in Inputs(c)
                THEN Move(Last(p), Output(c, p), {Initial})
                ELSE Move(Last(p), <<>>, {Found(c, p)})
      below(p) == {q \in Paths(c) : q # <<>> /\ Front(q) = p} IN
  [initial |-> Initial,
   states |-> [p \in Paths(c) |->
     [onEnter |-> Silent,
      transitions |-> SetToSeq({arc(q) : q \in below(p)}) \o Discard(p)]]]
-----------------------------------------------------------------------------
(* inputmethod/engine.go: events and the session after a symbol.           *)

Commit(t) == [kind |-> "commit", text |-> t]
Preedit(t) == [kind |-> "preedit", text |-> t]
Passthrough == [kind |-> "passthrough", text |-> <<>>]
StateChange == [kind |-> "state", text |-> <<>>]

\* expand(): a lookup variable stays in the text while there is no result.
Expand(t, b, look, sym) ==
  FlattenSeq([n \in DOMAIN t |->
    CASE t[n] = "${buffer}" -> b
      [] t[n] = "${match}" -> <<sym>>
      [] t[n] = "${lookup.top}" /\ look # <<>> -> look[1]
      [] OTHER -> <<t[n]>>])

\* What an Action commits and shows, the commit first.
Emit(a, b, look, sym) ==
  (IF a.commit = <<>> THEN <<>> ELSE <<Commit(Expand(a.commit, b, look, sym))>>)
  \o (IF a.preedit = <<>> THEN <<>> ELSE <<Preedit(Expand(a.preedit, b, look, sym))>>)

Matches(tr, sym) ==
  IF tr.match # "" THEN tr.match \in {"*", sym} ELSE sym \in tr.class

\* Mutant: the buffer is popped after the preedit has been built.
ApplyPopsLate(tr, sym) ==
  LET b1 == IF tr.append THEN Append(buffer, sym) ELSE buffer
      look == IF tr.lookup THEN <<b1>> ELSE lastLookup
      b2 == IF tr.clear THEN <<>>
            ELSE IF tr.pop /\ b1 # <<>> THEN Front(b1) ELSE b1
      next == IF tr.gotoIfEmpty # {} /\ b2 = <<>> THEN tr.gotoIfEmpty
              ELSE IF tr.goto # {} THEN tr.goto ELSE {state}
      moved == next # {state}
      l2 == IF tr.clear THEN <<>> ELSE look
      st == CHOOSE id \in next : TRUE IN
  [state |-> st, buffer |-> b2, lastLookup |-> l2,
   events |-> Emit(tr, b1, look, sym) \o
     IF moved THEN <<StateChange>> \o Emit(im.states[st].onEnter, b2, l2, sym)
     ELSE <<>>]

\* apply(): append and pop, lookup, emit, clear, move, on_enter.
Apply(tr, sym) ==
  LET b0 == IF tr.append THEN Append(buffer, sym) ELSE buffer
      b1 == IF tr.pop /\ b0 # <<>> THEN Front(b0) ELSE b0
      look == IF tr.lookup THEN <<b1>> ELSE lastLookup
      b2 == IF tr.clear THEN <<>> ELSE b1
      l2 == IF tr.clear THEN <<>> ELSE look
      next == IF tr.gotoIfEmpty # {} /\ b2 = <<>> THEN tr.gotoIfEmpty
              ELSE IF tr.goto # {} THEN tr.goto ELSE {state}
      st == CHOOSE id \in next : TRUE IN
  [state |-> st, buffer |-> b2, lastLookup |-> l2,
   events |-> Emit(tr, b1, look, sym) \o
     IF st = state THEN <<>>
     ELSE <<StateChange>> \o Emit(im.states[st].onEnter, b2, l2, sym)]

\* Feed(): the first transition that matches; without one the symbol passes.
Feed(sym) ==
  LET trs == im.states[state].transitions
      hits == {n \in DOMAIN trs : Matches(trs[n], sym)} IN
  IF hits = {}
  THEN [state |-> state, buffer |-> buffer, lastLookup |-> lastLookup,
        events |-> <<Passthrough>>]
  ELSE Apply(trs[Min(hits)], sym)
-----------------------------------------------------------------------------
(* imsession/session.go *)

Finish == [kind |-> "finish", text |-> <<>>]
Effective(acts) == \E n \in DOMAIN acts : acts[n].kind \in {"commit", "preedit"}

\* A change of state is not for the transport.
Keep(out, e) == IF e.kind = "state" THEN out ELSE Append(out, e)

\* Mutant: a preedit alone does not close the batch.
TranslateCommitsOnly(events) ==
  LET acts == FoldLeft(Keep, <<>>, events) IN
  IF keymapPending THEN <<>>
  ELSE IF \E n \in DOMAIN acts : acts[n].kind = "commit"
       THEN Append(acts, Finish) ELSE acts

\* translate(): nothing while a keymap is pending; one FinishCommit closes
\* the commits and preedits of a keystroke.
Translate(events) ==
  LET acts == FoldLeft(Keep, <<>>, events) IN
  IF keymapPending THEN <<>>
  ELSE IF Effective(acts) THEN Append(acts, Finish) ELSE acts

\* HandleKey of a press, with modifiers m: what the transport is told.
HandleKey(k, m) ==
  IF Resolve(k, m) = {}
  THEN [fed |-> fed, acts |-> <<Passthrough>>, state |-> state,
        buffer |-> buffer, lastLookup |-> lastLookup]
  ELSE LET sym == CHOOSE s \in Resolve(k, m) : TRUE
           f == Feed(sym) IN
       [fed |-> Append(fed, sym), acts |-> Translate(f.events),
        state |-> f.state, buffer |-> f.buffer, lastLookup |-> f.lastLookup]

\* What the session itself keeps of a keystroke.
Advance(r) ==
  /\ fed' = r.fed
  /\ state' = r.state /\ buffer' = r.buffer /\ lastLookup' = r.lastLookup
  /\ serial' = serial + (IF Finish \in Range(r.acts) THEN 1 ELSE 0)
  /\ muted' = (muted \/ (keymapPending /\ r.fed # fed))

\* Mutant: the other modifiers are kept too.
HandleModifiersKeepsAll(m) == mods' = m

\* HandleModifiers: Shift, Lock and Mod5 of depressed, latched and locked.
HandleModifiers(m) == mods' = m \intersect {"Shift", "Lock", "AltGr"}
-----------------------------------------------------------------------------
Init ==
  /\ tier \in {"wayland", "ibus"}
  /\ \/ chain \in Chains /\ im = FromCompose(chain)
     \/ chain = <<>> /\ im \in Methods
  /\ state = im.initial /\ buffer = <<>> /\ lastLookup = <<>>
  /\ mods = {} /\ keymapPending = FALSE /\ serial = 0
  /\ acc = NoBatch /\ text = <<>> /\ preedit = <<>>
  /\ hides = 0 /\ focused = FALSE
  /\ fed = <<>> /\ muted = FALSE
-----------------------------------------------------------------------------
(* The keyboard grab of run(): the dispatcher goroutine delivers the       *)
(* compositor's events one at a time.                                      *)

OnModifiers(m) ==
  /\ tier = "wayland"
  /\ HandleModifiers(m)
  /\ UNCHANGED <<tier, chain, im, fsm, keymapPending, serial, app, history>>

OnKeymap ==
  /\ tier = "wayland"
  /\ keymapPending' = TRUE
  /\ UNCHANGED <<tier, chain, im, fsm, mods, serial, app, history>>

OnDone ==
  /\ tier = "wayland"
  /\ keymapPending' = FALSE
  /\ UNCHANGED <<tier, chain, im, fsm, mods, serial, app, history>>

\* One request of the loop in OnKey, and what the compositor makes of it: a
\* commit request applies the strings since the last one, and a preedit that
\* is not set again disappears.
Request(w, a) ==
  CASE a.kind = "commit" ->
         [w EXCEPT !.acc.text = a.text, !.acc.open = TRUE]
    [] a.kind = "preedit" ->
         [w EXCEPT !.acc.preedit = a.text, !.acc.open = TRUE]
    [] a.kind = "finish" ->
         [acc |-> NoBatch, text |-> w.text \o w.acc.text,
          preedit |-> w.acc.preedit]
    [] OTHER -> w

OnKey(k) ==
  LET r == HandleKey(k, mods)
      w == FoldLeft(Request, [acc |-> acc, text |-> text, preedit |-> preedit], r.acts) IN
  /\ tier = "wayland"
  /\ Len(fed) < MaxKeys
  /\ Advance(r)
  /\ acc' = w.acc /\ text' = w.text /\ preedit' = w.preedit
  /\ UNCHANGED <<tier, chain, im, mods, keymapPending, hides, focused>>

\* deactivate: only logged; the compositor drops what it holds.
OnDeactivate ==
  /\ tier = "wayland"
  /\ acc' = NoBatch /\ preedit' = <<>>
  /\ UNCHANGED <<tier, chain, im, fsm, session, text, hides, focused, history>>
-----------------------------------------------------------------------------
(* ibus.InputContext: method calls, one goroutine each; InputContext.mu is *)
(* held while a key is handled, not while HidePreedit is emitted.          *)

\* One action of the loop of ProcessKeyEvent; a signal takes effect at once,
\* and there is no batch to close.
Signal(w, a) ==
  CASE a.kind = "commit"  -> [w EXCEPT !.text = @ \o a.text]
    [] a.kind = "preedit" -> [w EXCEPT !.preedit = a.text]
    [] OTHER -> w

\* The last tier of ProcessKeyEvent.  The modifiers come with the key.  What it
\* answers, whether the application is to handle the key itself, is left out.
ProcessKeyEvent(k, m) ==
  LET kept == m \intersect {"Shift", "Lock", "AltGr"}
      r == HandleKey(k, kept)
      w == FoldLeft(Signal, [text |-> text, preedit |-> preedit], r.acts) IN
  /\ tier = "ibus" /\ focused
  /\ Len(fed) < MaxKeys
  /\ mods' = kept
  /\ Advance(r)
  /\ text' = w.text /\ preedit' = w.preedit
  /\ UNCHANGED <<tier, chain, im, keymapPending, acc, hides, focused>>

FocusIn ==
  /\ tier = "ibus" /\ ~focused
  /\ focused' = TRUE
  /\ UNCHANGED <<tier, chain, im, fsm, session, acc, text, preedit, hides,
                 history>>

\* FocusOut: the session is not told.
FocusOut ==
  /\ tier = "ibus" /\ focused
  /\ hides < MaxHides
  /\ focused' = FALSE
  /\ hides' = hides + 1
  /\ UNCHANGED <<tier, chain, im, fsm, session, acc, text, preedit, history>>

\* Reset: a new session replaces the old one.
Reset ==
  /\ tier = "ibus"
  /\ hides < MaxHides
  /\ state' = im.initial /\ buffer' = <<>> /\ lastLookup' = <<>>
  /\ mods' = {} /\ serial' = 0
  /\ fed' = <<>>
  /\ text' = <<>>
  /\ hides' = hides + 1
  /\ UNCHANGED <<tier, chain, im, keymapPending, acc, preedit, focused, muted>>

EmitHidePreedit ==
  /\ hides > 0
  /\ hides' = hides - 1
  /\ preedit' = <<>>
  /\ UNCHANGED <<tier, chain, im, fsm, session, acc, text, focused, history>>
-----------------------------------------------------------------------------
Next ==
  \/ \E m \in ModStates : OnModifiers(m)
  \/ OnKeymap \/ OnDone \/ OnDeactivate
  \/ \E k \in Key : OnKey(k)
  \/ \E k \in Key, m \in ModStates : ProcessKeyEvent(k, m)
  \/ FocusIn \/ FocusOut \/ Reset \/ EmitHidePreedit

Spec == Init /\ [][Next]_vars
-----------------------------------------------------------------------------
(* Type invariant. *)
TypeOK ==
  /\ tier \in {"wayland", "ibus"}
  /\ chain \in Chains \union {<<>>}
  /\ state \in DOMAIN im.states
  /\ Len(buffer) <= Len(fed) /\ Range(buffer) \subseteq Range(fed)
  /\ Len(lastLookup) <= 1
  /\ mods \subseteq {"Shift", "Lock", "AltGr"}
  /\ keymapPending \in BOOLEAN
  /\ serial \in 0..MaxKeys
  /\ acc.open \in BOOLEAN
  /\ hides \in 0..MaxHides
  /\ focused \in BOOLEAN
  /\ Len(fed) <= MaxKeys
  /\ muted \in BOOLEAN

\* Chains that FromCompose tells apart: "*", which a transition takes for any
\* symbol, names no keysym, and no two paths share an id.
Keysyms == STRING \ {"", "*"}
WellNamed(c) ==
  /\ \A w \in Inputs(c) : w \in Seq(Keysyms)
  /\ \A p, q \in Paths(c) : StateId(p) = StateId(q) => p = q

\* What a chain promises, without a machine: cut the symbols typed so far at
\* the first point where they complete a sequence or can no longer become
\* one, commit the output of a complete one and go on with the rest.
Composed(c, w) ==
  LET complete(v) == \E n \in DOMAIN c : c[n].input = v
      dead(v) == \A n \in DOMAIN c : ~IsPrefix(v, c[n].input)
      parse[i \in 1..(Len(w) + 1)] ==
        LET ends == {j \in i..Len(w) : complete(SubSeq(w, i, j)) \/ dead(SubSeq(w, i, j))}
            v == SubSeq(w, i, Min(ends)) IN
        IF ends = {} THEN <<>>
        ELSE (IF complete(v) THEN Output(c, v) ELSE <<>>) \o parse[Min(ends) + 1] IN
  parse[1]

(* A compose chain, compiled to states by FromCompose and run by the       *)
(* engine, commits exactly what the chain spells out for the symbols typed *)
(* since the session was created, on either transport.  A chain that is    *)
(* not WellNamed need not.                                                 *)
ComposesAsWritten ==
  chain # <<>> /\ WellNamed(chain) /\ ~muted => text = Composed(chain, fed)

(* After a keystroke that had an effect the compositor shows the buffer:   *)
(* the effects of apply() come in the order that makes the last preedit,   *)
(* or the lack of one, agree with what is left in the buffer.  So it is    *)
(* for methods that show their buffer, and for chains, which have none.    *)
KeyShowsBuffer ==
  [][tier = "wayland" /\ serial' > serial => preedit' = buffer']_vars

(* Between two events the compositor holds nothing that it has not applied *)
(* yet: every batch is closed by its own keystroke.                        *)
EffectsAreFlushed == ~acc.open
=============================================================================

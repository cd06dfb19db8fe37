------------------------- MODULE Http2SessionProofs -------------------------
(***************************************************************************)
(* BudgetsHold and HandlersInStep of Http2Session, for any number of       *)
(* streams and loops, any heads and any budgets.                           *)
(*                                                                         *)
(* Two facts carry both.  A stream is where its handler is: dispatched     *)
(* once, out of the head or the body, and answered by its handler only     *)
(* from the queue, in which it is at most once (InStep).  And what a       *)
(* stream may still buffer is what it has reserved, by its length or by    *)
(* its cap (Buffers).  That the total is the sum of the parts needs what a *)
(* sum over a finite set is; the first lemmas say so.                      *)
(***************************************************************************)
EXTENDS Http2Session, FiniteSetTheorems, TLAPS

\* Induction over the subsets of a finite set, for a property given as a set.
LEMMA SubsetInduction ==
  ASSUME NEW S, IsFiniteSet(S), NEW T,
         \A U \in SUBSET S : (\A V \in SUBSET U : V # U => V \in T) => U \in T
  PROVE SUBSET S \subseteq T
<1> DEFINE bad == (SUBSET S) \ T
<1> SUFFICES ASSUME bad # {} PROVE FALSE
  BY Zenon
<1>1. FiniteSubsetsOf(S) = SUBSET S BY Zenon, FS_FiniteSubsetsOfFinite
<1>2. IsWellFoundedOn(StrictSubsetOrdering(S), FiniteSubsetsOf(S))
  BY Zenon, FS_StrictSubsetOrderingWellFounded
<1>3. IsWellFoundedOn(StrictSubsetOrdering(S), SUBSET S) BY Zenon, <1>2, <1>1
<1>4. bad \subseteq SUBSET S BY Zenon
<1> HIDE DEF bad
<1>5. PICK U \in bad : \A V \in bad : ~ (<<V, U>> \in StrictSubsetOrdering(S)) BY <1>3, <1>4, WFMin
<1>6. U \in SUBSET S /\ U \notin T BY Zenon, <1>5 DEF bad
<1>7. ASSUME NEW V \in SUBSET U, V # U PROVE V \in T
  <2>1. V \in SUBSET S BY Zenon, <1>6, <1>7
  <2>2. <<V, U>> \in StrictSubsetOrdering(S) BY Zenon, <1>6, <1>7, <2>1 DEF StrictSubsetOrdering
  <2> QED BY Zenon, <1>5, <2>1, <2>2 DEF bad
<1> QED BY Zenon, <1>6, <1>7

Pick(U) == CHOOSE x \in U : TRUE
\* g adds f up over the subsets of I.
Adds(f, I, g) == g = [U \in SUBSET I |-> IF U = {} THEN 0 ELSE f[Pick(U)] + g[U \ {Pick(U)}]]

\* SumFunctionOnSet is such a function, at the whole set.
LEMMA SumIs ==
  ASSUME NEW f, NEW I
  PROVE SumFunctionOnSet(f, I) = (CHOOSE g : Adds(f, I, g))[I]
BY Zenon DEF SumFunctionOnSet, FoldFunctionOnSet, MapThenFoldSet, Adds, Pick

\* And it is an integer everywhere.
SumsOn(f, I, g) == g \in [SUBSET I -> Int] /\ Adds(f, I, g)

\* Two of them agree where both add up.
LEMMA SumsAgree ==
  ASSUME NEW S, IsFiniteSet(S), NEW f \in [S -> Int], NEW A \in SUBSET S, NEW B \in SUBSET S,
         NEW g, NEW h, SumsOn(f, A, g), SumsOn(f, B, h)
  PROVE \A W \in SUBSET (A \cap B) : g[W] = h[W]
<1> DEFINE C == A \cap B
           T == {W \in SUBSET C : g[W] = h[W]}
<1>1. IsFiniteSet(C) BY Zenon, FS_Subset, C \in SUBSET S
<1>2. ASSUME NEW U \in SUBSET C, \A V \in SUBSET U : V # U => V \in T
      PROVE U \in T
  <2>1. CASE U = {} BY Zenon, <2>1 DEF SumsOn, Adds
  <2>2. CASE U # {}
    <3>1. Pick(U) \in U BY Zenon, <2>2 DEF Pick
    <3> DEFINE V == U \ {Pick(U)}
    <3>2. V \in SUBSET U /\ V # U BY Zenon, <3>1
    <3>3. g[V] = h[V] BY Zenon, <1>2, <3>2
    <3>4. U \in SUBSET A /\ U \in SUBSET B BY Zenon
    <3>5. g[U] = f[Pick(U)] + g[V] BY Zenon, <2>2, <3>4 DEF SumsOn, Adds
    <3>6. h[U] = f[Pick(U)] + h[V] BY Zenon, <2>2, <3>4 DEF SumsOn, Adds
    <3> QED BY Zenon, <3>3, <3>5, <3>6
  <2> QED BY Zenon, <2>1, <2>2
<1> HIDE DEF T, C
<1>3. SUBSET C \subseteq T BY Zenon, <1>1, <1>2, SubsetInduction
<1> QED BY Zenon, <1>3 DEF T, C

\* There is such a function: addition over a finite set is well defined.
LEMMA SumsExist ==
  ASSUME NEW S, IsFiniteSet(S), NEW f \in [S -> Int]
  PROVE \E g : SumsOn(f, S, g)
<1> DEFINE T == {U \in SUBSET S : \E g : SumsOn(f, U, g)}
           Total(W) == (CHOOSE g : SumsOn(f, W, g))[W]
<1>1. ASSUME NEW U \in SUBSET S, \A V \in SUBSET U : V # U => V \in T
      PROVE U \in T
  <2> DEFINE last == IF U = {} THEN 0 ELSE f[Pick(U)] + Total(U \ {Pick(U)})
             g == [W \in SUBSET U |-> IF W = U THEN last ELSE Total(W)]
  <2>1. ASSUME NEW W \in SUBSET U, W # U
        PROVE /\ SumsOn(f, W, CHOOSE h : SumsOn(f, W, h))
              /\ Total(W) \in Int
              /\ Total(W) = IF W = {} THEN 0 ELSE f[Pick(W)] + Total(W \ {Pick(W)})
    <3> DEFINE h == CHOOSE h : SumsOn(f, W, h)
    <3>1. \E k : SumsOn(f, W, k) BY Zenon, <1>1, <2>1
    <3>2. SumsOn(f, W, h) BY Zenon, <3>1
    <3>3. Total(W) = h[W] BY Zenon
    <3> HIDE DEF h
    <3>4. h[W] \in Int BY Zenon, <3>2 DEF SumsOn
    <3>5. h[W] = IF W = {} THEN 0 ELSE f[Pick(W)] + h[W \ {Pick(W)}] BY Zenon, <3>2 DEF SumsOn, Adds
    <3>6. CASE W = {} BY Zenon, <3>2, <3>3, <3>4, <3>5, <3>6 DEF h
    <3>7. CASE W # {}
      <4> DEFINE V == W \ {Pick(W)}
                 k == CHOOSE k : SumsOn(f, V, k)
      <4>1. Pick(W) \in W BY Zenon, <3>7 DEF Pick
      <4>2. V \in SUBSET U /\ V # U BY Zenon, <4>1
      <4>3. \E k0 : SumsOn(f, V, k0) BY Zenon, <1>1, <4>2
      <4>4. SumsOn(f, V, k) BY Zenon, <4>3
      <4>5. Total(V) = k[V] BY Zenon
      <4> HIDE DEF k
      <4>6. V \in SUBSET (W \cap V) BY Zenon
      <4>7. W \in SUBSET S /\ V \in SUBSET S BY Zenon
      <4>8. h[V] = k[V] BY <3>2, <4>4, <4>6, <4>7, SumsAgree
      <4>9. Total(W) = f[Pick(W)] + Total(V) BY Zenon, <3>3, <3>5, <3>7, <4>5, <4>8
      <4> QED BY <3>2, <3>3, <3>4, <3>7, <4>9 DEF h
    <3> QED BY Zenon, <3>6, <3>7
  <2> HIDE DEF Total
  <2>2. last \in Int
    <3>1. CASE U # {}
      <4>1. Pick(U) \in U BY Zenon, <3>1 DEF Pick
      <4>2. U \ {Pick(U)} \in SUBSET U /\ U \ {Pick(U)} # U BY Zenon, <4>1
      <4>3. Total(U \ {Pick(U)}) \in Int BY Zenon, <2>1, <4>2
      <4> QED BY <4>1, <4>3
    <3> QED BY <3>1
  <2>3. g \in [SUBSET U -> Int] BY Zenon, <2>1, <2>2
  <2>4. ASSUME NEW W \in SUBSET U
        PROVE g[W] = IF W = {} THEN 0 ELSE f[Pick(W)] + g[W \ {Pick(W)}]
    <3>1. CASE W = {} BY Zenon, <2>1, <3>1
    <3>2. CASE W # {}
      <4>1. Pick(W) \in W BY Zenon, <3>2 DEF Pick
      <4>2. W \ {Pick(W)} \in SUBSET U /\ W \ {Pick(W)} # U BY Zenon, <4>1
      <4>3. g[W \ {Pick(W)}] = Total(W \ {Pick(W)}) BY Zenon, <4>2
      <4>4. CASE W = U BY Zenon, <3>2, <4>3, <4>4
      <4>5. CASE W # U
        <5>1. Total(W) = f[Pick(W)] + Total(W \ {Pick(W)}) BY Zenon, <2>1, <3>2, <4>5
        <5> QED BY Zenon, <3>2, <4>3, <4>5, <5>1
      <4> QED BY Zenon, <4>4, <4>5
    <3> QED BY Zenon, <3>1, <3>2
  <2> HIDE DEF g
  <2>5. Adds(f, U, g) BY Zenon, <2>3, <2>4 DEF Adds
  <2> QED BY Zenon, <2>3, <2>5 DEF SumsOn
<1> HIDE DEF T
<1>2. SUBSET S \subseteq T BY Zenon, <1>1, SubsetInduction
<1> QED BY Zenon, <1>2, S \in SUBSET S DEF T

\* What the sum of a function is: the value of such a function.
LEMMA SumOf ==
  ASSUME NEW S, IsFiniteSet(S), NEW f \in [S -> Int]
  PROVE \E g : SumsOn(f, S, g) /\ SumFunction(f) = g[S]
<1>1. PICK g : SumsOn(f, S, g) BY Zenon, SumsExist
<1> DEFINE h == CHOOSE h : Adds(f, S, h)
<1>2. Adds(f, S, h) BY Zenon, <1>1 DEF SumsOn
<1>3. SumFunction(f) = h[S]
  <2>1. DOMAIN f = S BY Zenon
  <2> QED BY Zenon, <2>1, SumIs DEF SumFunction
<1> HIDE DEF h
<1> DEFINE T == {U \in SUBSET S : h[U] \in Int}
<1>4. ASSUME NEW U \in SUBSET S, \A V \in SUBSET U : V # U => V \in T
      PROVE U \in T
  <2>1. h[U] = IF U = {} THEN 0 ELSE f[Pick(U)] + h[U \ {Pick(U)}] BY Zenon, <1>2 DEF Adds
  <2>2. CASE U = {} BY <2>1, <2>2
  <2>3. CASE U # {}
    <3>1. Pick(U) \in U BY Zenon, <2>3 DEF Pick
    <3>2. U \ {Pick(U)} \in T BY Zenon, <1>4, <3>1
    <3> QED BY <2>1, <2>3, <3>1, <3>2
  <2> QED BY Zenon, <2>2, <2>3
<1> HIDE DEF T
<1>5. SUBSET S \subseteq T BY Zenon, <1>4, SubsetInduction
<1>6. h \in [SUBSET S -> Int]
  <2>1. \A U \in SUBSET S : h[U] \in Int BY Zenon, <1>5 DEF T
  <2>2. h = [U \in SUBSET S |-> h[U]] BY Zenon, <1>2 DEF Adds
  <2> QED BY Zenon, <2>1, <2>2
<1> QED BY Zenon, <1>2, <1>3, <1>6 DEF SumsOn

\* The sum when one value changes.
LEMMA SumUpdate ==
  ASSUME NEW S, IsFiniteSet(S), NEW f \in [S -> Int], NEW s \in S, NEW v \in Int
  PROVE SumFunction([f EXCEPT ![s] = v]) = SumFunction(f) + v - f[s]
<1> DEFINE f2 == [f EXCEPT ![s] = v]
<1>1. f2 \in [S -> Int] BY Zenon
<1>2. PICK g : SumsOn(f, S, g) /\ SumFunction(f) = g[S] BY Zenon, SumOf
<1> HIDE DEF f2
<1>3. PICK h : SumsOn(f2, S, h) /\ SumFunction(f2) = h[S] BY Zenon, <1>1, SumOf
<1> DEFINE T == {U \in SUBSET S : h[U] = g[U] + (IF s \in U THEN v - f[s] ELSE 0)}
<1>4. ASSUME NEW U \in SUBSET S, \A V \in SUBSET U : V # U => V \in T
      PROVE U \in T
  <2>1. CASE U = {} BY <1>2, <1>3, <2>1 DEF SumsOn, Adds
  <2>2. CASE U # {}
    <3> DEFINE V == U \ {Pick(U)}
    <3>1. Pick(U) \in U /\ Pick(U) \in S BY Zenon, <2>2 DEF Pick
    <3>2. V \in T BY <1>4, <3>1
    <3>3. g[U] = f[Pick(U)] + g[V] BY Zenon, <1>2, <2>2 DEF SumsOn, Adds
    <3>4. h[U] = f2[Pick(U)] + h[V] BY Zenon, <1>3, <2>2 DEF SumsOn, Adds
    <3>5. g[V] \in Int BY Zenon, <1>2 DEF SumsOn
    <3>6. CASE Pick(U) = s
      <4>1. f2[Pick(U)] = v BY Zenon, <3>6 DEF f2
      <4>2. s \in U /\ s \notin V BY Zenon, <3>1, <3>6
      <4> QED BY <3>2, <3>3, <3>4, <3>5, <3>6, <4>1, <4>2
    <3>7. CASE Pick(U) # s
      <4>1. f2[Pick(U)] = f[Pick(U)] BY Zenon, <3>1, <3>7 DEF f2
      <4>2. s \in U <=> s \in V BY Zenon, <3>7
      <4>3. f[Pick(U)] \in Int /\ f[s] \in Int BY Zenon, <3>1
      <4> QED BY <3>2, <3>3, <3>4, <3>5, <4>1, <4>2, <4>3
    <3> QED BY Zenon, <3>6, <3>7
  <2> QED BY Zenon, <2>1, <2>2
<1> HIDE DEF T
<1>5. SUBSET S \subseteq T BY Zenon, <1>4, SubsetInduction
<1>6. h[S] = g[S] + (v - f[s]) BY Zenon, <1>5, S \in SUBSET S DEF T
<1>7. g[S] \in Int BY Zenon, <1>2, S \in SUBSET S DEF SumsOn
<1> QED BY Zenon, <1>2, <1>3, <1>6, <1>7 DEF f2

\* Natural numbers add up to one, and zeros to zero.
LEMMA SumNat ==
  ASSUME NEW S, IsFiniteSet(S), NEW f \in [S -> Nat]
  PROVE SumFunction(f) \in Nat /\ ((\A s \in S : f[s] = 0) => SumFunction(f) = 0)
<1>1. f \in [S -> Int] OBVIOUS
<1>2. PICK g : SumsOn(f, S, g) /\ SumFunction(f) = g[S] BY Zenon, <1>1, SumOf
<1> DEFINE T == {U \in SUBSET S : g[U] \in Nat /\ ((\A s \in S : f[s] = 0) => g[U] = 0)}
<1>3. ASSUME NEW U \in SUBSET S, \A V \in SUBSET U : V # U => V \in T
      PROVE U \in T
  <2>1. CASE U = {} BY <1>2, <2>1 DEF SumsOn, Adds
  <2>2. CASE U # {}
    <3> DEFINE V == U \ {Pick(U)}
    <3>1. Pick(U) \in U /\ Pick(U) \in S BY Zenon, <2>2 DEF Pick
    <3>2. V \in T BY Zenon, <1>3, <3>1
    <3>3. g[U] = f[Pick(U)] + g[V] BY Zenon, <1>2, <2>2 DEF SumsOn, Adds
    <3> QED BY <3>1, <3>2, <3>3
  <2> QED BY Zenon, <2>1, <2>2
<1> HIDE DEF T
<1>4. SUBSET S \subseteq T BY Zenon, <1>3, SubsetInduction
<1> QED BY Zenon, <1>2, <1>4, S \in SUBSET S DEF T

-----------------------------------------------------------------------------
(* The inductive invariant.                                                *)

StreamRec ==
  [stage : {"none", "head", "body", "emitted", "gone"}, rejected : BOOLEAN, ended : BOOLEAN,
   found : {"none", "route", "method"}, cap : Nat, length : Nat \cup {-1}, reserve : 0 .. Budget,
   body : 0 .. MaxBody, deadline : BOOLEAN, answers : Seq({"engine", "handler"}),
   out : {"none", "blocked", "sent"}]

\* What a stream holds is within what it reserved, and so is what is to come.
Buffers(r) ==
  /\ r.body <= r.reserve
  /\ r.stage \in {"none", "head"} => r.reserve = 0
  /\ r.stage = "body" /\ ~r.rejected =>
       ~r.ended /\ IF r.length >= 0 THEN r.reserve = r.length ELSE r.cap > 0 /\ r.reserve = r.cap

Waits(s) == \E i \in DOMAIN queue : queue[i] = s
ByHandler == {<<"handler">>, <<"handler", "engine">>}

\* A stream r, its handler h, and whether an answer of it waits in the queue.
InStep(r, h, waits) ==
  /\ r.stage \in {"none", "head", "body"} =>
       h = "none" /\ r.answers = IF r.rejected THEN <<"engine">> ELSE <<>>
  /\ r.stage = "none" => ~r.rejected
  /\ r.stage = "emitted" =>
       h # "none" /\ r.answers \in IF r.rejected THEN {<<"engine">>, <<"handler", "engine">>}
                                                 ELSE {<<>>, <<"handler">>}
  /\ r.answers \in {<<>>, <<"engine">>} \cup ByHandler
  /\ r.answers \in ByHandler \/ waits => h = "done"
  /\ ~(r.answers \in ByHandler /\ waits)

\* The shared tables, seen from one stream: reqLoc_, h2StreamAccum_ and what the runner was told.
Located(h, inLoc, inAccum, t) ==
  /\ inLoc <=> h \notin {"none", "done"} /\ t = {}
  /\ inAccum => inLoc \/ t # {}
  /\ h \in {"none", "running", "starting"} => ~inAccum
  /\ h \in {"streaming", "flushing"} /\ t = {} => inAccum
  /\ h = "none" => t = {}

Stream(s) ==
  /\ Buffers(Of(s)) /\ InStep(Of(s), handler[s], Waits(s))
  /\ Located(handler[s], s \in reqLoc, s \in accum, told[s])
  /\ answers[s] # <<>> /\ handler[s] \notin {"none", "done"} => told[s] # {}

Routed == toStream = {s \in Streams : stage[s] = "emitted" /\ ~rejected[s]}
QueuedOnce == \A i, j \in DOMAIN queue : queue[i] = queue[j] => i = j

Inv == /\ TypeOK /\ (\A s \in Streams : Stream(s)) /\ Routed /\ QueuedOnce
       /\ reserved = SumFunction(reserve) /\ InFlightBudget

-----------------------------------------------------------------------------
(* One stream and what a pump makes of it.                                 *)

\* What Becomes stores: the stream, or what onStreamClose leaves of it.
Pumped(r) == IF r.ended /\ r.out = "sent" THEN Deleted(r) ELSE r

StreamTypes ==
  /\ stage \in [Streams -> {"none", "head", "body", "emitted", "gone"}]
  /\ rejected \in [Streams -> BOOLEAN] /\ ended \in [Streams -> BOOLEAN]
  /\ deadline \in [Streams -> BOOLEAN]
  /\ cap \in [Streams -> Nat] /\ length \in [Streams -> Nat \cup {-1}]
  /\ found \in [Streams -> {"none", "route", "method"}]
  /\ reserve \in [Streams -> 0 .. Budget] /\ reserved \in 0 .. Budget
  /\ body \in [Streams -> 0 .. MaxBody]
  /\ answers \in [Streams -> Seq({"engine", "handler"})]
  /\ out \in [Streams -> {"none", "blocked", "sent"}]
  /\ toStream \in SUBSET Streams
LocTypes ==
  /\ reqLoc \in SUBSET Streams /\ accum \in SUBSET Streams /\ queue \in Seq(Streams)
  /\ handler \in [Streams -> {"none", "running", "starting", "streaming", "flushing", "done"}]
  /\ told \in [Streams -> SUBSET {"timeout", "disconnect"}]
RestTypes ==
  /\ phase \in {"open", "closing", "closed"} /\ goaway \in BOOLEAN
  /\ others \in Nat /\ admitted \in SUBSET OtherLoops

\* TypeOK, in three parts.
LEMMA Types == /\ TypeOK <=> StreamTypes /\ LocTypes /\ RestTypes
               /\ TypeOK' <=> StreamTypes' /\ LocTypes' /\ RestTypes'
BY Zenon DEF TypeOK, StreamTypes, LocTypes, RestTypes

\* The four histories of answers a stream may have are apart, and lead on.
LEMMA Appends ==
  /\ Append(<<>>, "engine") = <<"engine">> /\ Append(<<"handler">>, "engine") = <<"handler", "engine">>
  /\ Append(<<>>, "handler") = <<"handler">>
  /\ <<"engine">> # <<>> /\ <<"handler">> # <<>> /\ <<"handler", "engine">> # <<>>
  /\ <<"engine">> # <<"handler">> /\ <<"engine">> # <<"handler", "engine">>
  /\ <<"handler">> # <<"handler", "engine">>
  /\ {<<>>, <<"engine">>} \cup ByHandler \subseteq Seq({"engine", "handler"})
<1>1. <<"engine">>[1] # <<"handler">>[1] /\ <<"engine">>[1] # <<"handler", "engine">>[1] BY Zenon
<1>2. Len(<<>>) = 0 /\ Len(<<"engine">>) = 1 /\ Len(<<"handler">>) = 1 /\ Len(<<"handler", "engine">>) = 2
  BY Zenon
<1>3. Append(<<>>, "engine") = <<"engine">> /\ Append(<<>>, "handler") = <<"handler">> OBVIOUS
<1>4. Append(<<"handler">>, "engine") = <<"handler", "engine">>
  <2> DEFINE a == Append(<<"handler">>, "engine")
             b == <<"handler", "engine">>
  <2>1. a \in Seq({"handler", "engine"}) /\ b \in Seq({"handler", "engine"}) OBVIOUS
  <2>2. Len(a) = 2 /\ Len(b) = 2 OBVIOUS
  <2>3. a[1] = b[1] /\ a[2] = b[2] OBVIOUS
  <2> HIDE DEF a, b
  <2>4. \A i \in 1 .. Len(a) : a[i] = b[i] BY <2>2, <2>3
  <2>5. a = b BY <2>1, <2>2, <2>4
  <2> QED BY Zenon, <2>5 DEF a, b
<1>5. {<<>>, <<"engine">>} \cup ByHandler \subseteq Seq({"engine", "handler"}) BY DEF ByHandler
<1> QED BY Zenon, <1>1, <1>2, <1>3, <1>4, <1>5

\* A stream of a well-typed state is a record of the right kind.
LEMMA OfType == ASSUME StreamTypes, NEW s \in Streams PROVE Of(s) \in StreamRec
BY Zenon DEF StreamTypes, Of, StreamRec

\* A stream keeps its type when one of its fields changes.
LEMMA FieldTypes ==
  ASSUME NEW r \in StreamRec
  PROVE /\ \A v \in {"none", "head", "body", "emitted", "gone"} : [r EXCEPT !.stage = v] \in StreamRec
        /\ \A v \in BOOLEAN : [r EXCEPT !.rejected = v] \in StreamRec
        /\ \A v \in BOOLEAN : [r EXCEPT !.ended = v] \in StreamRec
        /\ \A v \in {"none", "route", "method"} : [r EXCEPT !.found = v] \in StreamRec
        /\ \A v \in Nat : [r EXCEPT !.cap = v] \in StreamRec
        /\ \A v \in Nat \cup {-1} : [r EXCEPT !.length = v] \in StreamRec
        /\ \A v \in 0 .. Budget : [r EXCEPT !.reserve = v] \in StreamRec
        /\ \A v \in 0 .. MaxBody : [r EXCEPT !.body = v] \in StreamRec
        /\ \A v \in BOOLEAN : [r EXCEPT !.deadline = v] \in StreamRec
        /\ \A v \in Seq({"engine", "handler"}) : [r EXCEPT !.answers = v] \in StreamRec
        /\ \A v \in {"none", "blocked", "sent"} : [r EXCEPT !.out = v] \in StreamRec
<1>1. ASSUME NEW v \in {"none", "head", "body", "emitted", "gone"} PROVE [r EXCEPT !.stage = v] \in StreamRec
  BY Zenon DEF StreamRec
<1>2. ASSUME NEW v \in BOOLEAN PROVE [r EXCEPT !.rejected = v] \in StreamRec BY Zenon DEF StreamRec
<1>3. ASSUME NEW v \in BOOLEAN PROVE [r EXCEPT !.ended = v] \in StreamRec BY Zenon DEF StreamRec
<1>4. ASSUME NEW v \in {"none", "route", "method"} PROVE [r EXCEPT !.found = v] \in StreamRec
  BY Zenon DEF StreamRec
<1>5. ASSUME NEW v \in Nat PROVE [r EXCEPT !.cap = v] \in StreamRec BY Zenon DEF StreamRec
<1>6. ASSUME NEW v \in Nat \cup {-1} PROVE [r EXCEPT !.length = v] \in StreamRec BY Zenon DEF StreamRec
<1>7. ASSUME NEW v \in 0 .. Budget PROVE [r EXCEPT !.reserve = v] \in StreamRec BY Zenon DEF StreamRec
<1>8. ASSUME NEW v \in 0 .. MaxBody PROVE [r EXCEPT !.body = v] \in StreamRec BY Zenon DEF StreamRec
<1>9. ASSUME NEW v \in BOOLEAN PROVE [r EXCEPT !.deadline = v] \in StreamRec BY Zenon DEF StreamRec
<1>10. ASSUME NEW v \in Seq({"engine", "handler"}) PROVE [r EXCEPT !.answers = v] \in StreamRec
  BY Zenon DEF StreamRec
<1>11. ASSUME NEW v \in {"none", "blocked", "sent"} PROVE [r EXCEPT !.out = v] \in StreamRec
  BY Zenon DEF StreamRec
<1> QED BY Zenon, <1>1, <1>2, <1>3, <1>4, <1>5, <1>6, <1>7, <1>8, <1>9, <1>10, <1>11

\* The pump deletes a stream or leaves it alone: neither adds to what it
\* holds, and its answers stay.
LEMMA PumpedKeeps ==
  ASSUME NEW r \in StreamRec, Buffers(r), NEW h, NEW w \in BOOLEAN, InStep(r, h, w)
  PROVE /\ Pumped(r) \in StreamRec /\ Buffers(Pumped(r)) /\ InStep(Pumped(r), h, w)
        /\ Pumped(r).reserve \in {0, r.reserve} /\ Pumped(r).answers = r.answers
<1>1. CASE Pumped(r) = r BY Zenon, <1>1 DEF StreamRec
<1>2. CASE Pumped(r) = Deleted(r)
  <2>1. /\ Deleted(r).stage = "gone" /\ Deleted(r).rejected = FALSE /\ Deleted(r).body = 0
        /\ Deleted(r).reserve = 0 /\ Deleted(r).answers = r.answers
    BY Zenon DEF Deleted, StreamRec
  <2>2. Deleted(r) \in StreamRec BY SizesAssumption DEF Deleted, StreamRec
  <2>3. Buffers(Deleted(r)) BY <2>1 DEF Buffers
  <2>4. InStep(Deleted(r), h, w) BY Zenon, <2>1 DEF InStep
  <2> QED BY Zenon, <1>2, <2>1, <2>2, <2>3, <2>4
<1> QED BY Zenon, <1>1, <1>2 DEF Pumped

\* Becomes stores a stream, changes no other, and keeps the total.
LEMMA Pump ==
  ASSUME StreamTypes, reserved = SumFunction(reserve), Routed, NEW s \in Streams, NEW next,
         Pumped(next) \in StreamRec, Becomes(s, next),
         reserved + Pumped(next).reserve - reserve[s] <= Budget
  PROVE /\ Of(s)' = Pumped(next) /\ \A t \in Streams \ {s} : Of(t)' = Of(t)
        /\ StreamTypes' /\ (reserved = SumFunction(reserve))' /\ Routed'
<1> DEFINE r == Pumped(next)
<1>1. /\ stage' = [stage EXCEPT ![s] = r.stage] /\ rejected' = [rejected EXCEPT ![s] = r.rejected]
      /\ ended' = [ended EXCEPT ![s] = r.ended] /\ found' = [found EXCEPT ![s] = r.found]
      /\ cap' = [cap EXCEPT ![s] = r.cap] /\ length' = [length EXCEPT ![s] = r.length]
      /\ reserve' = [reserve EXCEPT ![s] = r.reserve] /\ reserved' = reserved + r.reserve - reserve[s]
      /\ body' = [body EXCEPT ![s] = r.body] /\ deadline' = [deadline EXCEPT ![s] = r.deadline]
      /\ answers' = [answers EXCEPT ![s] = r.answers] /\ out' = [out EXCEPT ![s] = r.out]
      /\ toStream' = RouteBack(s, r)
  BY Zenon DEF Becomes, Pumped, Reserved
<1> HIDE DEF r
<1>2. r \in StreamRec BY Zenon DEF r
<1>3. /\ r.stage \in {"none", "head", "body", "emitted", "gone"} /\ r.rejected \in BOOLEAN
      /\ r.ended \in BOOLEAN /\ r.found \in {"none", "route", "method"} /\ r.cap \in Nat
      /\ r.length \in Nat \cup {-1} /\ r.reserve \in 0 .. Budget /\ r.body \in 0 .. MaxBody
      /\ r.deadline \in BOOLEAN /\ r.answers \in Seq({"engine", "handler"})
      /\ r.out \in {"none", "blocked", "sent"}
      /\ r = [stage |-> r.stage, rejected |-> r.rejected, ended |-> r.ended, found |-> r.found,
              cap |-> r.cap, length |-> r.length, reserve |-> r.reserve, body |-> r.body,
              deadline |-> r.deadline, answers |-> r.answers, out |-> r.out]
  BY Zenon, <1>2 DEF StreamRec
<1>4. Of(s)' = r BY Zenon, <1>1, <1>3 DEF Of, StreamTypes
<1>5. ASSUME NEW t \in Streams \ {s} PROVE Of(t)' = Of(t) BY Zenon, <1>1 DEF Of, StreamTypes
<1>6. (reserved = SumFunction(reserve))' /\ reserved' \in 0 .. Budget
  <2>1. reserve \in [Streams -> Int] /\ r.reserve \in Int /\ reserve' \in [Streams -> Nat]
    BY SMTT(30), <1>1, <1>3, SizesAssumption DEF StreamTypes
  <2>2. SumFunction(reserve') = SumFunction(reserve) + r.reserve - reserve[s]
    <3>1. IsFiniteSet(Streams) BY Zenon, StreamsAssumption
    <3>2. SumFunction([reserve EXCEPT ![s] = r.reserve]) = SumFunction(reserve) + r.reserve - reserve[s]
      BY Zenon, <2>1, <3>1, SumUpdate
    <3> QED BY Zenon, <1>1, <3>2
  <2>3. SumFunction(reserve') \in Nat BY Zenon, <2>1, StreamsAssumption, SumNat
  <2>4. reserved' <= Budget BY Zenon, <1>1 DEF r
  <2> QED BY SMTT(30), <1>1, <2>2, <2>3, <2>4, SizesAssumption
<1>7. /\ stage' \in [Streams -> {"none", "head", "body", "emitted", "gone"}]
      /\ rejected' \in [Streams -> BOOLEAN] /\ ended' \in [Streams -> BOOLEAN]
      /\ deadline' \in [Streams -> BOOLEAN] /\ found' \in [Streams -> {"none", "route", "method"}]
  BY Zenon, <1>1, <1>3 DEF StreamTypes
<1>8. /\ cap' \in [Streams -> Nat] /\ length' \in [Streams -> Nat \cup {-1}]
      /\ reserve' \in [Streams -> 0 .. Budget] /\ body' \in [Streams -> 0 .. MaxBody]
      /\ answers' \in [Streams -> Seq({"engine", "handler"})]
      /\ out' \in [Streams -> {"none", "blocked", "sent"}]
  BY Zenon, <1>1, <1>3 DEF StreamTypes
<1>9. Routed'
  <2>1. stage'[s] = r.stage /\ rejected'[s] = r.rejected BY Zenon, <1>1 DEF StreamTypes
  <2>2. \A t \in Streams \ {s} : stage'[t] = stage[t] /\ rejected'[t] = rejected[t]
    BY Zenon, <1>1 DEF StreamTypes
  <2>3. toStream \subseteq Streams BY Zenon DEF StreamTypes
  <2> QED BY Zenon, <1>1, <2>1, <2>2, <2>3 DEF Routed, RouteBack
<1>10. toStream' \in SUBSET Streams BY Zenon, <1>9 DEF Routed
<1> QED BY Zenon, <1>4, <1>5, <1>6, <1>7, <1>8, <1>9, <1>10 DEF r, StreamTypes

-----------------------------------------------------------------------------
(* Steps that change one stream.                                           *)

\* A step of the loop on the stream s keeps the invariant if s is in order
\* afterwards and the shared tables change for s alone.
LEMMA StreamStep ==
  ASSUME Inv, NEW s \in Streams, NEW next \in StreamRec, Becomes(s, next),
         reserved + next.reserve - reserve[s] <= Budget,
         LocTypes', RestTypes', QueuedOnce', InFlightBudget',
         \A t \in Streams \ {s} :
            /\ handler'[t] = handler[t] /\ told'[t] = told[t] /\ (Waits(t)' <=> Waits(t))
            /\ (t \in reqLoc' <=> t \in reqLoc) /\ (t \in accum' <=> t \in accum),
         Buffers(next), InStep(next, handler'[s], Waits(s)'),
         Located(handler'[s], s \in reqLoc', s \in accum', told'[s]),
         next.answers # <<>> /\ handler'[s] \notin {"none", "done"} => told'[s] # {}
  PROVE Inv'
<1>1. Waits(s)' \in BOOLEAN BY Zenon DEF Waits
<1>2. /\ Pumped(next) \in StreamRec /\ Buffers(Pumped(next))
      /\ InStep(Pumped(next), handler'[s], Waits(s)')
      /\ Pumped(next).reserve \in {0, next.reserve} /\ Pumped(next).answers = next.answers
  BY Zenon, <1>1, PumpedKeeps
<1>3. StreamTypes /\ reserved = SumFunction(reserve) /\ Routed BY Zenon, Types DEF Inv
<1>4. reserved + Pumped(next).reserve - reserve[s] <= Budget
  <2>1. reserved \in Int /\ reserve[s] \in Int /\ next.reserve \in Nat /\ Budget \in Int
    BY <1>3, SizesAssumption DEF StreamTypes, StreamRec
  <2> QED BY <1>2, <2>1
<1>5. /\ Of(s)' = Pumped(next) /\ \A t \in Streams \ {s} : Of(t)' = Of(t)
      /\ StreamTypes' /\ (reserved = SumFunction(reserve))' /\ Routed'
  BY Zenon, <1>2, <1>3, <1>4, Pump
<1>6. Stream(s)'
  <2>1. answers'[s] = Of(s)'.answers BY Zenon DEF Of
  <2> QED BY Zenon, <1>2, <1>5, <2>1 DEF Stream
<1>7. ASSUME NEW t \in Streams \ {s} PROVE Stream(t)'
  <2>1. Of(t)' = Of(t) /\ answers'[t] = Of(t)'.answers /\ answers[t] = Of(t).answers
    BY Zenon, <1>5 DEF Of
  <2>2. Stream(t) BY Zenon DEF Inv
  <2>3. Buffers(Of(t))' BY Zenon, <2>1, <2>2 DEF Stream
  <2>4. InStep(Of(t), handler[t], Waits(t))' BY <2>1, <2>2 DEF Stream, InStep
  <2>5. Located(handler[t], t \in reqLoc, t \in accum, told[t])' BY Zenon, <2>2 DEF Stream, Located
  <2> QED BY Zenon, <2>1, <2>2, <2>3, <2>4, <2>5 DEF Stream
<1>8. \A t \in Streams : Stream(t)' BY Zenon, <1>6, <1>7
<1>9. TypeOK' BY Zenon, <1>5, Types
<1> QED BY Zenon, <1>5, <1>8, <1>9 DEF Inv

\* The same when the shared tables stay as they are.
LEMMA LoopStep ==
  ASSUME Inv, NEW s \in Streams, NEW next \in StreamRec, Becomes(s, next),
         reserved + next.reserve - reserve[s] <= Budget,
         UNCHANGED <<locVars, otherVars>>, phase' \in {"open", "closing", "closed"}, goaway' \in BOOLEAN,
         Buffers(next), InStep(next, handler[s], Waits(s)),
         next.answers # <<>> /\ handler[s] \notin {"none", "done"} => told[s] # {}
  PROVE Inv'
<1>1. LocTypes' /\ QueuedOnce' /\ InFlightBudget'
  BY Zenon, Types DEF Inv, LocTypes, QueuedOnce, InFlightBudget, locVars, otherVars
<1>2. RestTypes' BY Zenon, Types DEF Inv, RestTypes, otherVars
<1>3. \A t \in Streams :
         /\ handler'[t] = handler[t] /\ told'[t] = told[t] /\ (Waits(t)' <=> Waits(t))
         /\ (t \in reqLoc' <=> t \in reqLoc) /\ (t \in accum' <=> t \in accum)
  BY Zenon DEF locVars, Waits
<1>4. InStep(next, handler'[s], Waits(s)') BY Zenon, <1>3 DEF InStep
<1>5. Located(handler'[s], s \in reqLoc', s \in accum', told'[s])
  BY Zenon, <1>3 DEF Inv, Stream, Located
<1> QED BY Zenon, <1>1, <1>2, <1>3, <1>4, <1>5, StreamStep

\* rejectStream on a stream that has not been rejected.
LEMMA RejectedKeeps ==
  ASSUME NEW r \in StreamRec, ~r.rejected, r.stage \in {"head", "body", "emitted"},
         r.stage = "head" => r.reserve = 0,
         NEW h, NEW w \in BOOLEAN, InStep(r, h, w)
  PROVE /\ Rejected(r) \in StreamRec /\ Buffers(Rejected(r)) /\ InStep(Rejected(r), h, w)
        /\ Rejected(r).reserve = r.reserve /\ Rejected(r).rejected
<1>1. /\ Rejected(r).stage = r.stage /\ Rejected(r).rejected = TRUE /\ Rejected(r).body = 0
      /\ Rejected(r).reserve = r.reserve /\ Rejected(r).answers = Append(r.answers, "engine")
  BY Zenon DEF Rejected, StreamRec
<1>2. r.answers \in {<<>>, <<"handler">>}
  BY Zenon DEF InStep
<1>3. Append(r.answers, "engine") \in {<<"engine">>, <<"handler", "engine">>}
  BY Zenon, <1>2, Appends
<1>4. Append(r.answers, "engine") \in Seq({"engine", "handler"})
  BY Zenon, <1>3, Appends DEF ByHandler
<1>5. Rejected(r) \in StreamRec
  <2> DEFINE r1 == [r EXCEPT !.rejected = TRUE]
             r2 == [r1 EXCEPT !.body = 0]
             r3 == [r2 EXCEPT !.out = "sent"]
             r4 == [r3 EXCEPT !.answers = Append(r.answers, "engine")]
  <2>1. Rejected(r) = r4 BY Zenon DEF Rejected
  <2>2. r1 \in StreamRec BY Zenon, FieldTypes
  <2> HIDE DEF r1
  <2>3. 0 \in 0 .. MaxBody BY SizesAssumption
  <2>4. r2 \in StreamRec BY Zenon, <2>2, <2>3, FieldTypes
  <2> HIDE DEF r2
  <2>5. r3 \in StreamRec BY Zenon, <2>4, FieldTypes
  <2> HIDE DEF r3
  <2>6. r4 \in StreamRec BY Zenon, <1>4, <2>5, FieldTypes
  <2> QED BY Zenon, <2>1, <2>6
<1>6. r.reserve \in Nat BY SizesAssumption DEF StreamRec
<1>7. Buffers(Rejected(r)) BY <1>1, <1>6 DEF Buffers
<1>8. InStep(Rejected(r), h, w)
  <2>1. CASE r.answers = <<>>
    <3>1. Rejected(r).answers = <<"engine">> BY Zenon, <1>1, <2>1, Appends
    <3> QED BY Zenon, <1>1, <2>1, <3>1, Appends DEF InStep, ByHandler
  <2>2. CASE r.answers = <<"handler">>
    <3>1. Rejected(r).answers = <<"handler", "engine">> BY Zenon, <1>1, <2>2, Appends
    <3>2. r.stage = "emitted" BY Zenon, <2>2, Appends DEF InStep
    <3> QED BY Zenon, <1>1, <2>2, <3>1, <3>2, Appends DEF InStep, ByHandler
  <2> QED BY Zenon, <1>2, <2>1, <2>2
<1> QED BY Zenon, <1>1, <1>5, <1>7, <1>8

\* emitComplete on a stream that is done with its body: refused, it is
\* answered; else its handler runs, its id is registered, and the budget of
\* requests in flight had room for it.
LEMMA EmitStep ==
  ASSUME Inv, NEW s \in Streams, stage[s] \in {"head", "body"}, ~rejected[s],
         NEW last \in StreamRec, last.stage = "body", ~last.rejected, last.answers = <<>>,
         Becomes(s, EmitComplete(last)), Dispatch(s, EmitComplete(last)),
         reserved + last.reserve - reserve[s] <= Budget,
         UNCHANGED otherVars, phase' \in {"open", "closing", "closed"}, goaway' \in BOOLEAN
  PROVE Inv'
<1>1. handler[s] = "none" /\ ~Waits(s) /\ told[s] = {} /\ s \notin reqLoc /\ s \notin accum
  BY Zenon DEF Inv, Stream, InStep, Located, Of
<1>2. InStep(last, handler[s], Waits(s))
  BY Zenon, <1>1, Appends DEF InStep, ByHandler
<1>3. CASE OverBudget \/ last.found = "method"
  <2>1. EmitComplete(last) = Rejected(last) BY Zenon, <1>3 DEF EmitComplete
  <2>2. Waits(s) \in BOOLEAN BY Zenon DEF Waits
  <2>3. /\ Rejected(last) \in StreamRec /\ Buffers(Rejected(last))
        /\ InStep(Rejected(last), handler[s], Waits(s)) /\ Rejected(last).reserve = last.reserve
        /\ Rejected(last).stage = "body"
    <3>1. Rejected(last).stage = "body" BY Zenon DEF Rejected, StreamRec
    <3> QED BY Zenon, <1>2, <2>2, <3>1, RejectedKeeps
  <2>4. UNCHANGED locVars BY Zenon, <2>1, <2>3 DEF Dispatch
  <2> QED BY Zenon, <1>1, <2>1, <2>3, <2>4, LoopStep
<1>4. CASE ~OverBudget /\ last.found # "method"
  <2> DEFINE r == [last EXCEPT !.stage = "emitted", !.body = 0]
  <2>1. EmitComplete(last) = r BY Zenon, <1>4 DEF EmitComplete
  <2>2. /\ r.stage = "emitted" /\ r.body = 0 /\ r.answers = <<>> /\ r.reserve = last.reserve
        /\ ~r.rejected
    BY Zenon DEF StreamRec
  <2>3. r \in StreamRec
    <3> DEFINE r1 == [last EXCEPT !.stage = "emitted"]
    <3>1. r = [r1 EXCEPT !.body = 0] BY Zenon
    <3>2. r1 \in StreamRec BY Zenon, FieldTypes
    <3>3. 0 \in 0 .. MaxBody BY SizesAssumption
    <3> HIDE DEF r1
    <3> QED BY Zenon, <3>1, <3>2, <3>3, FieldTypes
  <2> HIDE DEF r
  <2>4. /\ reqLoc' = reqLoc \cup {s} /\ handler' = [handler EXCEPT ![s] = "running"]
        /\ accum' = accum /\ queue' = queue /\ told' = told
    BY Zenon, <2>1, <2>2 DEF Dispatch
  <2>5. LocTypes /\ RestTypes BY Zenon, Types DEF Inv
  <2>6. LocTypes' BY Zenon, <2>4, <2>5 DEF LocTypes
  <2>7. RestTypes' BY Zenon, <2>5 DEF RestTypes, otherVars
  <2>8. QueuedOnce' /\ \A t \in Streams : Waits(t)' <=> Waits(t)
    BY Zenon, <2>4 DEF Inv, QueuedOnce, Waits
  <2>9. InFlightBudget'
    <3>1. IsFiniteSet(reqLoc) /\ IsFiniteSet(admitted) /\ Cardinality(admitted) <= Cardinality(OtherLoops)
      BY Zenon, <2>5, StreamsAssumption, LoopsAssumption, FS_Subset DEF LocTypes, RestTypes
    <3>2. Cardinality(reqLoc \cup {s}) = Cardinality(reqLoc) + 1 BY Zenon, <1>1, <3>1, FS_AddElement
    <3>3. /\ Cardinality(reqLoc) \in Nat /\ Cardinality(admitted) \in Nat
          /\ Cardinality(OtherLoops) \in Nat
      BY Zenon, <3>1, LoopsAssumption, FS_CardinalityType
    <3>4. Cardinality(reqLoc) + others < MaxInFlight
      BY <1>4, <2>5, <3>3, SizesAssumption DEF OverBudget, RestTypes
    <3> QED BY SMTT(30), <2>4, <2>5, <3>1, <3>2, <3>3, <3>4, SizesAssumption
        DEF InFlightBudget, RestTypes, otherVars
  <2>10. handler'[s] = "running" /\ \A t \in Streams \ {s} : handler'[t] = handler[t]
    BY Zenon, <2>4, <2>5 DEF LocTypes
  <2>11. Buffers(r)
    <3>1. r.reserve \in Nat BY <2>3, SizesAssumption DEF StreamRec
    <3> QED BY <2>2, <3>1 DEF Buffers
  <2>12. InStep(r, "running", Waits(s)') BY Zenon, <1>1, <2>2, <2>8, Appends DEF InStep, ByHandler
  <2>13. Located("running", s \in reqLoc', s \in accum', told'[s]) BY Zenon, <1>1, <2>4 DEF Located
  <2> QED BY ZenonT(60), <2>1, <2>2, <2>3, <2>4, <2>6, <2>7, <2>8, <2>9, <2>10, <2>11, <2>12, <2>13, StreamStep
<1> QED BY Zenon, <1>3, <1>4

-----------------------------------------------------------------------------
(* The callbacks of the loop, one by one.                                  *)

\* What the invariant says of one stream, on its record.
LEMMA StreamFacts ==
  ASSUME Inv, NEW s \in Streams
  PROVE /\ Of(s) \in StreamRec /\ Buffers(Of(s)) /\ InStep(Of(s), handler[s], Waits(s))
        /\ Waits(s) \in BOOLEAN
        /\ Located(handler[s], s \in reqLoc, s \in accum, told[s])
        /\ answers[s] # <<>> /\ handler[s] \notin {"none", "done"} => told[s] # {}
        /\ Of(s).stage = stage[s] /\ Of(s).rejected = rejected[s] /\ Of(s).ended = ended[s]
        /\ Of(s).found = found[s] /\ Of(s).cap = cap[s] /\ Of(s).length = length[s]
        /\ Of(s).reserve = reserve[s] /\ Of(s).body = body[s] /\ Of(s).deadline = deadline[s]
        /\ Of(s).answers = answers[s] /\ Of(s).out = out[s]
        /\ reserved \in 0 .. Budget /\ reserve[s] \in 0 .. Budget
        /\ reserved + reserve[s] - reserve[s] <= Budget
        /\ phase \in {"open", "closing", "closed"} /\ goaway \in BOOLEAN
<1>1. StreamTypes /\ RestTypes /\ Stream(s) BY Zenon, Types DEF Inv
<1>2. Of(s) \in StreamRec BY Zenon, <1>1, OfType
<1>3. Waits(s) \in BOOLEAN BY Zenon DEF Waits
<1>4. reserved \in 0 .. Budget /\ reserve[s] \in 0 .. Budget BY Zenon, <1>1 DEF StreamTypes
<1>5. reserved + reserve[s] - reserve[s] <= Budget BY <1>4, SizesAssumption
<1>6. /\ Of(s).stage = stage[s] /\ Of(s).rejected = rejected[s] /\ Of(s).ended = ended[s]
      /\ Of(s).found = found[s] /\ Of(s).cap = cap[s] /\ Of(s).length = length[s]
      /\ Of(s).reserve = reserve[s] /\ Of(s).body = body[s] /\ Of(s).deadline = deadline[s]
      /\ Of(s).answers = answers[s] /\ Of(s).out = out[s]
  BY Zenon DEF Of
<1> QED BY Zenon, <1>1, <1>2, <1>3, <1>4, <1>5, <1>6 DEF Stream, RestTypes

\* A stream by its fields.
LEMMA Fields ==
  ASSUME NEW s
  PROVE /\ Of(s).stage = stage[s] /\ Of(s).rejected = rejected[s] /\ Of(s).ended = ended[s]
        /\ Of(s).found = found[s] /\ Of(s).cap = cap[s] /\ Of(s).length = length[s]
        /\ Of(s).reserve = reserve[s] /\ Of(s).body = body[s] /\ Of(s).deadline = deadline[s]
        /\ Of(s).answers = answers[s] /\ Of(s).out = out[s]
BY Zenon DEF Of

\* A stream by itself.
LEMMA InOrder ==
  ASSUME Inv, NEW s \in Streams
  PROVE Of(s) \in StreamRec /\ Buffers(Of(s)) /\ InStep(Of(s), handler[s], Waits(s))
BY Zenon, StreamFacts

\* A stream the engine rejects, from a field it could not take to a deadline.
LEMMA RejectStep ==
  ASSUME Inv, NEW s \in Streams, ~rejected[s], stage[s] \in {"head", "body", "emitted"},
         Becomes(s, Rejected(Of(s))), UNCHANGED <<locVars, otherVars>>,
         handler[s] \in {"none", "done"} \/ told[s] # {},
         phase' \in {"open", "closing", "closed"}, goaway' \in BOOLEAN
  PROVE Inv'
<1>1. /\ Rejected(Of(s)) \in StreamRec /\ Buffers(Rejected(Of(s)))
      /\ InStep(Rejected(Of(s)), handler[s], Waits(s)) /\ Rejected(Of(s)).reserve = reserve[s]
  BY StreamFacts, RejectedKeeps DEF Buffers
<1> QED BY ZenonT(60), <1>1, StreamFacts, LoopStep

\* Closing a finished session is a phase like another.
LEMMA Phases == ASSUME RestTypes, goaway' = goaway, CloseIfFinished
                PROVE phase' \in {"open", "closing", "closed"} /\ goaway' \in BOOLEAN
BY Zenon DEF RestTypes, CloseIfFinished

\* onBeginHeaders: a new stream holds nothing and has no handler.
LEMMA BeginStep == ASSUME Inv, NEW s \in Streams, OnBeginHeaders(s) PROVE Inv'
<1> DEFINE r == [Of(s) EXCEPT !.stage = "head"]
<1>1. /\ stage[s] = "none" /\ Becomes(s, r) /\ UNCHANGED <<locVars, otherVars>>
      /\ phase' = phase /\ goaway' = goaway
  BY Zenon DEF OnBeginHeaders
<1>2. /\ r.stage = "head" /\ r.rejected = rejected[s] /\ r.answers = answers[s] /\ r.body = body[s]
      /\ r.reserve = reserve[s]
  BY InOrder, Fields DEF StreamRec
<1>3. r \in StreamRec BY Zenon, StreamFacts, FieldTypes
<1> HIDE DEF r
<1>4. Buffers(r) BY ZenonT(60), <1>1, <1>2, StreamFacts DEF Buffers
<1>5. InStep(r, handler[s], Waits(s)) BY <1>1, <1>2, InOrder, Fields DEF InStep
<1> QED BY Zenon, <1>1, <1>2, <1>3, <1>4, <1>5, StreamFacts, LoopStep

\* onHeader: a head is refused before any handler runs.
LEMMA HeaderStep == ASSUME Inv, NEW s \in Streams, OnHeader(s) PROVE Inv'
<1>1. handler[s] = "none" BY Zenon, StreamFacts DEF OnHeader, InStep
<1> QED BY Zenon, <1>1, StreamFacts, RejectStep DEF OnHeader

\* A stalled body is refused before any handler runs.
LEMMA StallStep == ASSUME Inv, NEW s \in Streams, SweepStall(s) PROVE Inv'
<1>1. handler[s] = "none" BY Zenon, StreamFacts DEF SweepStall, InStep
<1>2. RestTypes BY Zenon, Types DEF Inv
<1> QED BY Zenon, <1>1, <1>2, StreamFacts, Phases, RejectStep DEF SweepStall

\* A WINDOW_UPDATE sends the rest of an answer, and at most deletes the stream.
LEMMA WindowStep == ASSUME Inv, NEW s \in Streams, OnWindowUpdate(s) PROVE Inv'
<1> DEFINE r == [Of(s) EXCEPT !.out = "sent"]
<1>1. Becomes(s, r) /\ UNCHANGED <<locVars, otherVars>> /\ goaway' = goaway /\ CloseIfFinished
  BY Zenon DEF OnWindowUpdate
<1>2. /\ r.stage = stage[s] /\ r.rejected = rejected[s] /\ r.answers = answers[s] /\ r.body = body[s]
      /\ r.reserve = reserve[s] /\ r.ended = ended[s] /\ r.length = length[s] /\ r.cap = cap[s]
  BY InOrder, Fields DEF StreamRec
<1>3. r \in StreamRec BY Zenon, StreamFacts, FieldTypes
<1> HIDE DEF r
<1>4. Buffers(r) BY SMTT(30), <1>2, InOrder, Fields DEF Buffers
<1>5. InStep(r, handler[s], Waits(s)) BY <1>2, InOrder, Fields DEF InStep
<1>6. RestTypes BY Zenon, Types DEF Inv
<1> QED BY ZenonT(60), <1>1, <1>2, <1>3, <1>4, <1>5, <1>6, StreamFacts, Phases, LoopStep

\* A RST_STREAM deletes the stream; its handler, if any, keeps its entry.
LEMMA ResetStep == ASSUME Inv, NEW s \in Streams, OnReset(s) PROVE Inv'
<1> DEFINE r == Deleted(Of(s))
<1>1. Becomes(s, r) /\ UNCHANGED <<locVars, otherVars>> /\ goaway' = goaway /\ CloseIfFinished
  BY Zenon DEF OnReset
<1>2. r.stage = "gone" /\ r.answers = answers[s] /\ r.body = 0 /\ r.reserve = 0
  BY Zenon, StreamFacts DEF Deleted
<1>3. r \in StreamRec
  <2>1. Of(s).answers \in Seq({"engine", "handler"}) BY Zenon, StreamFacts DEF StreamRec
  <2> QED BY <2>1, SizesAssumption DEF Deleted, StreamRec
<1> HIDE DEF r
<1>4. Buffers(r) BY SMTT(30), <1>2 DEF Buffers
<1>5. InStep(r, handler[s], Waits(s)) BY <1>2, InOrder, Fields DEF InStep
<1>6. RestTypes BY ZenonT(60), Types DEF Inv
<1>7. reserved + r.reserve - reserve[s] <= Budget BY <1>2, StreamFacts, SizesAssumption
<1> QED BY ZenonT(60), <1>1, <1>2, <1>3, <1>4, <1>5, <1>6, <1>7, StreamFacts, Phases, LoopStep

\* Headers: what a stream that is routed may buffer is reserved or refused.
LEMMA HeadersStep == ASSUME Inv, NEW s \in Streams, NEW h \in Heads, OnHeaders(s, h) PROVE Inv'
<1> DEFINE routed == [Of(s) EXCEPT !.stage = "body", !.found = h.found, !.cap = h.cap,
                                   !.length = h.length, !.deadline = h.timed, !.ended = h.bodyless]
           kept == IF rejected[s] THEN routed
                   ELSE IF h.cap > 0 /\ h.length > h.cap THEN Rejected(routed)
                   ELSE Reserve(routed, h.bodyless)
           r == IF h.bodyless /\ ~kept.rejected THEN EmitComplete(kept) ELSE kept
<1>1. /\ stage[s] = "head" /\ Becomes(s, r) /\ Dispatch(s, r) /\ goaway' = goaway /\ CloseIfFinished
      /\ UNCHANGED otherVars
  BY Zenon DEF OnHeaders
<1>2. /\ h.found \in {"none", "route", "method"} /\ h.cap \in Nat /\ h.length \in Nat \cup {-1}
      /\ h.bodyless \in BOOLEAN /\ h.timed \in BOOLEAN
  BY Zenon, HeadsAssumption
<1>3. routed \in StreamRec
  <2> DEFINE r1 == [Of(s) EXCEPT !.stage = "body"]
             r2 == [r1 EXCEPT !.found = h.found]
             r3 == [r2 EXCEPT !.cap = h.cap]
             r4 == [r3 EXCEPT !.length = h.length]
             r5 == [r4 EXCEPT !.deadline = h.timed]
             r6 == [r5 EXCEPT !.ended = h.bodyless]
  <2>1. routed = r6 BY Zenon
  <2>2. r1 \in StreamRec BY Zenon, StreamFacts, FieldTypes
  <2> HIDE DEF r1
  <2>3. r2 \in StreamRec BY Zenon, <1>2, <2>2, FieldTypes
  <2> HIDE DEF r2
  <2>4. r3 \in StreamRec BY Zenon, <1>2, <2>3, FieldTypes
  <2> HIDE DEF r3
  <2>5. r4 \in StreamRec BY Zenon, <1>2, <2>4, FieldTypes
  <2> HIDE DEF r4
  <2>6. r5 \in StreamRec BY ZenonT(60), <1>2, <2>5, FieldTypes
  <2> HIDE DEF r5
  <2>7. r6 \in StreamRec BY Zenon, <1>2, <2>6, FieldTypes
  <2> QED BY Zenon, <2>1, <2>7
<1>4. /\ routed.stage = "body" /\ routed.rejected = rejected[s] /\ routed.answers = answers[s]
      /\ routed.body = body[s] /\ routed.reserve = reserve[s] /\ routed.ended = h.bodyless
      /\ routed.length = h.length /\ routed.cap = h.cap
  BY InOrder, Fields DEF StreamRec
<1> HIDE DEF routed
<1>5. /\ handler[s] = "none" /\ reserve[s] = 0 /\ body[s] = 0 /\ told[s] = {}
      /\ answers[s] = IF rejected[s] THEN <<"engine">> ELSE <<>>
  <2>1. body[s] \in Nat BY InOrder, Fields, SizesAssumption DEF StreamRec
  <2>2. handler[s] = "none" /\ answers[s] = IF rejected[s] THEN <<"engine">> ELSE <<>>
    BY ZenonT(60), <1>1, InOrder, Fields DEF InStep
  <2>3. reserve[s] = 0 /\ body[s] = 0 BY SMTT(30), <1>1, <2>1, InOrder, Fields DEF Buffers
  <2> QED BY ZenonT(60), <2>2, <2>3, StreamFacts DEF Located
<1>6. InStep(routed, handler[s], Waits(s)) BY SMTT(30), <1>1, <1>4, <1>5, InOrder, Fields DEF InStep
<1>7. phase' \in {"open", "closing", "closed"} /\ goaway' \in BOOLEAN
  <2>1. RestTypes BY Zenon, Types DEF Inv
  <2> QED BY Zenon, <1>1, <2>1, Phases
<1>8. CASE rejected[s]
  <2>1. r = routed BY ZenonT(60), <1>4, <1>8
  <2>2. Buffers(routed) BY <1>4, <1>5, <1>8 DEF Buffers
  <2>3. UNCHANGED locVars BY Zenon, <1>1, <1>4, <2>1 DEF Dispatch
  <2> QED BY ZenonT(60), <1>1, <1>3, <1>4, <1>5, <1>6, <1>7, <2>1, <2>2, <2>3, StreamFacts, LoopStep
<1>9. ASSUME ~rejected[s], kept = Rejected(routed) PROVE Inv'
  <2>1. /\ Rejected(routed) \in StreamRec /\ Buffers(Rejected(routed))
        /\ InStep(Rejected(routed), handler[s], Waits(s)) /\ Rejected(routed).reserve = reserve[s]
        /\ Rejected(routed).rejected /\ Rejected(routed).stage = "body"
    <3>1. Rejected(routed).stage = "body" BY Zenon, <1>3, <1>4 DEF Rejected, StreamRec
    <3> QED BY SMTT(30), <1>3, <1>4, <1>6, <1>9, <3>1, StreamFacts, RejectedKeeps
  <2>2. r = Rejected(routed) BY Zenon, <1>9, <2>1
  <2>3. UNCHANGED locVars BY Zenon, <1>1, <2>1, <2>2 DEF Dispatch
  <2> QED BY ZenonT(60), <1>1, <1>5, <1>7, <2>1, <2>2, <2>3, StreamFacts, LoopStep
<1>10. ASSUME ~rejected[s], kept # Rejected(routed) PROVE Inv'
  <2> DEFINE want == Want(routed, h.bodyless)
             k == [routed EXCEPT !.reserve = want]
  <2>1. kept = k /\ want <= Budget /\ reserved + want <= Budget
    <3>1. want \in Int /\ reserved + want \in Int
      BY SMTT(30), <1>2, <1>4, StreamFacts, SizesAssumption DEF Want
    <3> QED BY SMTT(30), <1>10, <3>1, SizesAssumption DEF Reserve
  <2>2. want \in 0 .. Budget
    BY <1>2, <1>4, <2>1, SizesAssumption DEF Want
  <2>3. /\ k.stage = "body" /\ ~k.rejected /\ k.answers = <<>> /\ k.body = 0 /\ k.reserve = want
        /\ k.ended = h.bodyless /\ k.length = h.length /\ k.cap = h.cap
    BY Zenon, <1>3, <1>4, <1>5, <1>10 DEF StreamRec
  <2>4. ~h.bodyless => IF h.length >= 0 THEN want = h.length ELSE h.cap > 0 /\ want = h.cap
    BY <1>2, <1>4, <2>1, SizesAssumption DEF Want
  <2> HIDE DEF want
  <2>5. k \in StreamRec BY ZenonT(60), <1>3, <2>2, FieldTypes
  <2> HIDE DEF k
  <2>6. reserved + k.reserve - reserve[s] <= Budget BY SMTT(30), <1>5, <2>1, <2>2, <2>3, StreamFacts, SizesAssumption
  <2>7. CASE h.bodyless
    <3>1. r = EmitComplete(k) BY Zenon, <2>1, <2>3, <2>7
    <3> QED BY ZenonT(60), <1>1, <1>7, <1>10, <2>3, <2>5, <2>6, <3>1, EmitStep
  <2>8. CASE ~h.bodyless
    <3>1. r = k BY Zenon, <2>1, <2>8
    <3>2. Buffers(k) BY SMTT(30), <2>2, <2>3, <2>4, <2>8 DEF Buffers
    <3>3. InStep(k, handler[s], Waits(s))
      BY ZenonT(60), <1>5, <1>10, <2>3, StreamFacts, Appends DEF InStep, ByHandler
    <3>4. UNCHANGED locVars BY ZenonT(60), <1>1, <2>3, <3>1 DEF Dispatch
    <3> QED BY ZenonT(60), <1>1, <1>5, <1>7, <2>3, <2>5, <2>6, <3>1, <3>2, <3>3, <3>4, LoopStep
  <2> QED BY Zenon, <1>2, <2>7, <2>8
<1> QED BY Zenon, <1>8, <1>9, <1>10

\* Data: a body stays within what was reserved, by its declared length, to
\* which nghttp2 holds it, or by its cap.
LEMMA DataStep ==
  ASSUME Inv, NEW s \in Streams, NEW n \in 0 .. 1, NEW end \in BOOLEAN, OnData(s, n, end)
  PROVE Inv'
<1> DEFINE more == IF rejected[s] THEN Of(s)
                   ELSE IF cap[s] > 0 /\ body[s] + n > cap[s] THEN Rejected(Of(s))
                   ELSE [Of(s) EXCEPT !.body = body[s] + n]
           last == [more EXCEPT !.ended = end]
           r == IF end /\ ~last.rejected THEN EmitComplete(last) ELSE last
<1>1. /\ stage[s] = "body" /\ Becomes(s, r) /\ Dispatch(s, r) /\ goaway' = goaway /\ CloseIfFinished
      /\ UNCHANGED otherVars /\ body[s] + n <= MaxBody /\ (~rejected[s] => Fits(s, n, end))
  BY Zenon DEF OnData
<1>2. phase' \in {"open", "closing", "closed"} /\ goaway' \in BOOLEAN
  <2>1. RestTypes BY Zenon, Types DEF Inv
  <2> QED BY Zenon, <1>1, <2>1, Phases
<1>3. /\ handler[s] = "none" /\ told[s] = {}
      /\ answers[s] = IF rejected[s] THEN <<"engine">> ELSE <<>>
  BY ZenonT(60), <1>1, StreamFacts DEF InStep, Located
<1>4. /\ body[s] \in Nat /\ body[s] + n \in 0 .. MaxBody /\ cap[s] \in Nat
      /\ length[s] \in Nat \cup {-1} /\ reserve[s] \in Nat
  BY SMTT(30), <1>1, InOrder, Fields, SizesAssumption DEF StreamRec
<1>5. ASSUME more \in StreamRec, more.rejected, more.stage = "body", more.body <= more.reserve,
             more.reserve = reserve[s], InStep(more, handler[s], Waits(s))
      PROVE Inv'
  <2> HIDE DEF more
  <2>1. last \in StreamRec BY Zenon, <1>5, FieldTypes
  <2>2. /\ last.stage = "body" /\ last.rejected /\ last.body = more.body /\ last.reserve = reserve[s]
        /\ last.answers = more.answers
    BY Zenon, <1>5 DEF StreamRec
  <2> HIDE DEF last
  <2>3. r = last BY Zenon, <2>2
  <2>4. Buffers(last) BY Zenon, <1>5, <2>2 DEF Buffers
  <2>5. InStep(last, handler[s], Waits(s)) BY Zenon, <1>5, <2>2 DEF InStep
  <2>6. UNCHANGED locVars BY Zenon, <1>1, <2>2, <2>3 DEF Dispatch
  <2> QED BY ZenonT(60), <1>1, <1>2, <1>3, <2>1, <2>2, <2>3, <2>4, <2>5, <2>6, StreamFacts, LoopStep
<1>6. CASE rejected[s]
  <2>1. more = Of(s) BY Zenon, <1>6
  <2> HIDE DEF more
  <2> QED BY Zenon, <1>1, <1>5, <1>6, <2>1, StreamFacts DEF Buffers
<1>7. CASE ~rejected[s] /\ cap[s] > 0 /\ body[s] + n > cap[s]
  <2>1. more = Rejected(Of(s)) BY Zenon, <1>7
  <2> HIDE DEF more
  <2>2. /\ more \in StreamRec /\ InStep(more, handler[s], Waits(s)) /\ more.reserve = reserve[s]
        /\ more.rejected /\ Buffers(more)
    BY <1>1, <1>7, <2>1, StreamFacts, RejectedKeeps
  <2>3. more.stage = "body" BY ZenonT(60), <1>1, <2>1, StreamFacts DEF Rejected, StreamRec
  <2> QED BY Zenon, <1>5, <2>2, <2>3 DEF Buffers
<1>8. CASE ~rejected[s] /\ ~(cap[s] > 0 /\ body[s] + n > cap[s])
  <2>1. more = [Of(s) EXCEPT !.body = body[s] + n] BY Zenon, <1>8
  <2>2. more \in StreamRec
    <3>1. Of(s) \in StreamRec BY Zenon, StreamFacts
    <3>2. [Of(s) EXCEPT !.body = body[s] + n] \in StreamRec BY ZenonT(60), <1>4, <3>1, FieldTypes
    <3> QED BY Zenon, <2>1, <3>2
  <2>3. /\ more.stage = "body" /\ ~more.rejected /\ more.answers = <<>> /\ more.body = body[s] + n
        /\ more.reserve = reserve[s] /\ more.length = length[s] /\ more.cap = cap[s]
    BY SMTT(30), <1>1, <1>3, <1>8, <2>1, InOrder, Fields DEF StreamRec
  <2> HIDE DEF more
  <2>4. last \in StreamRec BY Zenon, <2>2, FieldTypes
  <2>5. /\ last.stage = "body" /\ ~last.rejected /\ last.answers = <<>> /\ last.body = body[s] + n
        /\ last.reserve = reserve[s] /\ last.length = length[s] /\ last.cap = cap[s] /\ last.ended = end
    BY Zenon, <2>2, <2>3 DEF StreamRec
  <2> HIDE DEF last
  <2>6. CASE end
    <3>1. r = EmitComplete(last) BY Zenon, <2>5, <2>6
    <3> QED BY ZenonT(60), <1>1, <1>2, <1>8, <2>4, <2>5, <3>1, StreamFacts, EmitStep
  <2>7. CASE ~end
    <3>1. r = last BY Zenon, <2>7
    <3>2. IF length[s] >= 0 THEN reserve[s] = length[s] ELSE cap[s] > 0 /\ reserve[s] = cap[s]
      BY ZenonT(60), <1>1, <1>8, StreamFacts DEF Buffers
    <3>3. body[s] + n <= reserve[s] BY SMTT(30), <1>1, <1>4, <1>8, <2>7, <3>2 DEF Fits
    <3>4. Buffers(last) BY ZenonT(60), <2>5, <2>7, <3>2, <3>3 DEF Buffers
    <3>5. InStep(last, handler[s], Waits(s)) BY SMTT(30), <1>1, <1>3, <1>8, <2>5, InOrder, Fields DEF InStep
    <3>6. UNCHANGED locVars BY Zenon, <1>1, <2>5, <3>1 DEF Dispatch
    <3> QED BY ZenonT(60), <1>1, <1>2, <1>3, <2>4, <2>5, <3>1, <3>4, <3>5, <3>6, StreamFacts, LoopStep
  <2> QED BY Zenon, <2>6, <2>7
<1> QED BY Zenon, <1>6, <1>7, <1>8

\* The deadline: the id is retired with the answer, and a handler still at
\* work is told.
LEMMA DeadlineStep == ASSUME Inv, NEW s \in Streams, SweepDeadline(s) PROVE Inv'
<1> DEFINE r == Rejected(Of(s))
<1>1. /\ stage[s] = "emitted" /\ ~rejected[s] /\ Becomes(s, r) /\ reqLoc' = reqLoc \ {s}
      /\ told' = IF s \in reqLoc THEN [told EXCEPT ![s] = @ \cup {"timeout"}] ELSE told
      /\ goaway' = goaway /\ CloseIfFinished
      /\ accum' = accum /\ queue' = queue /\ handler' = handler /\ UNCHANGED otherVars
  BY Zenon DEF SweepDeadline
<1>2. phase' \in {"open", "closing", "closed"} /\ goaway' \in BOOLEAN
  <2>1. RestTypes BY ZenonT(60), Types DEF Inv
  <2> QED BY Zenon, <1>1, <2>1, Phases
<1>3. /\ r \in StreamRec /\ Buffers(r) /\ InStep(r, handler[s], Waits(s)) /\ r.reserve = reserve[s]
  BY <1>1, StreamFacts, RejectedKeeps
<1> HIDE DEF r
<1>4. LocTypes /\ RestTypes BY Zenon, Types DEF Inv
<1>5. LocTypes' BY Zenon, <1>1, <1>4 DEF LocTypes
<1>6. RestTypes' BY Zenon, <1>1, <1>2, <1>4 DEF RestTypes, otherVars
<1>7. QueuedOnce' /\ \A t \in Streams : Waits(t)' <=> Waits(t) BY Zenon, <1>1 DEF Inv, QueuedOnce, Waits
<1>8. InFlightBudget'
  <2>1. IsFiniteSet(reqLoc) /\ IsFiniteSet(admitted)
    BY Zenon, <1>4, StreamsAssumption, LoopsAssumption, FS_Subset DEF LocTypes, RestTypes
  <2>2. Cardinality(reqLoc \ {s}) <= Cardinality(reqLoc) /\ IsFiniteSet(reqLoc \ {s})
    BY Zenon, <2>1, FS_Subset, reqLoc \ {s} \in SUBSET reqLoc
  <2>3. /\ Cardinality(reqLoc) \in Nat /\ Cardinality(admitted) \in Nat
        /\ Cardinality(OtherLoops) \in Nat /\ Cardinality(reqLoc \ {s}) \in Nat
    BY Zenon, <2>1, <2>2, LoopsAssumption, FS_CardinalityType
  <2>4. InFlightBudget BY Zenon DEF Inv
  <2> QED BY <1>1, <1>4, <2>2, <2>3, <2>4, SizesAssumption DEF InFlightBudget, RestTypes, otherVars
<1>9. \A t \in Streams \ {s} : told'[t] = told[t] BY Zenon, <1>1, <1>4 DEF LocTypes
<1>10. told'[s] = IF s \in reqLoc THEN told[s] \cup {"timeout"} ELSE told[s] BY Zenon, <1>1, <1>4 DEF LocTypes
<1>11. handler[s] \notin {"none", "done"} => told'[s] # {}
  BY Zenon, <1>10, StreamFacts DEF Located
<1>12. Located(handler'[s], s \in reqLoc', s \in accum', told'[s])
  <2>1. s \in reqLoc => told'[s] # {} BY Zenon, <1>10
  <2>2. s \notin reqLoc => told'[s] = told[s] BY Zenon, <1>10
  <2> QED BY Zenon, <1>1, <2>1, <2>2, StreamFacts DEF Located
<1>13. InStep(r, handler'[s], Waits(s)') BY Zenon, <1>1, <1>3, <1>7 DEF InStep
<1> QED BY ZenonT(60), <1>1, <1>2, <1>3, <1>5, <1>6, <1>7, <1>8, <1>9, <1>11, <1>12, <1>13, StreamFacts, StreamStep

-----------------------------------------------------------------------------
(* Steps that leave the streams alone.                                     *)

\* A step of a handler keeps the invariant if its own stream is in order
\* afterwards: the other streams see nothing of it.
LEMMA HandlerStep ==
  ASSUME Inv, NEW s \in Streams, UNCHANGED <<streamVars, reserved, toStream>>,
         LocTypes', RestTypes', QueuedOnce', InFlightBudget',
         \A t \in Streams \ {s} :
            /\ handler'[t] = handler[t] /\ told'[t] = told[t] /\ (Waits(t)' <=> Waits(t))
            /\ (t \in reqLoc' <=> t \in reqLoc) /\ (t \in accum' <=> t \in accum),
         InStep(Of(s), handler'[s], Waits(s)'),
         Located(handler'[s], s \in reqLoc', s \in accum', told'[s]),
         answers[s] # <<>> /\ handler'[s] \notin {"none", "done"} => told'[s] # {}
  PROVE Inv'
<1>1. StreamTypes' BY Zenon, Types DEF Inv, StreamTypes, streamVars
<1>2. Routed' /\ (reserved = SumFunction(reserve))' BY Zenon DEF Inv, Routed, streamVars
<1>3. \A t \in Streams : Of(t)' = Of(t) /\ answers'[t] = answers[t] BY ZenonT(60) DEF Of, streamVars
<1>4. Stream(s)' BY <1>3 DEF Inv, Stream, Buffers, InStep, Located
<1>5. ASSUME NEW t \in Streams \ {s} PROVE Stream(t)'
  <2>1. Stream(t) BY Zenon DEF Inv
  <2>2. Buffers(Of(t))' BY ZenonT(60), <1>3, <2>1 DEF Stream
  <2>3. InStep(Of(t), handler[t], Waits(t))' BY <1>3, <2>1 DEF Stream, InStep
  <2>4. Located(handler[t], t \in reqLoc, t \in accum, told[t])' BY Zenon, <2>1 DEF Stream, Located
  <2> QED BY Zenon, <1>3, <2>1, <2>2, <2>3, <2>4 DEF Stream
<1>6. TypeOK' BY Zenon, <1>1, Types
<1> QED BY Zenon, <1>2, <1>4, <1>5, <1>6 DEF Inv

\* The same for a handler that only looks up its id.
LEMMA LookUpStep ==
  ASSUME Inv, NEW s \in Streams, NEW before \in {"running", "streaming"},
         NEW after \in {"starting", "flushing"}, before = "running" <=> after = "starting",
         LookUp(s, before, after)
  PROVE Inv'
<1>1. LocTypes /\ RestTypes BY Zenon, Types DEF Inv
<1>2. /\ handler[s] = before
      /\ handler' = [handler EXCEPT ![s] = IF s \in reqLoc THEN after ELSE "done"]
      /\ UNCHANGED <<streamVars, reserved, toStream, reqLoc, accum, queue, told, phase, goaway, otherVars>>
  BY Zenon DEF LookUp, HandlerOnly
<1>3. LocTypes' BY Zenon, <1>1, <1>2 DEF LocTypes
<1>4. RestTypes' BY Zenon, <1>1, <1>2 DEF RestTypes, otherVars
<1>5. QueuedOnce' /\ InFlightBudget' /\ \A t \in Streams : Waits(t)' <=> Waits(t)
  BY Zenon, <1>2 DEF Inv, QueuedOnce, InFlightBudget, Waits, otherVars
<1>6. /\ \A t \in Streams \ {s} : handler'[t] = handler[t]
      /\ handler'[s] = IF s \in reqLoc THEN after ELSE "done"
  BY ZenonT(60), <1>1, <1>2 DEF LocTypes
<1>7. InStep(Of(s), handler'[s], Waits(s)') BY <1>2, <1>5, <1>6, InOrder, Fields DEF InStep
<1>8. Located(handler'[s], s \in reqLoc', s \in accum', told'[s])
  <2>1. Located(handler[s], s \in reqLoc, s \in accum, told[s]) BY Zenon, StreamFacts
  <2>2. Located(handler'[s], s \in reqLoc, s \in accum, told[s])
    <3>1. CASE s \in reqLoc /\ before = "running" BY Zenon, <1>2, <1>6, <2>1, <3>1 DEF Located
    <3>2. CASE s \in reqLoc /\ before = "streaming" BY ZenonT(60), <1>2, <1>6, <2>1, <3>2 DEF Located
    <3>3. CASE s \notin reqLoc BY SMTT(30), <1>2, <1>6, <2>1, <3>3 DEF Located
    <3> QED BY Zenon, <3>1, <3>2, <3>3
  <2> QED BY Zenon, <1>2, <2>2
<1>9. answers[s] # <<>> /\ handler'[s] \notin {"none", "done"} => told'[s] # {}
  BY Zenon, <1>2, <1>6, StreamFacts
<1> QED BY Zenon, <1>2, <1>3, <1>4, <1>5, <1>6, <1>7, <1>8, <1>9, HandlerStep

\* startStream: a running handler, told or not, gets its accumulator.
LEMMA OpenStep == ASSUME Inv, NEW s \in Streams, OpenAccum(s) PROVE Inv'
<1>1. LocTypes /\ RestTypes BY Zenon, Types DEF Inv
<1>2. /\ handler[s] = "starting" /\ handler' = [handler EXCEPT ![s] = "streaming"]
      /\ accum' = accum \cup {s}
      /\ UNCHANGED <<streamVars, reserved, toStream, reqLoc, queue, told, phase, goaway, otherVars>>
  BY Zenon DEF OpenAccum, HandlerOnly
<1>3. LocTypes' BY Zenon, <1>1, <1>2 DEF LocTypes
<1>4. RestTypes' BY Zenon, <1>1, <1>2 DEF RestTypes, otherVars
<1>5. QueuedOnce' /\ InFlightBudget' /\ \A t \in Streams : Waits(t)' <=> Waits(t)
  BY Zenon, <1>2 DEF Inv, QueuedOnce, InFlightBudget, Waits, otherVars
<1>6. (\A t \in Streams \ {s} : handler'[t] = handler[t]) /\ handler'[s] = "streaming"
  BY Zenon, <1>1, <1>2 DEF LocTypes
<1>7. InStep(Of(s), handler'[s], Waits(s)') BY Zenon, <1>2, <1>5, <1>6, StreamFacts DEF InStep
<1>8. Located(handler'[s], s \in reqLoc', s \in accum', told'[s])
  BY Zenon, <1>2, <1>6, StreamFacts DEF Located
<1>9. answers[s] # <<>> /\ handler'[s] \notin {"none", "done"} => told'[s] # {}
  BY Zenon, <1>2, <1>6, StreamFacts
<1> QED BY ZenonT(60), <1>2, <1>3, <1>4, <1>5, <1>6, <1>7, <1>8, <1>9, HandlerStep

\* An answer handed to the loop: the handler is done, so that it is the only
\* one of its stream in the queue.
LEMMA AnswerStep ==
  ASSUME Inv, NEW s \in Streams, handler[s] \notin {"none", "done"},
         handler' = [handler EXCEPT ![s] = "done"], NEW given \in BOOLEAN,
         queue' = IF given THEN Append(queue, s) ELSE queue,
         reqLoc' = reqLoc \ {s}, accum' \in {accum, accum \ {s}}, s \in accum' => told[s] # {},
         UNCHANGED <<streamVars, reserved, toStream, told, phase, goaway, otherVars>>
  PROVE Inv'
<1>1. LocTypes /\ RestTypes BY Zenon, Types DEF Inv
<1>2. ~Waits(s) /\ answers[s] \notin ByHandler BY Zenon, StreamFacts DEF InStep
<1>3. LocTypes' BY <1>1 DEF LocTypes
<1>4. RestTypes' BY Zenon, <1>1 DEF RestTypes, otherVars
<1>5. queue \in Seq(Streams) BY Zenon, <1>1 DEF LocTypes
<1>6. /\ Len(Append(queue, s)) = Len(queue) + 1 /\ Append(queue, s)[Len(queue) + 1] = s
      /\ \A i \in 1 .. Len(queue) : Append(queue, s)[i] = queue[i]
      /\ Len(queue) \in Nat /\ DOMAIN queue = 1 .. Len(queue)
      /\ DOMAIN Append(queue, s) = 1 .. Len(queue) + 1
  BY <1>5
<1>7. QueuedOnce'
  <2>1. CASE ~given BY Zenon, <2>1 DEF Inv, QueuedOnce
  <2>2. CASE given
    <3>1. \A i \in 1 .. Len(queue) : queue[i] # s BY Zenon, <1>2, <1>6 DEF Waits
    <3>2. queue' = Append(queue, s) BY Zenon, <2>2
    <3> QED BY <1>6, <3>1, <3>2 DEF Inv, QueuedOnce
  <2> QED BY Zenon, <2>1, <2>2
<1>8. ASSUME NEW t \in Streams \ {s} PROVE Waits(t)' <=> Waits(t)
  <2>1. CASE ~given BY Zenon, <2>1 DEF Waits
  <2>2. CASE given BY <1>6, <2>2 DEF Waits
  <2> QED BY Zenon, <2>1, <2>2
<1>9. InFlightBudget'
  <2>1. IsFiniteSet(reqLoc) /\ IsFiniteSet(admitted)
    BY Zenon, <1>1, StreamsAssumption, LoopsAssumption, FS_Subset DEF LocTypes, RestTypes
  <2>2. Cardinality(reqLoc \ {s}) <= Cardinality(reqLoc) /\ IsFiniteSet(reqLoc \ {s})
    BY Zenon, <2>1, FS_Subset, reqLoc \ {s} \in SUBSET reqLoc
  <2>3. /\ Cardinality(reqLoc) \in Nat /\ Cardinality(admitted) \in Nat
        /\ Cardinality(OtherLoops) \in Nat /\ Cardinality(reqLoc \ {s}) \in Nat
    BY Zenon, <2>1, <2>2, LoopsAssumption, FS_CardinalityType
  <2>4. InFlightBudget BY Zenon DEF Inv
  <2> QED BY SMTT(30), <1>1, <2>2, <2>3, <2>4, SizesAssumption DEF InFlightBudget, RestTypes, otherVars
<1>10. (\A t \in Streams \ {s} : handler'[t] = handler[t]) /\ handler'[s] = "done"
  BY Zenon, <1>1 DEF LocTypes
<1>11. InStep(Of(s), handler'[s], Waits(s)') BY Zenon, <1>2, <1>10, StreamFacts DEF InStep
<1>12. Located(handler'[s], s \in reqLoc', s \in accum', told'[s]) BY Zenon, <1>10 DEF Located
<1> QED BY ZenonT(60), <1>3, <1>4, <1>7, <1>8, <1>9, <1>10, <1>11, <1>12, HandlerStep

\* respond: a running handler has no accumulator, and its id goes.
LEMMA RespondStep == ASSUME Inv, NEW s \in Streams, Respond(s) PROVE Inv'
<1>1. s \notin accum BY Zenon, StreamFacts DEF Respond, Located
<1>2. (s \in reqLoc) \in BOOLEAN OBVIOUS
<1> QED BY Zenon, <1>1, <1>2, AnswerStep DEF Respond, HandlerOnly

\* sendStreamChunk: the accumulator goes, and with it the id.
LEMMA FlushStep == ASSUME Inv, NEW s \in Streams, FlushAccum(s) PROVE Inv'
<1>1. handler[s] = "flushing" BY Zenon DEF FlushAccum
<1>2. s \notin accum => s \notin reqLoc BY Zenon, <1>1, StreamFacts DEF Located
<1>3. reqLoc' = reqLoc \ {s} BY Zenon, <1>2 DEF FlushAccum
<1>4. (s \in accum) \in BOOLEAN OBVIOUS
<1> QED BY Zenon, <1>1, <1>3, <1>4, AnswerStep DEF FlushAccum, HandlerOnly

\* onAsync takes the only answer of its stream out of the queue; the stream
\* is answered if it still waits.
LEMMA AsyncStep == ASSUME Inv, OnAsync PROVE Inv'
<1>1. LocTypes /\ RestTypes BY Zenon, Types DEF Inv
<1>2. queue \in Seq(Streams) /\ queue # <<>> /\ queue' = Tail(queue) BY Zenon, <1>1 DEF LocTypes, OnAsync
<1>3. PICK s \in Streams : s = Head(queue) BY <1>2
<1>4. /\ s \in Streams /\ s = queue[1] /\ Len(queue) \in Nat /\ Len(queue) > 0
      /\ queue' \in Seq(Streams) /\ Len(queue') = Len(queue) - 1
      /\ \A i \in 1 .. Len(queue) - 1 : queue'[i] = queue[i + 1]
      /\ DOMAIN queue = 1 .. Len(queue) /\ DOMAIN queue' = 1 .. Len(queue) - 1
  BY <1>2, <1>3
<1>5. UNCHANGED <<reqLoc, accum, handler, told, otherVars>> BY Zenon DEF OnAsync
<1>6. \/ /\ s \in toStream /\ goaway' = goaway /\ CloseIfFinished
         /\ \E o \in {"blocked", "sent"} :
               Becomes(s, [Of(s) EXCEPT !.answers = Append(@, "handler"), !.out = o])
      \/ UNCHANGED <<phase, goaway, streamVars, reserved, toStream>>
  BY Zenon, <1>3 DEF OnAsync
<1>7. \A i, j \in 1 .. Len(queue) : queue[i] = queue[j] => i = j BY Zenon, <1>4 DEF Inv, QueuedOnce
<1>8. QueuedOnce'
  <2> SUFFICES ASSUME NEW i \in 1 .. Len(queue) - 1, NEW j \in 1 .. Len(queue) - 1,
                      queue'[i] = queue'[j]
               PROVE i = j
    BY Zenon, <1>4 DEF QueuedOnce
  <2>1. i + 1 \in 1 .. Len(queue) /\ j + 1 \in 1 .. Len(queue) BY <1>4
  <2>2. i + 1 = j + 1 BY Zenon, <1>4, <1>7, <2>1
  <2> QED BY <2>2
<1>9. Waits(s) /\ ~Waits(s)'
  <2>1. Waits(s) BY <1>4 DEF Waits
  <2>2. ASSUME NEW i \in 1 .. Len(queue) - 1, queue'[i] = s PROVE FALSE
    <3>1. i + 1 \in 1 .. Len(queue) /\ 1 \in 1 .. Len(queue) /\ i + 1 # 1 BY <1>4
    <3> QED BY ZenonT(60), <1>4, <1>7, <2>2, <3>1
  <2> QED BY ZenonT(60), <1>4, <2>1, <2>2 DEF Waits
<1>10. ASSUME NEW t \in Streams \ {s} PROVE Waits(t)' <=> Waits(t)
  <2>1. ASSUME NEW i \in 1 .. Len(queue), queue[i] = t PROVE \E j \in 1 .. Len(queue) - 1 : queue'[j] = t
    <3>1. i # 1 BY ZenonT(60), <1>4, <2>1
    <3>2. i - 1 \in 1 .. Len(queue) - 1 /\ (i - 1) + 1 = i BY SMTT(30), <1>4, <3>1
    <3>3. queue'[i - 1] = queue[(i - 1) + 1] BY Zenon, <1>4, <3>2
    <3> QED BY ZenonT(60), <2>1, <3>2, <3>3
  <2>2. ASSUME NEW i \in 1 .. Len(queue) - 1, queue'[i] = t PROVE \E j \in 1 .. Len(queue) : queue[j] = t
    <3>1. i + 1 \in 1 .. Len(queue) BY <1>4
    <3> QED BY Zenon, <1>4, <2>2, <3>1
  <2> QED BY Zenon, <1>4, <2>1, <2>2 DEF Waits
<1>11. LocTypes' BY Zenon, <1>1, <1>4, <1>5 DEF LocTypes
<1>12. InFlightBudget' BY Zenon, <1>5 DEF Inv, InFlightBudget, otherVars
<1>13. handler[s] = "done" /\ answers[s] \notin ByHandler BY Zenon, <1>4, <1>9, StreamFacts DEF InStep
<1>14. Located(handler'[s], s \in reqLoc', s \in accum', told'[s]) BY Zenon, <1>4, <1>5, StreamFacts DEF Located
<1>15. CASE UNCHANGED <<phase, goaway, streamVars, reserved, toStream>>
  <2>1. RestTypes' BY Zenon, <1>1, <1>5, <1>15 DEF RestTypes, otherVars
  <2>2. InStep(Of(s), handler'[s], Waits(s)') BY Zenon, <1>4, <1>5, <1>9, StreamFacts DEF InStep
  <2> QED BY ZenonT(60), <1>4, <1>5, <1>8, <1>10, <1>11, <1>12, <1>13, <1>14, <1>15, <2>1, <2>2, HandlerStep
<1>16. ASSUME s \in toStream, goaway' = goaway, CloseIfFinished, NEW o \in {"blocked", "sent"},
              Becomes(s, [Of(s) EXCEPT !.answers = Append(@, "handler"), !.out = o])
       PROVE Inv'
  <2>1. RestTypes'
    <3>1. phase' \in {"open", "closing", "closed"} /\ goaway' \in BOOLEAN BY Zenon, <1>1, <1>16, Phases
    <3> QED BY Zenon, <1>1, <1>5, <3>1 DEF RestTypes, otherVars
  <2>2. stage[s] = "emitted" /\ ~rejected[s] BY Zenon, <1>16 DEF Inv, Routed
  <2>3. answers[s] = <<>>
    <3>1. answers[s] \in {<<>>, <<"handler">>} BY SMTT(30), <1>4, <2>2, InOrder, Fields DEF InStep
    <3> QED BY ZenonT(60), <1>13, <3>1 DEF ByHandler
  <2> DEFINE base == [Of(s) EXCEPT !.answers = Append(@, "handler")]
             r == [Of(s) EXCEPT !.answers = Append(@, "handler"), !.out = o]
  <2>4. r = [base EXCEPT !.out = o] BY Zenon
  <2>5. Of(s) \in StreamRec /\ Of(s).answers = <<>> BY Zenon, <1>4, <2>3, StreamFacts
  <2>6. base = [Of(s) EXCEPT !.answers = <<"handler">>] BY Zenon, <2>5, Appends
  <2>7. <<"handler">> \in Seq({"engine", "handler"}) OBVIOUS
  <2>8. base \in StreamRec BY Zenon, <2>5, <2>6, <2>7, FieldTypes
  <2> HIDE DEF base
  <2>9. r \in StreamRec BY Zenon, <2>4, <2>8, FieldTypes
  <2>10. /\ r.stage = stage[s] /\ r.rejected = rejected[s] /\ r.body = body[s]
         /\ r.reserve = reserve[s] /\ r.ended = ended[s] /\ r.length = length[s] /\ r.cap = cap[s]
    BY <1>4, InOrder, Fields DEF StreamRec
  <2>11. r.answers = <<"handler">> BY Zenon, <2>5, Appends DEF StreamRec
  <2>12. Becomes(s, r) BY ZenonT(60), <1>16
  <2> HIDE DEF r
  <2>13. Buffers(r) BY SMTT(30), <1>4, <2>10, InOrder, Fields DEF Buffers
  <2>14. InStep(r, handler'[s], Waits(s)')
    <3>1. handler'[s] = "done" BY Zenon, <1>5, <1>13
    <3> QED BY Zenon, <1>9, <2>2, <2>10, <2>11, <3>1 DEF InStep, ByHandler
  <2>15. reserved + r.reserve - reserve[s] <= Budget BY Zenon, <1>4, <2>10, StreamFacts
  <2>16. r.answers # <<>> /\ handler'[s] \notin {"none", "done"} => told'[s] # {} BY Zenon, <1>5, <1>13
  <2> QED BY ZenonT(60), <1>4, <1>5, <1>8, <1>10, <1>11, <1>12, <1>14, <2>1, <2>9, <2>12, <2>13, <2>14, <2>15, <2>16,
             StreamStep
<1> QED BY Zenon, <1>6, <1>15, <1>16

\* The connection goes, and with it every stream, every id in flight and the budget.
LEMMA CloseStep == ASSUME Inv, OnCloseConn PROVE Inv'
<1>1. StreamTypes /\ LocTypes /\ RestTypes BY Zenon, Types DEF Inv
<1>2. 0 \in 0 .. Budget /\ 0 \in 0 .. MaxBody BY SizesAssumption
<1>3. StreamTypes' BY Zenon, <1>1, <1>2 DEF OnCloseConn, StreamTypes
<1>4. LocTypes'
  <2>1. told' \in [Streams -> SUBSET {"timeout", "disconnect"}]
    <3>1. \A s \in Streams : told[s] \in SUBSET {"timeout", "disconnect"} BY Zenon, <1>1 DEF LocTypes
    <3>2. told' = [s \in Streams |-> IF s \in reqLoc THEN told[s] \cup {"disconnect"} ELSE told[s]]
      BY Zenon DEF OnCloseConn
    <3> QED BY Zenon, <3>1, <3>2
  <2> QED BY Zenon, <1>1, <2>1 DEF OnCloseConn, LocTypes
<1>5. RestTypes' BY Zenon, <1>1 DEF OnCloseConn, RestTypes, otherVars
<1>6. Routed' BY Zenon DEF OnCloseConn, Routed
<1>7. QueuedOnce' /\ \A s \in Streams : Waits(s)' <=> Waits(s) BY Zenon DEF OnCloseConn, Inv, QueuedOnce, Waits
<1>8. (reserved = SumFunction(reserve))'
  <2>1. reserve' \in [Streams -> Nat] /\ (\A s \in Streams : reserve'[s] = 0) /\ reserved' = 0
    BY Zenon DEF OnCloseConn
  <2> QED BY Zenon, <2>1, StreamsAssumption, SumNat
<1>9. InFlightBudget'
  <2>1. IsFiniteSet(reqLoc) /\ IsFiniteSet(admitted)
    BY Zenon, <1>1, StreamsAssumption, LoopsAssumption, FS_Subset DEF LocTypes, RestTypes
  <2>2. Cardinality(reqLoc) \in Nat /\ Cardinality(admitted) \in Nat /\ Cardinality(OtherLoops) \in Nat
    BY Zenon, <2>1, LoopsAssumption, FS_CardinalityType
  <2>3. Cardinality({}) = 0 BY Zenon, FS_EmptySet
  <2>4. reqLoc' = {} /\ others' = others /\ admitted' = admitted BY Zenon DEF OnCloseConn, otherVars
  <2>5. InFlightBudget BY Zenon DEF Inv
  <2> QED BY SMTT(30), <1>1, <2>2, <2>3, <2>4, <2>5, SizesAssumption DEF InFlightBudget, RestTypes
<1>10. ASSUME NEW s \in Streams PROVE Stream(s)'
  <2>1. /\ Of(s)'.stage = "gone" /\ Of(s)'.rejected = FALSE /\ Of(s)'.body = 0 /\ Of(s)'.reserve = 0
        /\ Of(s)'.answers = answers[s] /\ answers'[s] = answers[s]
    BY Zenon DEF OnCloseConn, Of
  <2>2. Buffers(Of(s))' BY <2>1 DEF Buffers
  <2>3. handler' = handler BY ZenonT(60) DEF OnCloseConn
  <2>4. InStep(Of(s), handler[s], Waits(s))' BY SMTT(30), <1>7, <2>1, <2>3, InOrder, Fields DEF InStep
  <2>5. /\ s \notin reqLoc' /\ (s \in accum' <=> s \in accum /\ s \notin reqLoc)
        /\ told'[s] = IF s \in reqLoc THEN told[s] \cup {"disconnect"} ELSE told[s]
    BY Zenon DEF OnCloseConn
  <2>6. Located(handler[s], s \in reqLoc, s \in accum, told[s])' 
    <3>1. Located(handler[s], s \in reqLoc, s \in accum, told[s]) BY Zenon, StreamFacts
    <3>2. CASE s \in reqLoc
      <4>1. told'[s] # {} BY Zenon, <2>5, <3>2
      <4> QED BY Zenon, <2>3, <2>5, <3>1, <3>2, <4>1 DEF Located
    <3>3. CASE s \notin reqLoc BY Zenon, <2>3, <2>5, <3>1, <3>3 DEF Located
    <3> QED BY Zenon, <3>2, <3>3
  <2>7. (answers[s] # <<>> /\ handler[s] \notin {"none", "done"} => told[s] # {})'
    BY Zenon, <2>1, <2>3, <2>5, StreamFacts
  <2> QED BY Zenon, <2>2, <2>4, <2>6, <2>7 DEF Stream
<1> QED BY ZenonT(60), <1>3, <1>4, <1>5, <1>6, <1>7, <1>8, <1>9, <1>10, Types DEF Inv

-----------------------------------------------------------------------------
(* Steps of the connection and of the other loops.                         *)

\* A step that leaves the streams and the shared tables alone.
LEMMA QuietStep ==
  ASSUME Inv, UNCHANGED <<streamVars, reserved, toStream, locVars>>, RestTypes', InFlightBudget'
  PROVE Inv'
<1>1. StreamTypes' /\ LocTypes' BY Zenon, Types DEF Inv, StreamTypes, LocTypes, streamVars, locVars
<1>2. QueuedOnce' /\ Routed' /\ (reserved = SumFunction(reserve))'
  BY Zenon DEF Inv, QueuedOnce, Routed, streamVars, locVars
<1>3. ASSUME NEW s \in Streams PROVE Stream(s)'
  <2>1. Of(s)' = Of(s) /\ (Waits(s)' <=> Waits(s)) BY Zenon DEF Of, Waits, streamVars, locVars
  <2>2. Stream(s) BY Zenon DEF Inv
  <2>3. UNCHANGED <<answers, handler, told, reqLoc, accum>> BY ZenonT(60) DEF streamVars, locVars
  <2>4. InStep(Of(s), handler[s], Waits(s))' BY <2>1, <2>2, <2>3 DEF Stream, InStep
  <2> QED BY Zenon, <2>1, <2>2, <2>3, <2>4 DEF Stream
<1> QED BY Zenon, <1>1, <1>2, <1>3, Types DEF Inv

\* The connection is lost, told to go away or found idle.
LEMMA ConnStep == ASSUME Inv, Lost \/ GoAway \/ SweepIdle PROVE Inv'
<1>1. RestTypes BY Zenon, Types DEF Inv
<1>2. UNCHANGED <<streamVars, reserved, toStream, locVars, otherVars>> BY Zenon DEF Lost, GoAway, SweepIdle
<1>3. phase' \in {"open", "closing", "closed"} /\ goaway' \in BOOLEAN
  BY Zenon, <1>1 DEF Lost, GoAway, SweepIdle, CloseIfFinished, RestTypes
<1>4. RestTypes' BY Zenon, <1>1, <1>2, <1>3 DEF RestTypes, otherVars
<1>5. InFlightBudget' BY Zenon, <1>2 DEF Inv, InFlightBudget, locVars, otherVars
<1> QED BY Zenon, <1>2, <1>4, <1>5, QuietStep

\* A loop admits its request on the count it reads before it inserts it.
LEMMA OthersStep ==
  ASSUME Inv, OtherAnswers \/ \E l \in OtherLoops : OtherAdmits(l) \/ OtherInserts(l)
  PROVE Inv'
<1>1. RestTypes /\ LocTypes BY Zenon, Types DEF Inv
<1>2. UNCHANGED <<phase, goaway, streamVars, reserved, toStream, locVars>>
  BY Zenon DEF OtherAnswers, OtherAdmits, OtherInserts
<1>3. IsFiniteSet(reqLoc) /\ IsFiniteSet(admitted) /\ admitted \in SUBSET OtherLoops
  BY Zenon, <1>1, StreamsAssumption, LoopsAssumption, FS_Subset DEF LocTypes, RestTypes
<1>4. /\ Cardinality(reqLoc) \in Nat /\ Cardinality(admitted) \in Nat
      /\ Cardinality(OtherLoops) \in Nat /\ others \in Nat
      /\ Cardinality(reqLoc) + others + Cardinality(admitted) <= MaxInFlight + Cardinality(OtherLoops)
      /\ MaxInFlight \in Nat
  BY Zenon, <1>1, <1>3, LoopsAssumption, SizesAssumption, FS_CardinalityType DEF Inv, InFlightBudget, RestTypes
<1>5. reqLoc' = reqLoc BY Zenon, <1>2 DEF locVars
<1>6. CASE OtherAnswers
  <2>1. RestTypes' BY SMTT(30), <1>1, <1>2, <1>6 DEF OtherAnswers, RestTypes
  <2>2. InFlightBudget' BY <1>4, <1>5, <1>6 DEF OtherAnswers, InFlightBudget
  <2> QED BY Zenon, <1>2, <2>1, <2>2, QuietStep
<1>7. ASSUME NEW l \in OtherLoops, OtherAdmits(l) PROVE Inv'
  <2>1. RestTypes' BY Zenon, <1>1, <1>2, <1>7 DEF OtherAdmits, RestTypes
  <2>2. admitted \cup {l} \in SUBSET OtherLoops BY Zenon, <1>3
  <2>3. Cardinality(admitted \cup {l}) <= Cardinality(OtherLoops) /\ Cardinality(admitted \cup {l}) \in Nat
    BY Zenon, <2>2, LoopsAssumption, FS_Subset, FS_CardinalityType
  <2>4. Cardinality(reqLoc) + others < MaxInFlight BY SMTT(30), <1>4, <1>7 DEF OtherAdmits, OverBudget
  <2>5. InFlightBudget' BY SMTT(30), <1>4, <1>5, <1>7, <2>3, <2>4 DEF OtherAdmits, InFlightBudget
  <2> QED BY Zenon, <1>2, <2>1, <2>5, QuietStep
<1>8. ASSUME NEW l \in OtherLoops, OtherInserts(l) PROVE Inv'
  <2>1. RestTypes' BY <1>1, <1>2, <1>8 DEF OtherInserts, RestTypes
  <2>2. Cardinality(admitted \ {l}) = Cardinality(admitted) - 1
    BY Zenon, <1>3, <1>8, FS_RemoveElement DEF OtherInserts
  <2>3. InFlightBudget' BY SMTT(30), <1>4, <1>5, <1>8, <2>2 DEF OtherInserts, InFlightBudget
  <2> QED BY Zenon, <1>2, <2>1, <2>3, QuietStep
<1> QED BY Zenon, <1>6, <1>7, <1>8

-----------------------------------------------------------------------------
(* The theorems.                                                           *)

\* A new session is in order.
LEMMA Start == ASSUME Init PROVE Inv
<1>1. 0 \in 0 .. Budget /\ 0 \in 0 .. MaxBody BY SizesAssumption
<1>2. StreamTypes BY <1>1 DEF Init, StreamTypes
<1>3. LocTypes /\ RestTypes
  <2>1. <<>> \in Seq(Streams) OBVIOUS
  <2>2. \A s \in Streams : {} \in SUBSET {"timeout", "disconnect"} BY Zenon
  <2> QED BY Zenon, <2>1, <2>2 DEF Init, LocTypes, RestTypes
<1>4. ASSUME NEW s \in Streams PROVE Stream(s)
  <2>1. /\ Of(s).stage = "none" /\ Of(s).rejected = FALSE /\ Of(s).body = 0 /\ Of(s).reserve = 0
        /\ Of(s).answers = <<>> /\ answers[s] = <<>>
    BY Zenon DEF Init, Of
  <2>2. queue = <<>> /\ handler[s] = "none" /\ told[s] = {} /\ s \notin reqLoc /\ s \notin accum
    BY Zenon DEF Init
  <2>3. ~Waits(s) BY SMTT(30), <2>2 DEF Waits
  <2>4. Buffers(Of(s)) BY <2>1 DEF Buffers
  <2>5. InStep(Of(s), handler[s], Waits(s)) BY Zenon, <2>1, <2>2, <2>3, Appends DEF InStep, ByHandler
  <2>6. Located(handler[s], s \in reqLoc, s \in accum, told[s]) BY Zenon, <2>2 DEF Located
  <2> QED BY Zenon, <2>1, <2>4, <2>5, <2>6 DEF Stream
<1>5. Routed /\ QueuedOnce BY DEF Init, Routed, QueuedOnce
<1>6. reserved = SumFunction(reserve)
  <2>1. reserve \in [Streams -> Nat] /\ (\A s \in Streams : reserve[s] = 0) /\ reserved = 0 BY Zenon DEF Init
  <2> QED BY Zenon, <2>1, StreamsAssumption, SumNat
<1>7. InFlightBudget
  <2>1. Cardinality({}) = 0 /\ Cardinality(OtherLoops) \in Nat
    BY Zenon, FS_EmptySet, LoopsAssumption, FS_CardinalityType
  <2>2. reqLoc = {} /\ others = 0 /\ admitted = {} BY Zenon DEF Init
  <2> QED BY <2>1, <2>2, SizesAssumption DEF InFlightBudget
<1> QED BY ZenonT(60), <1>2, <1>3, <1>4, <1>5, <1>6, <1>7, Types DEF Inv

\* Every step keeps it so.
LEMMA Step == ASSUME Inv, [Next]_vars PROVE Inv'
<1>1. ASSUME NEW s \in Streams, OnBeginHeaders(s) PROVE Inv' BY Zenon, <1>1, BeginStep
<1>2. ASSUME NEW s \in Streams, OnHeader(s) PROVE Inv' BY Zenon, <1>2, HeaderStep
<1>3. ASSUME NEW s \in Streams, EndsHeaders(s) PROVE Inv' BY Zenon, <1>3, HeadersStep DEF EndsHeaders
<1>4. ASSUME NEW s \in Streams, NEW n \in 0 .. 1, NEW e \in BOOLEAN, OnData(s, n, e) PROVE Inv'
  BY Zenon, <1>4, DataStep
<1>5. ASSUME NEW s \in Streams, OnWindowUpdate(s) PROVE Inv' BY Zenon, <1>5, WindowStep
<1>6. ASSUME NEW s \in Streams, OnReset(s) PROVE Inv' BY Zenon, <1>6, ResetStep
<1>7. ASSUME NEW s \in Streams, Respond(s) PROVE Inv' BY Zenon, <1>7, RespondStep
<1>8. ASSUME NEW s \in Streams, StartStream(s) PROVE Inv' BY Zenon, <1>8, LookUpStep DEF StartStream
<1>9. ASSUME NEW s \in Streams, OpenAccum(s) PROVE Inv' BY Zenon, <1>9, OpenStep
<1>10. ASSUME NEW s \in Streams, SendStreamChunk(s) PROVE Inv' BY Zenon, <1>10, LookUpStep DEF SendStreamChunk
<1>11. ASSUME NEW s \in Streams, FlushAccum(s) PROVE Inv' BY Zenon, <1>11, FlushStep
<1>12. ASSUME NEW s \in Streams, SweepDeadline(s) PROVE Inv' BY Zenon, <1>12, DeadlineStep
<1>13. ASSUME NEW s \in Streams, SweepStall(s) PROVE Inv' BY Zenon, <1>13, StallStep
<1>14. CASE OnAsync BY Zenon, <1>14, AsyncStep
<1>15. CASE Lost \/ GoAway \/ SweepIdle BY Zenon, <1>15, ConnStep
<1>16. CASE OnCloseConn BY Zenon, <1>16, CloseStep
<1>17. CASE OtherAnswers \/ \E l \in OtherLoops : OtherAdmits(l) \/ OtherInserts(l)
  BY Zenon, <1>17, OthersStep
<1>18. CASE UNCHANGED vars
  <2>1. UNCHANGED <<phase, goaway, streamVars, reserved, toStream, locVars, otherVars>> BY Zenon, <1>18 DEF vars
  <2>2. RestTypes' BY Zenon, <2>1, Types DEF Inv, RestTypes, otherVars
  <2>3. InFlightBudget' BY Zenon, <2>1 DEF Inv, InFlightBudget, locVars, otherVars
  <2> QED BY Zenon, <2>1, <2>2, <2>3, QuietStep
<1> QED BY ZenonT(60), <1>1, <1>2, <1>3, <1>4, <1>5, <1>6, <1>7, <1>8, <1>9, <1>10, <1>11, <1>12, <1>13, <1>14,
           <1>15, <1>16, <1>17, <1>18 DEF Next, Handles, Sweeps

\* The invariant, always.
THEOREM Invariance == Spec => []Inv
BY Start, Step, PTL DEF Spec

\* However the frames of a session, the handlers of its streams, the sweeps
\* and the other loops interleave: what is reserved is the sum of what the
\* streams reserved, within the budget, and no stream holds more than its
\* part; reqLoc_ holds exactly the requests whose handler still has to answer;
\* and the requests in flight exceed their budget by at most one for each
\* other loop.
THEOREM BudgetsAlwaysHold == Spec => []BudgetsHold
<1>1. ASSUME Inv PROVE BudgetsHold
  <2>1. StreamTypes /\ LocTypes BY Zenon, <1>1, Types DEF Inv
  <2>2. BodyBudget
    <3>1. ASSUME NEW s \in Streams PROVE body[s] <= reserve[s]
      <4>1. Buffers(Of(s)) /\ Of(s).body = body[s] /\ Of(s).reserve = reserve[s] BY Zenon, <1>1, StreamFacts
      <4> QED BY Zenon, <4>1 DEF Buffers
    <3>2. reserved <= Budget BY <2>1, SizesAssumption DEF StreamTypes
    <3> QED BY Zenon, <1>1, <3>1, <3>2 DEF Inv, BodyBudget
  <2>3. InFlightIsExact
    <3>1. ASSUME NEW s \in Streams
          PROVE /\ s \in reqLoc <=> handler[s] \notin {"none", "done"} /\ told[s] = {}
                /\ s \in accum => s \in reqLoc \/ told[s] # {}
      BY Zenon, <1>1, StreamFacts DEF Located
    <3>2. accum \subseteq Streams BY Zenon, <2>1 DEF LocTypes
    <3> QED BY Zenon, <3>1, <3>2 DEF InFlightIsExact
  <2> QED BY Zenon, <1>1, <2>2, <2>3 DEF Inv, BudgetsHold
<1> QED BY <1>1, Invariance, PTL

\* No handler's answer follows the engine's on a stream, no stream gets two of
\* either, and no handler works on unaware that its stream was answered.
THEOREM HandlersStayInStep == Spec => []HandlersInStep
<1>1. ASSUME Inv PROVE HandlersInStep
  <2>1. ASSUME NEW s \in Streams
        PROVE /\ answers[s] \in {<<>>, <<"engine">>} \cup ByHandler
              /\ answers[s] # <<>> /\ handler[s] \notin {"none", "done"} => told[s] # {}
    BY Zenon, <1>1, StreamFacts DEF InStep
  <2> QED BY Zenon, <2>1 DEF HandlersInStep, HandlerAnswersFirst, NoHandlerUnaware, ByHandler
<1> QED BY <1>1, Invariance, PTL
=============================================================================

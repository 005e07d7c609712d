---------------------------- MODULE OpenAIStreamProofs ----------------------------
(***************************************************************************)
(* What OpenAIStream guarantees for any deltas and any number of them: the *)
(* events of each message form a sequence of blocks, all that was said is  *)
(* relayed in order, and a message that ended is complete.                 *)
(*                                                                         *)
(* A translation works on a state t = [st, out] and the pieces g given so  *)
(* far.  The invariant is kept by each event that is emitted (Appended),   *)
(* then by each operator that emits events, by induction over the          *)
(* fragments of a delta, and at last by the steps.                         *)
(***************************************************************************)
EXTENDS OpenAIStream, SequenceLemmas

\* The arithmetic of the block numbers.
LEMMA Numbering ==
  /\ \A n \in Nat : /\ n - 0 = n /\ (n + 1) - 1 = n /\ (n - 1) + 1 = n
                    /\ n < n + 1
                    /\ n + 1 \in Nat /\ n \in Int
  /\ \A m, n \in Nat : m < n => m < n + 1 /\ m # n
  OBVIOUS

\* An element more at the end of a sequence.
LEMMA OneMore ==
  ASSUME NEW S, NEW q \in Seq(S), NEW x \in S
  PROVE  Append(q, x) \in Seq(S) /\ q \o <<x>> = Append(q, x)
  OBVIOUS

\* The positions of a sequence that has one element more.
LEMMA Positions ==
  ASSUME NEW n \in Nat
  PROVE  /\ n + 1 \in 1..(n + 1) /\ \A m \in 1..n : m \in 1..(n + 1)
         /\ n > 0 => n \in 1..n /\ n \in 1..(n + 1)
         /\ n < n + 1 /\ n + 1 > 0
  OBVIOUS

--------------------------------------------------------------------------------
(* One more event.                                                           *)

Emitted == [kind : Kinds, index : Int, type : Types \cup Reasons, event : Nat, call : Int]
Piece == [type : Types, event : Nat, call : Int, worded : BOOLEAN]

\* The events of the message in progress.
Live(o) == {m \in 1..Len(o) : \A k \in m..Len(o) : o[k].kind # "message_stop"}
Num(o, kind) == Cardinality({m \in Live(o) : o[m].kind = kind})

\* Each kind of event is counted by a number.
LEMMA NumIsNat ==
  ASSUME NEW o \in Seq(Emitted), NEW kind
  PROVE  Num(o, kind) \in Nat /\ IsFiniteSet({m \in Live(o) : o[m].kind = kind})
<1>1. IsFiniteSet(1..Len(o)) /\ {m \in Live(o) : o[m].kind = kind} \subseteq 1..Len(o)
  BY FS_Interval DEF Live
<1> QED
  BY <1>1, FS_Subset, FS_CardinalityType DEF Num

\* What is counted up to an event looks at nothing after it.
LEMMA PrefixKept ==
  ASSUME NEW o \in Seq(Emitted), NEW e \in Emitted, NEW p, p = Append(o, e)
  PROVE  /\ p \in Seq(Emitted) /\ Len(p) = Len(o) + 1 /\ p[Len(o) + 1] = e
         /\ \A n \in 1..Len(o) : p[n] = o[n]
         /\ \A m, n \in 1..Len(o) : SameMessage(p, m, n) <=> SameMessage(o, m, n)
         /\ \A n \in 1..Len(o) : \A kind \in Kinds : Count(p, kind, n) = Count(o, kind, n)
<1>1. /\ p \in Seq(Emitted) /\ Len(p) = Len(o) + 1 /\ p[Len(o) + 1] = e
      /\ \A n \in 1..Len(o) : p[n] = o[n]
  OBVIOUS
<1>2. ASSUME NEW m \in 1..Len(o), NEW n \in 1..Len(o)
      PROVE  SameMessage(p, m, n) <=> SameMessage(o, m, n)
  <2>1. (m..(n - 1)) \cup (n..(m - 1)) \subseteq 1..Len(o)
    OBVIOUS
  <2> QED
    BY <1>1, <2>1 DEF SameMessage
<1>3. ASSUME NEW n \in 1..Len(o), NEW kind \in Kinds PROVE Count(p, kind, n) = Count(o, kind, n)
  <2>1. \A m \in 1..n : m \in 1..Len(o)
    OBVIOUS
  <2>2. {m \in 1..n : p[m].kind = kind /\ SameMessage(p, m, n)}
          = {m \in 1..n : o[m].kind = kind /\ SameMessage(o, m, n)}
    BY <1>1, <1>2, <2>1
  <2> QED
    BY <2>2 DEF Count
<1> QED
  BY <1>1, <1>2, <1>3

\* The new event is of the message in progress; unless it ends that message, the
\* message goes on with it.
LEMMA LiveAppended ==
  ASSUME NEW o \in Seq(Emitted), NEW e \in Emitted, NEW p, p = Append(o, e)
  PROVE  /\ \A m \in 1..Len(o) : /\ SameMessage(p, m, Len(p)) <=> m \in Live(o)
                                 /\ SameMessage(p, Len(p), m) <=> m \in Live(o)
         /\ SameMessage(p, Len(p), Len(p))
         /\ e.kind # "message_stop" => Live(p) = Live(o) \cup {Len(p)}
         /\ e.kind = "message_stop" => Live(p) = {}
<1> DEFINE L == Len(o)
<1>1. /\ L \in Nat /\ p \in Seq(Emitted) /\ Len(p) = L + 1 /\ p[L + 1] = e
      /\ \A n \in 1..L : p[n] = o[n]
  BY PrefixKept
<1>2. \A m \in 1..L : m..L \subseteq 1..L
  OBVIOUS
<1>3. ASSUME NEW m \in 1..L
      PROVE  /\ SameMessage(p, m, L + 1) <=> m \in Live(o)
             /\ SameMessage(p, L + 1, m) <=> m \in Live(o)
  <2>1. (L + 1)..(m - 1) = {} /\ (L + 1) - 1 = L
    BY <1>1
  <2>2. \A k \in m..L : p[k] = o[k]
    BY <1>1, <1>2
  <2> QED
    BY <2>1, <2>2 DEF SameMessage, Live
<1>4. SameMessage(p, L + 1, L + 1)
  BY <1>1 DEF SameMessage
<1>5. ASSUME e.kind = "message_stop" PROVE Live(p) = {}
  BY <1>1, <1>5 DEF Live
<1>6. ASSUME e.kind # "message_stop" PROVE Live(p) = Live(o) \cup {L + 1}
  <2>1. ASSUME NEW m \in 1..L PROVE m \in Live(p) <=> m \in Live(o)
    <3>1. m..(L + 1) = (m..L) \cup {L + 1}
      BY <1>1
    <3>2. \A k \in m..L : p[k] = o[k]
      BY <1>1, <1>2
    <3> QED
      BY <1>1, <1>6, <3>1, <3>2 DEF Live
  <2>2. L + 1 \in Live(p)
    BY <1>1, <1>6 DEF Live
  <2>3. Live(p) \subseteq (1..L) \cup {L + 1} /\ Live(o) \subseteq 1..L
    BY <1>1 DEF Live
  <2> QED
    BY <2>1, <2>2, <2>3
<1> QED
  BY <1>1, <1>3, <1>4, <1>5, <1>6

\* How the new event changes the counts.
One(e, kind) == IF e.kind = kind THEN 1 ELSE 0

\* How many, after one more.
LEMMA NumAppended ==
  ASSUME NEW o \in Seq(Emitted), NEW e \in Emitted, NEW p, p = Append(o, e), NEW kind
  PROVE  /\ Count(p, kind, Len(p)) = Num(o, kind) + One(e, kind)
         /\ e.kind # "message_stop" => Num(p, kind) = Num(o, kind) + One(e, kind)
         /\ e.kind = "message_stop" => Num(p, kind) = 0
<1> DEFINE L == Len(o)
           old == {m \in Live(o) : o[m].kind = kind}
           new == IF e.kind = kind THEN {L + 1} ELSE {}
<1>1. /\ L \in Nat /\ Len(p) = L + 1 /\ p[L + 1] = e /\ \A n \in 1..L : p[n] = o[n]
      /\ Live(o) \subseteq 1..L
  BY PrefixKept DEF Live
<1>2. /\ Num(o, kind) \in Nat /\ IsFiniteSet(old) /\ L + 1 \notin old
      /\ Num(o, kind) = Cardinality(old)
  <2>1. Num(o, kind) \in Nat /\ IsFiniteSet(old)
    BY NumIsNat
  <2>2. L + 1 \notin old
    BY <1>1
  <2>3. Num(o, kind) = Cardinality(old)
    BY DEF Num
  <2> QED
    BY <2>1, <2>2, <2>3
<1>3. Cardinality(old \cup new) = Num(o, kind) + One(e, kind)
  <2> HIDE DEF old
  <2>1. CASE e.kind = kind
    BY <1>2, <2>1, FS_AddElement DEF One
  <2>2. CASE e.kind # kind
    <3>1. old \cup new = old
      BY <2>2
    <3> QED
      BY <1>2, <2>2, <3>1 DEF One
  <2> QED
    BY <2>1, <2>2
<1>4. {m \in 1..(L + 1) : p[m].kind = kind /\ SameMessage(p, m, L + 1)} = old \cup new
  <2>1. \A m \in 1..L : SameMessage(p, m, Len(p)) <=> m \in Live(o)
    BY LiveAppended
  <2>2. SameMessage(p, Len(p), Len(p))
    BY LiveAppended
  <2>3. 1..(L + 1) = (1..L) \cup {L + 1}
    BY <1>1
  <2> QED
    BY <1>1, <2>1, <2>2, <2>3
<1>5. ASSUME e.kind # "message_stop"
      PROVE  {m \in Live(p) : p[m].kind = kind} = old \cup new
  <2>1. Live(p) = Live(o) \cup {Len(p)}
    BY <1>5, LiveAppended
  <2> QED
    BY <1>1, <2>1
<1>6. e.kind = "message_stop" => {m \in Live(p) : p[m].kind = kind} = {}
  <2>1. e.kind = "message_stop" => Live(p) = {}
    BY LiveAppended
  <2> QED
    BY <2>1
<1>7. Count(p, kind, Len(p)) = Num(o, kind) + One(e, kind)
  BY <1>1, <1>3, <1>4 DEF Count
<1>8. e.kind # "message_stop" => Num(p, kind) = Num(o, kind) + One(e, kind)
  BY <1>3, <1>5 DEF Num
<1>9. e.kind = "message_stop" => Num(p, kind) = 0
  BY <1>6, FS_EmptySet DEF Num
<1> QED
  BY <1>7, <1>8, <1>9

\* The pieces h are those of g and w.
More(g, w, h) ==
  /\ Len(g) \in Nat /\ Len(h) = Len(g) + 1 /\ h[Len(g) + 1] = w
  /\ \A m \in 1..Len(g) : h[m] = g[m]

\* What Append does to the pieces, without its definition.
LEMMA PieceAppended ==
  ASSUME NEW g \in Seq(Piece), NEW w \in Piece PROVE More(g, w, Append(g, w))
  BY DEF More

\* More pieces are given than before.
Extends(g, h) == Len(g) <= Len(h) /\ \A i \in 1..Len(g) : h[i] = g[i]

\* Nothing more is given.
LEMMA ExtendsItself == ASSUME NEW g \in Seq(Piece) PROVE Extends(g, g)
  BY DEF Extends

\* One piece more is given.
LEMMA ExtendsMore ==
  ASSUME NEW g \in Seq(Piece), NEW w \in Piece PROVE Extends(g, Append(g, w))
  BY DEF Extends

\* What is right of an event remains so.
EventRight(o, g, n) == InSequence(o, n) /\ InItsBlock(o, g, n) /\ Complete(o, n)

\* Events that were relayed stay.
LEMMA EventsKept ==
  ASSUME NEW o \in Seq(Emitted), NEW e \in Emitted, NEW p, p = Append(o, e),
         NEW g \in Seq(Piece), NEW h \in Seq(Piece), Extends(g, h),
         \A n \in 1..Len(o) : EventRight(o, g, n),
         \A m, n \in 1..Len(o) : CallsKeepBlocks(o, m, n)
  PROVE  /\ \A n \in 1..Len(o) : EventRight(p, h, n)
         /\ \A m, n \in 1..Len(o) : CallsKeepBlocks(p, m, n)
<1>1. /\ \A n \in 1..Len(o) : p[n] = o[n]
      /\ \A m, n \in 1..Len(o) : SameMessage(p, m, n) <=> SameMessage(o, m, n)
      /\ \A n \in 1..Len(o) : \A kind \in Kinds : Count(p, kind, n) = Count(o, kind, n)
  <2>1. \A n \in 1..Len(o) : p[n] = o[n]
    BY PrefixKept
  <2>2. \A m, n \in 1..Len(o) : SameMessage(p, m, n) <=> SameMessage(o, m, n)
    BY PrefixKept
  <2>3. \A n \in 1..Len(o) : \A kind \in Kinds : Count(p, kind, n) = Count(o, kind, n)
    BY PrefixKept, ZenonT(60)
  <2> QED
    BY <2>1, <2>2, <2>3
<1>2. \A call : TakenUpAgain(g, call) => TakenUpAgain(h, call)
  <2>1. Len(g) \in Nat /\ Len(h) \in Nat
    OBVIOUS
  <2> QED
    BY <2>1 DEF Extends, TakenUpAgain
<1>3. ASSUME NEW n \in 1..Len(o) PROVE EventRight(p, h, n)
  <2>1. EventRight(o, g, n) /\ \A m \in 1..n : m \in 1..Len(o)
    OBVIOUS
  <2>2. InSequence(p, n)
    BY <1>1, <2>1 DEF EventRight, InSequence, Kinds
  <2>3. InItsBlock(p, h, n)
    BY <1>1, <1>2, <2>1 DEF EventRight, InItsBlock, InOpenBlock, Kinds
  <2>4. Complete(p, n)
    <3>1. n > 1 => n - 1 \in 1..Len(o)
      OBVIOUS
    <3> QED
      BY <1>1, <2>1, <3>1 DEF EventRight, Complete, Kinds
  <2> QED
    BY <2>2, <2>3, <2>4 DEF EventRight
<1>4. ASSUME NEW m \in 1..Len(o), NEW n \in 1..Len(o) PROVE CallsKeepBlocks(p, m, n)
  <2>1. p[m] = o[m] /\ p[n] = o[n] /\ (SameMessage(p, m, n) <=> SameMessage(o, m, n))
    BY <1>1
  <2>2. CallsKeepBlocks(o, m, n)
    OBVIOUS
  <2> QED
    BY <2>1, <2>2 DEF CallsKeepBlocks
<1> QED
  BY <1>3, <1>4

\* What a new event depends on: the blocks the message in progress has started, each
\* with its type, and the calls whose fragments it sent, each with its block.
Starts(o) == {<<o[m].index, o[m].type>> : m \in {l \in Live(o) : o[l].kind = "start"}}
IsFragment(e) == e.kind = "delta" /\ e.type = "tool"
Fragments(o) == {<<o[m].call, o[m].index>> : m \in {l \in Live(o) : IsFragment(o[l])}}

Started(e) == IF e.kind = "start" THEN {<<e.index, e.type>>} ELSE {}
Fragmented(e) == IF IsFragment(e) THEN {<<e.call, e.index>>} ELSE {}

\* How the new event changes the sets of blocks and of fragments.
LEMMA SetsAppended ==
  ASSUME NEW o \in Seq(Emitted), NEW e \in Emitted, NEW p, p = Append(o, e)
  PROVE  /\ e.kind # "message_stop" => /\ Starts(p) = Starts(o) \cup Started(e)
                                       /\ Fragments(p) = Fragments(o) \cup Fragmented(e)
         /\ e.kind = "message_stop" => Starts(p) = {} /\ Fragments(p) = {}
<1>1. /\ Len(o) \in Nat /\ Len(p) = Len(o) + 1 /\ p[Len(p)] = e
      /\ \A n \in Live(o) : p[n] = o[n] /\ n # Len(p)
  BY PrefixKept DEF Live
<1>2. ASSUME e.kind # "message_stop" PROVE Live(p) = Live(o) \cup {Len(p)}
  BY <1>2, LiveAppended
<1>3. ASSUME e.kind # "message_stop" PROVE Starts(p) = Starts(o) \cup Started(e)
  <2>1. \A x : x \in Starts(p) <=> \E m \in Live(p) : p[m].kind = "start" /\ x = <<p[m].index, p[m].type>>
    BY DEF Starts
  <2>2. \A x : x \in Starts(o) <=> \E m \in Live(o) : o[m].kind = "start" /\ x = <<o[m].index, o[m].type>>
    BY DEF Starts
  <2>3. \A x : x \in Started(e) <=> e.kind = "start" /\ x = <<e.index, e.type>>
    BY DEF Started
  <2>4. \A x : x \in Starts(p) <=> x \in Starts(o) \/ x \in Started(e)
    <3>1. ASSUME NEW x \in Starts(p) PROVE x \in Starts(o) \/ x \in Started(e)
      <4>1. PICK m \in Live(p) : p[m].kind = "start" /\ x = <<p[m].index, p[m].type>>
        BY <2>1
      <4>2. CASE m \in Live(o)
        BY <1>1, <2>2, <4>1, <4>2
      <4>3. CASE m = Len(p)
        BY <1>1, <2>3, <4>1, <4>3
      <4> QED
        BY <1>2, <1>3, <4>2, <4>3
    <3>2. ASSUME NEW x \in Starts(o) PROVE x \in Starts(p)
      <4>1. PICK m \in Live(o) : o[m].kind = "start" /\ x = <<o[m].index, o[m].type>>
        BY <2>2
      <4>2. m \in Live(p)
        BY <1>2, <1>3
      <4> QED
        BY <1>1, <2>1, <4>1, <4>2
    <3>3. Len(p) \in Live(p)
      BY <1>2, <1>3
    <3>4. \A x \in Started(e) : x \in Starts(p)
      BY <1>1, <2>1, <2>3, <3>3
    <3> QED
      BY <3>1, <3>2, <3>4
  <2> QED
    BY <2>4
<1>4. ASSUME e.kind # "message_stop" PROVE Fragments(p) = Fragments(o) \cup Fragmented(e)
  <2>1. \A x : x \in Fragments(p) <=> \E m \in Live(p) : IsFragment(p[m]) /\ x = <<p[m].call, p[m].index>>
    BY DEF Fragments
  <2>2. \A x : x \in Fragments(o) <=> \E m \in Live(o) : IsFragment(o[m]) /\ x = <<o[m].call, o[m].index>>
    BY DEF Fragments
  <2>3. \A x : x \in Fragmented(e) <=> IsFragment(e) /\ x = <<e.call, e.index>>
    BY DEF Fragmented
  <2>4. \A x : x \in Fragments(p) <=> x \in Fragments(o) \/ x \in Fragmented(e)
    <3>1. ASSUME NEW x \in Fragments(p) PROVE x \in Fragments(o) \/ x \in Fragmented(e)
      <4>1. PICK m \in Live(p) : IsFragment(p[m]) /\ x = <<p[m].call, p[m].index>>
        BY <2>1
      <4>2. CASE m \in Live(o)
        BY <1>1, <2>2, <4>1, <4>2
      <4>3. CASE m = Len(p)
        BY <1>1, <2>3, <4>1, <4>3
      <4> QED
        BY <1>2, <1>4, <4>2, <4>3
    <3>2. ASSUME NEW x \in Fragments(o) PROVE x \in Fragments(p)
      <4>1. PICK m \in Live(o) : IsFragment(o[m]) /\ x = <<o[m].call, o[m].index>>
        BY <2>2
      <4>2. m \in Live(p)
        BY <1>2, <1>4
      <4> QED
        BY <1>1, <2>1, <4>1, <4>2
    <3>3. Len(p) \in Live(p)
      BY <1>2, <1>4
    <3>4. \A x \in Fragmented(e) : x \in Fragments(p)
      BY <1>1, <2>1, <2>3, <3>3
    <3> QED
      BY <3>1, <3>2, <3>4
  <2> QED
    BY <2>4
<1>5. ASSUME e.kind = "message_stop" PROVE Starts(p) = {} /\ Fragments(p) = {}
  <2>1. Live(p) = {}
    BY <1>5, LiveAppended
  <2> QED
    BY <2>1 DEF Starts, Fragments
<1> QED
  BY <1>3, <1>4, <1>5

\* An event that fits what was sent of its message; the pieces given include the one it
\* relays.
Fits(o, g, e) ==
  /\ e.kind = "start" => /\ Num(o, "start") = Num(o, "stop")
                         /\ e.index = Num(o, "stop")
  /\ e.kind = "stop" => /\ Num(o, "start") = Num(o, "stop") + 1
                        /\ e.index = Num(o, "stop")
  /\ e.kind \in {"delta", "signature"} =>
       /\ <<e.index, e.type>> \in Starts(o)
       /\ \/ Num(o, "start") = Num(o, "stop") + 1 /\ e.index = Num(o, "stop")
          \/ e.type = "tool" /\ TakenUpAgain(g, e.call)
  /\ IsFragment(e) => \A f \in Fragments(o) : f[1] = e.call <=> f[2] = e.index
  /\ e.kind = "message_stop" =>
       /\ Num(o, "start") = Num(o, "stop")
       /\ Len(o) > 0 /\ o[Len(o)].kind = "message_delta"

Right(o, g) == /\ \A n \in 1..Len(o) : EventRight(o, g, n)
               /\ \A m, n \in 1..Len(o) : CallsKeepBlocks(o, m, n)

\* The events stay right when one is added that fits them.
LEMMA RightAppended ==
  ASSUME NEW o \in Seq(Emitted), NEW e \in Emitted, NEW p, p = Append(o, e),
         NEW g \in Seq(Piece), NEW h \in Seq(Piece), Extends(g, h),
         Right(o, g), Fits(o, h, e)
  PROVE  Right(p, h)
<1> DEFINE L == Len(o)
<1>1. /\ L \in Nat /\ Len(p) = L + 1 /\ p[L + 1] = e /\ p[Len(p)] = e
      /\ \A n \in 1..L : p[n] = o[n]
  BY PrefixKept
<1>2. /\ \A n \in 1..L : EventRight(p, h, n)
      /\ \A m, n \in 1..L : CallsKeepBlocks(p, m, n)
  BY EventsKept DEF Right
<1>3. /\ Num(o, "start") \in Nat /\ Num(o, "stop") \in Nat
      /\ Count(p, "start", L + 1) = Num(o, "start") + One(e, "start")
      /\ Count(p, "stop", L + 1) = Num(o, "stop") + One(e, "stop")
  <2>1. /\ Count(p, "start", Len(p)) = Num(o, "start") + One(e, "start")
        /\ Count(p, "stop", Len(p)) = Num(o, "stop") + One(e, "stop")
    BY NumAppended, ZenonT(60)
  <2> QED
    BY <1>1, <2>1, NumIsNat
<1>4. /\ \A m \in 1..L : /\ SameMessage(p, m, L + 1) <=> m \in Live(o)
                         /\ SameMessage(p, L + 1, m) <=> m \in Live(o)
      /\ Live(o) \subseteq 1..L
  <2>1. \A m \in 1..L : SameMessage(p, m, Len(p)) <=> m \in Live(o)
    BY LiveAppended
  <2>2. \A m \in 1..L : SameMessage(p, Len(p), m) <=> m \in Live(o)
    BY LiveAppended
  <2> QED
    BY <1>1, <2>1, <2>2 DEF Live
<1>5. InSequence(p, L + 1)
  BY <1>1, <1>3 DEF InSequence, Fits, One
<1>6. InItsBlock(p, h, L + 1)
  <2>1. SUFFICES ASSUME e.kind \in {"delta", "signature"}
                 PROVE  InItsBlock(p, h, L + 1)
    BY <1>1 DEF InItsBlock
  <2>2. PICK m \in Live(o) : /\ o[m].kind = "start" /\ o[m].index = e.index
                             /\ o[m].type = e.type
    BY <2>1 DEF Fits, Starts
  <2>3. /\ m \in 1..(L + 1) /\ p[m] = o[m] /\ SameMessage(p, m, L + 1)
    BY <1>1, <1>4
  <2>4. InOpenBlock(p, L + 1) \/ (e.type = "tool" /\ TakenUpAgain(h, e.call))
    BY <1>1, <1>3, <2>1 DEF Fits, InOpenBlock, One
  <2> QED
    BY <1>1, <2>2, <2>3, <2>4 DEF InItsBlock
<1>7. Complete(p, L + 1)
  BY <1>1, <1>3 DEF Complete, Fits, One
<1>8. ASSUME NEW m \in 1..L
      PROVE  CallsKeepBlocks(p, m, L + 1) /\ CallsKeepBlocks(p, L + 1, m)
  <2>1. SUFFICES ASSUME IsFragment(e), IsFragment(o[m]), m \in Live(o)
                 PROVE  o[m].call = e.call <=> o[m].index = e.index
    BY <1>1, <1>4 DEF CallsKeepBlocks, IsFragment
  <2>2. <<o[m].call, o[m].index>> \in Fragments(o)
    BY <2>1 DEF Fragments
  <2> QED
    BY <2>1, <2>2 DEF Fits
<1>9. CallsKeepBlocks(p, L + 1, L + 1)
  BY DEF CallsKeepBlocks
<1>10. \A n \in 1..Len(p) : n \in 1..L \/ n = L + 1
  BY <1>1
<1> QED
  BY <1>2, <1>5, <1>6, <1>7, <1>8, <1>9, <1>10 DEF Right, EventRight

--------------------------------------------------------------------------------
(* What was sent and what was given.                                         *)

\* A last number leaves the ranks of the others as they were.
LEMMA RankAppended ==
  ASSUME NEW N \in Nat, NEW S \in SUBSET (1..N), NEW T, T = S \cup {N + 1}
  PROVE  /\ Cardinality(S) \in Nat /\ Cardinality(T) = Cardinality(S) + 1
         /\ \A n \in S : Rank(T, n) = Rank(S, n) /\ Rank(S, n) \in 0..Cardinality(S)
         /\ Rank(T, N + 1) = Cardinality(S) + 1
<1>1. IsFiniteSet(S) /\ N + 1 \notin S
  <2>1. IsFiniteSet(1..N)
    BY FS_Interval
  <2>2. S \subseteq 1..N /\ N + 1 \notin S
    OBVIOUS
  <2> QED
    BY <2>1, <2>2, FS_Subset
<1>2. Cardinality(S) \in Nat /\ Cardinality(T) = Cardinality(S) + 1
  BY <1>1, FS_CardinalityType, FS_AddElement
<1>3. ASSUME NEW n \in S
      PROVE  Rank(T, n) = Rank(S, n) /\ Rank(S, n) \in 0..Cardinality(S)
  <2>1. {m \in T : m <= n} = {m \in S : m <= n}
    BY <1>1
  <2>2. {m \in S : m <= n} \subseteq S
    OBVIOUS
  <2>3. /\ Cardinality({m \in S : m <= n}) \in Nat
        /\ Cardinality({m \in S : m <= n}) <= Cardinality(S)
    BY <1>1, <2>2, FS_Subset, FS_CardinalityType
  <2> QED
    BY <1>2, <2>1, <2>3 DEF Rank
<1>4. Rank(T, N + 1) = Cardinality(S) + 1
  <2>1. \A m \in T : m <= N + 1
    OBVIOUS
  <2>2. {m \in T : m <= N + 1} = T
    BY <2>1
  <2> QED
    BY <1>2, <2>2 DEF Rank
<1> QED
  BY <1>2, <1>3, <1>4

\* An event that relays nothing.
LEMMA RelayedSilently ==
  ASSUME NEW o \in Seq(Emitted), NEW e \in Emitted, NEW p, p = Append(o, e),
         NEW g, Relayed(o, g), e.kind # "delta"
  PROVE  Relayed(p, g)
<1>1. /\ Len(o) \in Nat /\ Len(p) = Len(o) + 1 /\ p[Len(p)] = e
      /\ \A n \in 1..Len(o) : p[n] = o[n]
  BY PrefixKept
<1>2. Sent(p) = Sent(o)
  BY <1>1 DEF Sent
<1>3. \A n \in Sent(o) : p[n] = o[n]
  BY <1>1 DEF Sent
<1>4. ASSUME NEW n \in Sent(p), NEW k \in Worded(g),
             Rank(Sent(p), n) = Rank(Worded(g), k)
      PROVE  p[n].type = g[k].type /\ p[n].event = g[k].event /\ p[n].call = g[k].call
  <2>1. n \in Sent(o) /\ Rank(Sent(o), n) = Rank(Worded(g), k) /\ p[n] = o[n]
    BY <1>2, <1>3, <1>4
  <2> QED
    BY <2>1 DEF Relayed
<1>5. Cardinality(Sent(p)) = Cardinality(Worded(g))
  BY <1>2 DEF Relayed
<1> QED
  BY <1>4, <1>5 DEF Relayed

\* A piece that has nothing to relay.
LEMMA RelayedWithout ==
  ASSUME NEW o, NEW g \in Seq(Piece), NEW w \in Piece, NEW h, h = Append(g, w),
         Relayed(o, g), ~w.worded
  PROVE  Relayed(o, h)
<1>1. /\ Len(g) \in Nat /\ Len(h) = Len(g) + 1 /\ h[Len(h)] = w
      /\ \A n \in 1..Len(g) : h[n] = g[n]
  OBVIOUS
<1>2. Worded(h) = Worded(g)
  BY <1>1 DEF Worded
<1>3. \A n \in Worded(g) : h[n] = g[n]
  BY <1>1 DEF Worded
<1>4. ASSUME NEW n \in Sent(o), NEW k \in Worded(h),
             Rank(Sent(o), n) = Rank(Worded(h), k)
      PROVE  o[n].type = h[k].type /\ o[n].event = h[k].event /\ o[n].call = h[k].call
  <2>1. k \in Worded(g) /\ Rank(Sent(o), n) = Rank(Worded(g), k) /\ h[k] = g[k]
    BY <1>2, <1>3, <1>4
  <2> QED
    BY <2>1 DEF Relayed
<1>5. Cardinality(Sent(o)) = Cardinality(Worded(h))
  BY <1>2 DEF Relayed
<1> QED
  BY <1>4, <1>5 DEF Relayed

\* An event that relays the last piece.
LEMMA RelayedMore ==
  ASSUME NEW o \in Seq(Emitted), NEW e \in Emitted, NEW p, p = Append(o, e),
         NEW g \in Seq(Piece), NEW w \in Piece, NEW h, h = Append(g, w),
         Relayed(o, g), e.kind = "delta", w.worded,
         e.type = w.type, e.event = w.event, e.call = w.call
  PROVE  Relayed(p, h)
<1>1. /\ Len(o) \in Nat /\ Len(p) = Len(o) + 1 /\ p[Len(o) + 1] = e
      /\ \A n \in 1..Len(o) : p[n] = o[n]
  BY PrefixKept
<1>2. /\ Len(g) \in Nat /\ Len(h) = Len(g) + 1 /\ h[Len(g) + 1] = w
      /\ \A n \in 1..Len(g) : h[n] = g[n]
  OBVIOUS
<1>3. /\ Sent(o) \in SUBSET (1..Len(o)) /\ Sent(p) = Sent(o) \cup {Len(o) + 1}
      /\ \A n \in Sent(o) : p[n] = o[n]
  BY <1>1 DEF Sent
<1>4. /\ Worded(g) \in SUBSET (1..Len(g)) /\ Worded(h) = Worded(g) \cup {Len(g) + 1}
      /\ \A n \in Worded(g) : h[n] = g[n]
  BY <1>2 DEF Worded
<1> DEFINE C == Cardinality(Sent(o))
<1>5. /\ C \in Nat /\ Cardinality(Sent(p)) = C + 1
      /\ \A n \in Sent(o) : Rank(Sent(p), n) = Rank(Sent(o), n) /\ Rank(Sent(o), n) \in 0..C
      /\ Rank(Sent(p), Len(o) + 1) = C + 1
  BY <1>1, <1>3, RankAppended
<1>6. /\ Cardinality(Worded(g)) = C /\ Cardinality(Worded(h)) = C + 1
      /\ \A n \in Worded(g) : /\ Rank(Worded(h), n) = Rank(Worded(g), n)
                              /\ Rank(Worded(g), n) \in 0..C
      /\ Rank(Worded(h), Len(g) + 1) = C + 1
  <2>1. Cardinality(Worded(g)) = C
    BY DEF Relayed
  <2>2. /\ Cardinality(Worded(h)) = Cardinality(Worded(g)) + 1
        /\ \A n \in Worded(g) : /\ Rank(Worded(h), n) = Rank(Worded(g), n)
                                /\ Rank(Worded(g), n) \in 0..Cardinality(Worded(g))
        /\ Rank(Worded(h), Len(g) + 1) = Cardinality(Worded(g)) + 1
    BY <1>2, <1>4, RankAppended, ZenonT(60)
  <2> QED
    BY <2>1, <2>2
<1> HIDE DEF C
<1>7. ASSUME NEW n \in Sent(p), NEW k \in Worded(h),
             Rank(Sent(p), n) = Rank(Worded(h), k)
      PROVE  p[n].type = h[k].type /\ p[n].event = h[k].event /\ p[n].call = h[k].call
  <2>1. CASE n = Len(o) + 1 /\ k = Len(g) + 1
    BY <1>1, <1>2, <2>1
  <2>2. CASE n \in Sent(o) /\ k \in Worded(g)
    BY <1>3, <1>4, <1>5, <1>6, <1>7, <2>2 DEF Relayed
  <2>3. ~(n = Len(o) + 1 /\ k \in Worded(g)) /\ ~(n \in Sent(o) /\ k = Len(g) + 1)
    BY <1>5, <1>6, <1>7
  <2> QED
    BY <1>3, <1>4, <2>1, <2>2, <2>3
<1> QED
  BY <1>5, <1>6, <1>7 DEF Relayed

\* What each kind of event adds to the counts.
LEMMA CountsAfter ==
  ASSUME NEW o \in Seq(Emitted), NEW e \in Emitted, NEW p, p = Append(o, e),
         e.kind # "message_stop"
  PROVE  /\ p \in Seq(Emitted)
         /\ Num(o, "start") \in Nat /\ Num(o, "stop") \in Nat
         /\ e.kind = "start" =>
              /\ Num(p, "start") = Num(o, "start") + 1 /\ Num(p, "stop") = Num(o, "stop")
              /\ Starts(p) = Starts(o) \cup {<<e.index, e.type>>}
              /\ Fragments(p) = Fragments(o)
         /\ e.kind = "stop" =>
              /\ Num(p, "start") = Num(o, "start") /\ Num(p, "stop") = Num(o, "stop") + 1
              /\ Starts(p) = Starts(o) /\ Fragments(p) = Fragments(o)
         /\ e.kind \notin {"start", "stop"} =>
              /\ Num(p, "start") = Num(o, "start") /\ Num(p, "stop") = Num(o, "stop")
              /\ Starts(p) = Starts(o) /\ Fragments(p) = Fragments(o) \cup Fragmented(e)
<1>1. p \in Seq(Emitted) /\ Num(o, "start") \in Nat /\ Num(o, "stop") \in Nat
  BY PrefixKept, NumIsNat
<1>2. Num(p, "start") = Num(o, "start") + One(e, "start")
  BY NumAppended
<1>3. Num(p, "stop") = Num(o, "stop") + One(e, "stop")
  BY NumAppended
<1>4. /\ Starts(p) = Starts(o) \cup Started(e)
      /\ Fragments(p) = Fragments(o) \cup Fragmented(e)
  BY SetsAppended
<1>5. CASE e.kind = "start"
  BY <1>1, <1>2, <1>3, <1>4, <1>5 DEF One, Started, Fragmented, IsFragment
<1>6. CASE e.kind = "stop"
  BY <1>1, <1>2, <1>3, <1>4, <1>6 DEF One, Started, Fragmented, IsFragment
<1>7. CASE e.kind \notin {"start", "stop"}
  BY <1>1, <1>2, <1>3, <1>4, <1>7 DEF One, Started
<1> QED
  BY <1>1, <1>5, <1>6, <1>7

--------------------------------------------------------------------------------
(* The invariant of a translation.                                           *)

Call == [index : Nat, closed : BOOLEAN]
Calls == UNION {[S -> Call] : S \in SUBSET Nat}
State == [message_started : BOOLEAN, stop_reason : Reasons, next : Nat, type : Types,
          index : Int, tool : Int, calls : Calls]

\* The active block is not stopped yet; that of a call may be.
Unclosed(st) == \/ st.type \in {"thinking", "text"}
                \/ st.type = "tool" /\ ~st.calls[st.tool].closed

\* The StreamState knows what was sent of the message: how many blocks were started,
\* that all of them are stopped but the active one, and the block of each call.
Numbers(st, o) ==
  /\ Num(o, "start") = st.next
  /\ Num(o, "stop") = st.next - (IF Unclosed(st) THEN 1 ELSE 0)
  /\ Unclosed(st) => st.index = st.next - 1
Active(st, o) ==
  /\ st.type # "" => <<st.index, st.type>> \in Starts(o)
  /\ st.type = "tool" => st.tool \in DOMAIN st.calls /\ st.index = st.calls[st.tool].index
  /\ st.type # "tool" => st.tool = NoIndex
CallsStarted(st, o) ==
  /\ \A i \in DOMAIN st.calls : /\ st.calls[i].index < st.next
                                /\ <<st.calls[i].index, "tool">> \in Starts(o)
                                /\ st.calls[i].closed \/ (st.type = "tool" /\ st.tool = i)
  /\ \A i, j \in DOMAIN st.calls : st.calls[i].index = st.calls[j].index => i = j
  /\ \A f \in Fragments(o) : f[1] \in DOMAIN st.calls /\ f[2] = st.calls[f[1]].index
Blocks(st, o) == Numbers(st, o) /\ Active(st, o) /\ CallsStarted(st, o)

Good(st, o, g) == Right(o, g) /\ Relayed(o, g) /\ Blocks(st, o)

\* The calls of a StreamState are numbers with a block each.
LEMMA CallsTyped ==
  ASSUME NEW st \in State
  PROVE  /\ DOMAIN st.calls \in SUBSET Nat
         /\ \A i \in DOMAIN st.calls : st.calls[i] \in Call
<1>1. PICK S \in SUBSET Nat : st.calls \in [S -> Call]
  BY DEF State, Calls
<1> QED
  BY <1>1

\* An event other than of a start, of a stop or of the end.
LEMMA EmittedGood ==
  ASSUME NEW st \in State, NEW o \in Seq(Emitted),
         NEW g \in Seq(Piece), NEW h \in Seq(Piece), Extends(g, h), Good(st, o, g),
         NEW e \in Emitted, e.kind \notin {"start", "stop", "message_stop"},
         NEW p, p = Append(o, e), Fits(o, h, e), Relayed(p, h),
         IsFragment(e) => e.call \in DOMAIN st.calls /\ e.index = st.calls[e.call].index
  PROVE  Good(st, p, h)
<1>1. Right(p, h)
  BY RightAppended DEF Good
<1>2. /\ Num(p, "start") = Num(o, "start") /\ Num(p, "stop") = Num(o, "stop")
      /\ Starts(p) = Starts(o) /\ Fragments(p) = Fragments(o) \cup Fragmented(e)
  <2>1. e.kind # "message_stop" /\ e.kind \notin {"start", "stop"}
    OBVIOUS
  <2> QED
    BY <2>1, CountsAfter, ZenonT(60)
<1>3. Numbers(st, o) /\ Active(st, o) /\ CallsStarted(st, o)
  BY DEF Good, Blocks
<1>4. Numbers(st, p) /\ Active(st, p)
  BY <1>2, <1>3 DEF Numbers, Active
<1>5. CallsStarted(st, p)
  <2>1. \A f \in Fragments(p) : f[1] \in DOMAIN st.calls /\ f[2] = st.calls[f[1]].index
    BY <1>2, <1>3 DEF CallsStarted, Fragmented
  <2> QED
    BY <1>2, <1>3, <2>1 DEF CallsStarted
<1> QED
  BY <1>1, <1>4, <1>5 DEF Good, Blocks

\* The StreamState s is st without an active block.
Rested(st, s) ==
  /\ s.type = "" /\ s.tool = NoIndex /\ s.next = st.next
  /\ DOMAIN s.calls = DOMAIN st.calls
  /\ \A i \in DOMAIN st.calls :
       /\ s.calls[i].index = st.calls[i].index
       /\ st.calls[i].closed \/ (st.type = "tool" /\ st.tool = i) => s.calls[i].closed

\* Nothing was to stop.
LEMMA RestedGood ==
  ASSUME NEW st \in State, NEW s \in State, NEW o \in Seq(Emitted), NEW g,
         Rested(st, s), Good(st, o, g), ~Unclosed(st)
  PROVE  Good(s, o, g)
<1>1. Numbers(st, o) /\ Active(st, o) /\ CallsStarted(st, o)
  BY DEF Good, Blocks
<1>2. ~Unclosed(s)
  BY DEF Unclosed, Rested
<1>3. Numbers(s, o) /\ Active(s, o)
  BY <1>1, <1>2 DEF Numbers, Active, Rested
<1>4. CallsStarted(s, o)
  BY <1>1 DEF CallsStarted, Rested
<1> QED
  BY <1>3, <1>4 DEF Good, Blocks

\* The stop of the active block.
LEMMA StopGood ==
  ASSUME NEW st \in State, NEW s \in State, NEW o \in Seq(Emitted), NEW g \in Seq(Piece),
         Rested(st, s), Good(st, o, g), Unclosed(st),
         NEW e \in Emitted, e.kind = "stop", e.index = st.index,
         NEW p, p = Append(o, e)
  PROVE  Good(s, p, g)
<1>1. /\ Numbers(st, o) /\ Active(st, o) /\ CallsStarted(st, o)
      /\ Right(o, g) /\ Relayed(o, g) /\ st.next \in Nat
  BY DEF Good, Blocks, State
<1>2. ~IsFragment(e) /\ e.kind # "message_stop" /\ e.kind # "delta"
  BY DEF IsFragment
<1>3. Num(o, "start") = st.next /\ Num(o, "stop") = st.next - 1 /\ st.index = st.next - 1
  BY <1>1 DEF Numbers
<1>4. Right(p, g)
  <2>1. Extends(g, g)
    BY ExtendsItself
  <2>2. Fits(o, g, e)
    BY <1>1, <1>2, <1>3 DEF Fits
  <2> QED
    BY <1>1, <2>1, <2>2, RightAppended
<1>5. Relayed(p, g)
  BY <1>1, <1>2, RelayedSilently
<1>6. /\ Num(p, "start") = Num(o, "start") /\ Num(p, "stop") = Num(o, "stop") + 1
      /\ Starts(p) = Starts(o) /\ Fragments(p) = Fragments(o)
  BY <1>2, CountsAfter
<1>7. ~Unclosed(s)
  BY DEF Unclosed, Rested
<1>8. Numbers(s, p) /\ Active(s, p)
  <2>1. s.next = st.next /\ s.type = "" /\ s.tool = NoIndex
    BY DEF Rested
  <2>2. Num(p, "start") = s.next /\ Num(p, "stop") = s.next
    <3>1. st.next \in Nat
      BY <1>1
    <3>2. (st.next - 1) + 1 = st.next
      BY <3>1, Numbering, Zenon
    <3> QED
      BY <1>3, <1>6, <2>1, <3>2
  <2>3. s.next - 0 = s.next
    <3>1. s.next \in Nat
      BY <1>1, <2>1
    <3> QED
      BY <3>1, Numbering, Zenon
  <2> QED
    BY <1>7, <2>1, <2>2, <2>3 DEF Numbers, Active
<1>9. CallsStarted(s, p)
  BY <1>1, <1>6, ZenonT(60) DEF CallsStarted, Rested
<1> QED
  BY <1>4, <1>5, <1>8, <1>9 DEF Good, Blocks
--------------------------------------------------------------------------------
(* The operators that emit events.                                           *)

\* The StreamState that closeActiveBlock leaves.
LEMMA ClosedRests ==
  ASSUME NEW st \in State, st.type = "tool" => st.tool \in DOMAIN st.calls,
         NEW t, t.st = st, NEW s, s = closeActiveBlock(t).st
  PROVE  s \in State /\ Rested(st, s)
<1>1. PICK S \in SUBSET Nat : st.calls \in [S -> Call]
  BY DEF State, Calls
<1>2. /\ Closed(st) \in [S -> Call]
      /\ \A i \in S :
           /\ Closed(st)[i].index = st.calls[i].index
           /\ st.calls[i].closed \/ (st.type = "tool" /\ st.tool = i) => Closed(st)[i].closed
  <2>1. CASE st.type = "tool"
    BY <1>1, <2>1, ZenonT(60) DEF Closed, Call
  <2>2. CASE st.type # "tool"
    BY <1>1, <2>2 DEF Closed
  <2> QED
    BY <2>1, <2>2
<1>3. Closed(st) \in Calls
  BY <1>2 DEF Calls
<1> DEFINE c == Closed(st) k == "" i == -1 j == NoIndex
<1>4. c \in Calls /\ k \in Types /\ i \in Int /\ j \in Int
  BY <1>3 DEF Types, NoIndex
<1>5. s = [st EXCEPT !.calls = c, !.type = k, !.index = i, !.tool = j]
  BY DEF closeActiveBlock
<1> HIDE DEF c, k, i, j
<1>6. s \in State /\ s.calls = c /\ s.type = k /\ s.tool = j /\ s.next = st.next
  BY <1>4, <1>5 DEF State
<1>7. DOMAIN s.calls = DOMAIN st.calls /\ DOMAIN st.calls = S
  BY <1>1, <1>2, <1>6 DEF c
<1> QED
  BY <1>2, <1>6, <1>7 DEF Rested, c, k, j

\* An event that relays nothing has its type.
LEMMA EventTyped ==
  ASSUME NEW kind \in Kinds, NEW index \in Int, NEW type \in Types \cup Reasons
  PROVE  /\ Event(kind, index, type) \in Emitted
         /\ Event(kind, index, type).kind = kind /\ Event(kind, index, type).index = index
         /\ Event(kind, index, type).type = type
<1>1. 0 \in Nat /\ NoIndex \in Int
  BY DEF NoIndex
<1> QED
  BY <1>1 DEF Event, Emitted

\* What is sent while the active block is open.
LEMMA FitsActive ==
  ASSUME NEW st \in State, NEW o, NEW g, NEW h, Good(st, o, g), Unclosed(st)
  PROVE  /\ <<st.index, st.type>> \in Starts(o)
         /\ Num(o, "start") = Num(o, "stop") + 1 /\ st.index = Num(o, "stop")
<1>1. Numbers(st, o) /\ Active(st, o) /\ st.next \in Nat /\ st.type # ""
  BY DEF Good, Blocks, State, Unclosed
<1>2. /\ Num(o, "start") = st.next /\ Num(o, "stop") = st.next - 1
      /\ st.index = st.next - 1
  BY <1>1 DEF Numbers
<1>3. (st.next - 1) + 1 = st.next
  <2>1. st.next \in Nat
    BY <1>1
  <2> QED
    BY <2>1, Numbering, Zenon
<1> QED
  BY <1>1, <1>2, <1>3 DEF Active

\* What closeActiveBlock sends, whatever block is active.
LEMMA StopActiveGood ==
  ASSUME NEW st \in State, NEW s \in State, NEW o \in Seq(Emitted), NEW g \in Seq(Piece),
         Rested(st, s), Good(st, o, g), NEW p, p = o \o StopActive(st)
  PROVE  p \in Seq(Emitted) /\ Good(s, p, g)
<1>1. /\ Active(st, o) /\ st.index \in Int /\ st.type \in Types
      /\ st.type \in Types \cup Reasons
      /\ "signature" \in Kinds /\ "stop" \in Kinds
  BY DEF Good, Blocks, State, Kinds
<1>2. \E e : e = Event("stop", st.index, st.type)
  OBVIOUS
<1>3. PICK e : e = Event("stop", st.index, st.type)
  BY <1>2
<1>4. e \in Emitted /\ e.kind = "stop" /\ e.index = st.index
  BY <1>1, <1>3, EventTyped
<1>5. ASSUME NEW q \in Seq(Emitted), Good(st, q, g), Unclosed(st), p = Append(q, e)
      PROVE  p \in Seq(Emitted) /\ Good(s, p, g)
  <2>1. p \in Seq(Emitted)
    BY <1>4, <1>5
  <2>2. Good(s, p, g)
    BY <1>4, <1>5, StopGood
  <2> QED
    BY <2>1, <2>2
<1>6. CASE st.type = "thinking"
  <2>1. \E d : d = Event("signature", st.index, st.type)
    OBVIOUS
  <2>2. PICK d : d = Event("signature", st.index, st.type)
    BY <2>1
  <2>3. d \in Emitted /\ d.kind = "signature" /\ d.index = st.index /\ d.type = st.type
    BY <1>1, <2>2, EventTyped
  <2> DEFINE q == Append(o, d)
  <2>4. q \in Seq(Emitted) /\ p = Append(q, e)
    BY <1>3, <1>4, <1>6, <2>2, <2>3 DEF StopActive
  <2>5. Unclosed(st) /\ ~IsFragment(d)
    BY <1>6, <2>3 DEF Unclosed, IsFragment
  <2>6. Fits(o, g, d)
    BY <2>3, <2>5, FitsActive DEF Fits
  <2>7. Relayed(q, g) /\ Extends(g, g)
    <3>1. Relayed(o, g) /\ d.kind # "delta" /\ Extends(g, g)
      BY <2>3, ExtendsItself DEF Good
    <3> QED
      BY <2>3, <3>1, RelayedSilently
  <2>8. d.kind \notin {"start", "stop", "message_stop"}
    BY <2>3
  <2> HIDE DEF q
  <2>9. Good(st, q, g)
    BY <2>3, <2>5, <2>6, <2>7, <2>8, EmittedGood DEF q
  <2> QED
    BY <1>5, <2>4, <2>5, <2>9
<1>7. CASE st.type = "text" \/ (st.type = "tool" /\ ~st.calls[st.tool].closed)
  <2>1. Unclosed(st)
    BY <1>7 DEF Unclosed
  <2>2. StopActive(st) = <<e>>
    <3>1. CASE st.type = "text"
      BY <1>3, <3>1 DEF StopActive
    <3>2. CASE st.type = "tool" /\ ~st.calls[st.tool].closed
      BY <1>1, <1>3, <3>2 DEF StopActive, Active
    <3> QED
      BY <1>7, <3>1, <3>2
  <2>3. p = Append(o, e)
    BY <1>4, <2>2
  <2> QED
    BY <1>5, <2>1, <2>3
<1>8. CASE st.type \notin {"thinking", "text"} /\ ~(st.type = "tool" /\ ~st.calls[st.tool].closed)
  <2>1. ~Unclosed(st)
    BY <1>8 DEF Unclosed
  <2>2. p = o
    <3>1. StopActive(st) = <<>>
      BY <1>8, Zenon DEF StopActive
    <3>2. o \o <<>> = o
      OBVIOUS
    <3> QED
      BY <3>1, <3>2
  <2> QED
    BY <2>1, <2>2, RestedGood
<1> QED
  BY <1>6, <1>7, <1>8

\* closeActiveBlock stops what is to be stopped.
Translation == [st : State, out : Seq(Emitted)]

\* Closing the open block keeps the stream good.
LEMMA CloseGood ==
  ASSUME NEW t \in Translation, NEW g \in Seq(Piece), Good(t.st, t.out, g),
         NEW u, u = closeActiveBlock(t)
  PROVE  u \in Translation /\ Rested(t.st, u.st) /\ Good(u.st, u.out, g)
<1>1. t.st \in State /\ t.out \in Seq(Emitted)
  BY DEF Translation
<1>2. u.st \in State /\ Rested(t.st, u.st)
  <2>1. t.st.type = "tool" => t.st.tool \in DOMAIN t.st.calls
    BY DEF Good, Blocks, Active
  <2> QED
    BY <1>1, <2>1, ClosedRests
<1>3. u = [out |-> u.out, st |-> u.st] /\ u.out = t.out \o StopActive(t.st)
  BY DEF closeActiveBlock
<1>4. u.out \in Seq(Emitted) /\ Good(u.st, u.out, g)
  BY <1>1, <1>2, <1>3, StopActiveGood
<1> QED
  BY <1>2, <1>3, <1>4 DEF Translation

\* The StreamState s is st, which has no active block, with a new block; a new tool
\* block is that of a new call.
Opened(st, s) ==
  /\ s.type # "" /\ s.index = st.next /\ s.next = st.next + 1
  /\ \A i \in DOMAIN st.calls : i \in DOMAIN s.calls /\ s.calls[i] = st.calls[i]
  /\ \A i \in DOMAIN s.calls : i \in DOMAIN st.calls \/ (s.type = "tool" /\ s.tool = i)
  /\ s.type = "tool" => /\ s.tool \in DOMAIN s.calls /\ s.tool \notin DOMAIN st.calls
                        /\ s.calls[s.tool].index = st.next /\ ~s.calls[s.tool].closed
  /\ s.type # "tool" => s.tool = NoIndex

\* The start of a block, when all that were started are stopped.
LEMMA OpenedGood ==
  ASSUME NEW st \in State, NEW s \in State, NEW o \in Seq(Emitted), NEW g \in Seq(Piece),
         Opened(st, s), st.type = "", Good(st, o, g),
         NEW e \in Emitted, e.kind = "start", e.index = st.next, e.type = s.type,
         NEW p, p = Append(o, e)
  PROVE  p \in Seq(Emitted) /\ Good(s, p, g)
<1>1. /\ Numbers(st, o) /\ CallsStarted(st, o) /\ Right(o, g) /\ Relayed(o, g)
      /\ s.type \in Types
  BY DEF Good, Blocks, State
<1> DEFINE next == st.next
<1>0. next \in Nat
  BY DEF State
<1> HIDE DEF next
<1>2. ~IsFragment(e) /\ e.kind # "message_stop" /\ e.kind # "delta"
  BY DEF IsFragment
<1>3. Num(o, "start") = st.next /\ Num(o, "stop") = st.next
  <2>1. next - 0 = next
    BY <1>0, Numbering, Zenon
  <2>2. ~Unclosed(st)
    BY DEF Unclosed
  <2> QED
    BY <1>1, <2>1, <2>2 DEF Numbers, next
<1>4. Right(p, g)
  <2>1. Extends(g, g)
    BY ExtendsItself
  <2>2. Fits(o, g, e)
    BY <1>2, <1>3 DEF Fits
  <2> QED
    BY <1>1, <2>1, <2>2, RightAppended
<1>5. Relayed(p, g)
  BY <1>1, <1>2, RelayedSilently
<1>6. /\ p \in Seq(Emitted)
      /\ Num(p, "start") = Num(o, "start") + 1 /\ Num(p, "stop") = Num(o, "stop")
      /\ Starts(p) = Starts(o) \cup {<<e.index, e.type>>} /\ Fragments(p) = Fragments(o)
  BY <1>2, CountsAfter
<1>7. Unclosed(s)
  BY <1>1 DEF Unclosed, Opened, Types
<1>8. Numbers(s, p)
  <2>1. (next + 1) - 1 = next
    BY <1>0, Numbering, Zenon
  <2>2. s.next = st.next + 1 /\ s.index = st.next
    BY DEF Opened
  <2> QED
    BY <1>3, <1>6, <1>7, <2>1, <2>2 DEF Numbers, next
<1>9. Active(s, p)
  BY <1>6 DEF Active, Opened
<1>10. CallsStarted(s, p)
  <2>1. /\ \A i \in DOMAIN st.calls : /\ st.calls[i].index < st.next
                                      /\ <<st.calls[i].index, "tool">> \in Starts(o)
                                      /\ st.calls[i].closed
                                      /\ st.calls[i].index \in Nat
    BY <1>1, CallsTyped DEF CallsStarted, Call
  <2>2. ASSUME NEW i \in DOMAIN s.calls
        PROVE  /\ s.calls[i].index < s.next
               /\ <<s.calls[i].index, "tool">> \in Starts(p)
               /\ s.calls[i].closed \/ (s.type = "tool" /\ s.tool = i)
    <3>0. s.next = next + 1
      BY DEF Opened, next
    <3>1. CASE i \in DOMAIN st.calls
      <4>1. /\ s.calls[i] = st.calls[i] /\ st.calls[i].index < next
            /\ st.calls[i].index \in Nat
        BY <2>1, <3>1 DEF Opened, next
      <4>2. s.calls[i].index < s.next
        <5>1. st.calls[i].index < next + 1
          BY <1>0, <4>1, Numbering, Zenon
        <5> QED
          BY <3>0, <4>1, <5>1, Zenon
      <4> QED
        BY <1>6, <2>1, <3>1, <4>1, <4>2
    <3>2. CASE s.type = "tool" /\ s.tool = i
      <4>1. s.calls[i].index = next
        BY <3>2 DEF Opened, next
      <4>2. s.calls[i].index < s.next
        <5>1. next < next + 1
          BY <1>0, Numbering, Zenon
        <5> QED
          BY <3>0, <4>1, <5>1, Zenon
      <4>3. <<s.calls[i].index, "tool">> \in Starts(p)
        BY <1>6, <3>2, <4>1 DEF next
      <4> QED
        BY <3>2, <4>2, <4>3
    <3> QED
      BY <3>1, <3>2 DEF Opened
  <2>3. ASSUME NEW i \in DOMAIN s.calls, NEW j \in DOMAIN s.calls,
               s.calls[i].index = s.calls[j].index
        PROVE  i = j
    <3>1. CASE i \in DOMAIN st.calls /\ j \in DOMAIN st.calls
      BY <1>1, <2>3, <3>1, ZenonT(60) DEF CallsStarted, Opened
    <3>2. \A l \in DOMAIN st.calls : s.calls[l].index < next /\ s.calls[l].index \in Nat
      BY <2>1 DEF Opened, next
    <3>3. \A l \in DOMAIN s.calls : l \notin DOMAIN st.calls =>
            s.type = "tool" /\ s.tool = l /\ s.calls[l].index = next
      BY DEF Opened, next
    <3>4. \A l \in DOMAIN st.calls : s.calls[l].index # next
      BY <1>0, <3>2, Numbering, Zenon
    <3>5. i \in DOMAIN st.calls <=> j \in DOMAIN st.calls
      BY <2>3, <3>3, <3>4
    <3> QED
      BY <3>1, <3>3, <3>5
  <2>4. \A f \in Fragments(p) : f[1] \in DOMAIN s.calls /\ f[2] = s.calls[f[1]].index
    <3>1. \A f \in Fragments(o) : f[1] \in DOMAIN st.calls
                                  /\ f[2] = st.calls[f[1]].index
      BY <1>1 DEF CallsStarted
    <3>2. \A i \in DOMAIN st.calls : i \in DOMAIN s.calls /\ s.calls[i] = st.calls[i]
      BY DEF Opened
    <3> QED
      BY <1>6, <3>1, <3>2
  <2> QED
    BY <2>2, <2>3, <2>4 DEF CallsStarted
<1> QED
  BY <1>4, <1>5, <1>6, <1>8, <1>9, <1>10 DEF Good, Blocks

\* A call whose block was stopped is made the active one again.
LEMMA ResumedGood ==
  ASSUME NEW st \in State, NEW s \in State, NEW o \in Seq(Emitted), NEW g,
         st.type = "", Good(st, o, g), s.type = "tool", s.tool \in DOMAIN st.calls,
         s.index = st.calls[s.tool].index, s.next = st.next, s.calls = st.calls
  PROVE  Good(s, o, g)
<1>1. Numbers(st, o) /\ CallsStarted(st, o)
  BY DEF Good, Blocks
<1>2. ~Unclosed(st) /\ ~Unclosed(s)
  BY <1>1 DEF Unclosed, CallsStarted
<1>3. Numbers(s, o)
  BY <1>1, <1>2 DEF Numbers
<1>4. Active(s, o)
  BY <1>1 DEF Active, CallsStarted
<1>5. CallsStarted(s, o)
  <2>1. \A i \in DOMAIN st.calls : /\ st.calls[i].index < st.next
                                   /\ <<st.calls[i].index, "tool">> \in Starts(o)
                                   /\ st.calls[i].closed
    BY <1>1 DEF CallsStarted
  <2>2. \A i, j \in DOMAIN st.calls : st.calls[i].index = st.calls[j].index => i = j
    BY <1>1 DEF CallsStarted
  <2>3. \A f \in Fragments(o) : f[1] \in DOMAIN st.calls
                                /\ f[2] = st.calls[f[1]].index
    BY <1>1 DEF CallsStarted
  <2>4. \A i \in DOMAIN s.calls : /\ s.calls[i].index < s.next
                                  /\ <<s.calls[i].index, "tool">> \in Starts(o)
                                  /\ s.calls[i].closed
    BY <2>1
  <2>5. \A i, j \in DOMAIN s.calls : s.calls[i].index = s.calls[j].index => i = j
    BY <2>2, ZenonT(60)
  <2>6. \A f \in Fragments(o) : f[1] \in DOMAIN s.calls /\ f[2] = s.calls[f[1]].index
    BY <2>3
  <2> QED
    BY <2>4, <2>5, <2>6 DEF CallsStarted
<1> QED
  BY <1>3, <1>4, <1>5 DEF Good, Blocks

\* More was given that is not sent yet.
LEMMA GivenGood ==
  ASSUME NEW st, NEW o, NEW g \in Seq(Piece), NEW w \in Piece, Good(st, o, g), ~w.worded
  PROVE  Good(st, o, Append(g, w))
<1>1. \A call : TakenUpAgain(g, call) => TakenUpAgain(Append(g, w), call)
  BY DEF TakenUpAgain
<1>2. Right(o, Append(g, w))
  BY <1>1 DEF Good, Right, EventRight, InItsBlock
<1>3. Relayed(o, Append(g, w))
  BY RelayedWithout DEF Good
<1> QED
  BY <1>2, <1>3 DEF Good

\* A delta that relays the last piece, in a block that is open or of a call that was
\* taken up again.
LEMMA ContentGood ==
  ASSUME NEW st \in State, NEW o \in Seq(Emitted), NEW g \in Seq(Piece), NEW w \in Piece,
         NEW h, h = Append(g, w), Good(st, o, g), st.type # "",
         Unclosed(st) \/ (st.type = "tool" /\ TakenUpAgain(h, w.call)),
         NEW e \in Emitted, e.kind = "delta", e.index = st.index, e.type = st.type,
         w.worded, w.type = e.type, w.event = e.event, w.call = e.call, e.call = st.tool,
         NEW p, p = Append(o, e)
  PROVE  p \in Seq(Emitted) /\ Good(st, p, h)
<1>1. /\ Active(st, o) /\ CallsStarted(st, o) /\ Relayed(o, g)
      /\ e.kind \notin {"start", "stop", "message_stop"}
  BY DEF Good, Blocks
<1>2. p \in Seq(Emitted) /\ h \in Seq(Piece) /\ Extends(g, h)
  <2>1. p \in Seq(Emitted) /\ h \in Seq(Piece)
    BY OneMore, Zenon
  <2>2. Extends(g, h)
    BY ExtendsMore
  <2> QED
    BY <2>1, <2>2
<1>3. Relayed(p, h)
  BY <1>1, RelayedMore
<1>4. IsFragment(e) => e.call \in DOMAIN st.calls /\ e.index = st.calls[e.call].index
  BY <1>1 DEF IsFragment, Active
<1>5. <<e.index, e.type>> \in Starts(o)
  BY <1>1 DEF Active
<1>6. \/ Num(o, "start") = Num(o, "stop") + 1 /\ e.index = Num(o, "stop")
      \/ e.type = "tool" /\ TakenUpAgain(h, e.call)
  BY FitsActive
<1>7. IsFragment(e) => \A f \in Fragments(o) : f[1] = e.call <=> f[2] = e.index
  BY <1>1, <1>4, ZenonT(60) DEF CallsStarted
<1>8. Fits(o, h, e)
  BY <1>1, <1>5, <1>6, <1>7 DEF Fits
<1>9. Good(st, p, h)
  BY <1>1, <1>2, <1>3, <1>4, <1>8, EmittedGood
<1> QED
  BY <1>2, <1>9
\* What is known of the pieces given when a fragment or a wording is to be sent.
Follows(st, g) ==
  /\ st.type = "" => DOMAIN st.calls = {}
  /\ st.type # "" => Len(g) > 0 /\ g[Len(g)].call = st.tool
  /\ \A i \in DOMAIN st.calls : \E n \in 1..Len(g) : g[n].call = i
  /\ st.type = "tool" /\ st.calls[st.tool].closed => TakenUpAgain(g, st.tool)

BlockTypes == {"thinking", "text", "tool"}
Said == {"thinking", "text"}

\* A new block was opened in u, after the active one was stopped in c.
Opens(t, c, u, k, g) ==
  /\ u \in Translation
  /\ u.st.type = k /\ u.st.index = t.st.next /\ u.st.next = t.st.next + 1
  /\ u.st.tool = NoIndex /\ DOMAIN u.st.calls = DOMAIN t.st.calls
  /\ c \in Translation /\ Rested(t.st, c.st) /\ Good(c.st, c.out, g)
  /\ u.st.calls = c.st.calls
  /\ u.out = c.out \o <<Event("start", t.st.next, k)>>

\* Opening a block of any type stops the active one first.
LEMMA OpenBlockGood ==
  ASSUME NEW t \in Translation, NEW g \in Seq(Piece), Good(t.st, t.out, g),
         NEW k \in BlockTypes, NEW u, u = OpenBlock(t, k),
         NEW c, c = closeActiveBlock(t)
  PROVE  Opens(t, c, u, k, g)
<1> DEFINE e == Event("start", t.st.next, k)
           s == [c.st EXCEPT !.type = k, !.index = t.st.next, !.next = @ + 1]
           o == c.out \o <<e>>
<1>1. c \in Translation /\ Rested(t.st, c.st) /\ Good(c.st, c.out, g)
  BY CloseGood
<1>2. t.st.next \in Nat /\ t.st.next + 1 \in Nat /\ t.st.next \in Int
  <2>1. t.st.next \in Nat
    BY DEF Translation, State
  <2> QED
    BY <2>1, Numbering, Zenon
<1>3. e \in Emitted
  <2>1. "start" \in Kinds /\ k \in Types \cup Reasons
    BY DEF Kinds, Types, BlockTypes
  <2> QED
    BY <1>2, <2>1, EventTyped, Zenon
<1>4. u = [out |-> o, st |-> s]
  BY DEF OpenBlock
<1> HIDE DEF e, o
<1>5. /\ c.st \in State /\ c.out \in Seq(Emitted) /\ c.st.next = t.st.next
      /\ c.st.tool = NoIndex /\ DOMAIN c.st.calls = DOMAIN t.st.calls
  BY <1>1 DEF Translation, Rested
<1>6. /\ s \in State /\ s.type = k /\ s.index = t.st.next /\ s.next = t.st.next + 1
      /\ s.tool = c.st.tool /\ s.calls = c.st.calls
  <2>1. k \in Types
    BY DEF Types, BlockTypes
  <2> QED
    BY <1>2, <1>5, <2>1 DEF State
<1> HIDE DEF s
<1>7. u.st = s /\ u.out = o
  BY <1>4
<1>8. u \in Translation
  <2>1. o \in Seq(Emitted)
    BY <1>3, <1>5, OneMore, Zenon DEF o
  <2> QED
    BY <1>4, <1>6, <2>1 DEF Translation
<1> QED
  BY <1>1, <1>5, <1>6, <1>7, <1>8 DEF e, o, Opens

\* A thought or a text.
LEMMA SayOpened ==
  ASSUME NEW t \in Translation, NEW g \in Seq(Piece), Good(t.st, t.out, g),
         NEW k \in Said, NEW u, u = OpenBlock(t, k)
  PROVE  Good(u.st, u.out, g)
<1>0. k \in BlockTypes
  BY DEF Said, BlockTypes
<1> DEFINE c == closeActiveBlock(t)
<1> HIDE DEF c
<1>1. Opens(t, c, u, k, g)
  BY <1>0, OpenBlockGood DEF c
<1>2. /\ u \in Translation
      /\ u.st.type = k /\ u.st.index = t.st.next /\ u.st.next = t.st.next + 1
      /\ u.st.tool = NoIndex
      /\ c \in Translation /\ Rested(t.st, c.st) /\ Good(c.st, c.out, g)
      /\ u.st.calls = c.st.calls
      /\ u.out = c.out \o <<Event("start", t.st.next, k)>>
  BY <1>1 DEF Opens
<1> DEFINE e == Event("start", t.st.next, k)
<1>3. t.st.next \in Int /\ "start" \in Kinds /\ k \in Types \cup Reasons
  <2>1. t.st.next \in Nat
    BY DEF Translation, State
  <2>2. t.st.next \in Int
    BY <2>1, Numbering, Zenon
  <2> QED
    BY <2>2 DEF Kinds, Types, Said
<1>4. e \in Emitted /\ e.kind = "start" /\ e.index = t.st.next /\ e.type = k
  BY <1>3, EventTyped
<1> HIDE DEF e
<1>5. /\ c.st \in State /\ u.st \in State /\ c.out \in Seq(Emitted)
      /\ c.st.type = "" /\ c.st.next = t.st.next
  BY <1>2 DEF Translation, Rested
<1>6. Opened(c.st, u.st)
  <2>1. u.st.type # "" /\ u.st.type # "tool"
    BY <1>2 DEF Said
  <2> QED
    BY <1>2, <1>5, <2>1 DEF Opened
<1>7. u.out = Append(c.out, e)
  BY <1>2, <1>4, <1>5, OneMore, Zenon DEF e
<1> QED
  BY <1>2, <1>4, <1>5, <1>6, <1>7, OpenedGood, ZenonT(60)

\* A thought or a text is sent within the block that it finds or opens.
LEMMA SayGood ==
  ASSUME NEW t \in Translation, NEW g \in Seq(Piece), Good(t.st, t.out, g),
         NEW k \in Said, NEW event \in Nat, NEW w,
         w = [type |-> k, event |-> event, call |-> NoIndex, worded |-> TRUE],
         NEW u, u = Say(t, k, event)
  PROVE  /\ u \in Translation /\ w \in Piece /\ Good(u.st, u.out, Append(g, w))
         /\ u.st.type = k /\ u.st.tool = NoIndex
         /\ DOMAIN u.st.calls = DOMAIN t.st.calls
<1> DEFINE v == IF t.st.type = k THEN t ELSE OpenBlock(t, k)
           e == Content(v.st.index, k, event, NoIndex)
<1>1. u = [st |-> v.st, out |-> v.out \o <<e>>]
  BY DEF Say, Emit
<1>2. /\ v \in Translation /\ Good(v.st, v.out, g) /\ v.st.type = k /\ v.st.tool = NoIndex
      /\ DOMAIN v.st.calls = DOMAIN t.st.calls
  <2>1. CASE t.st.type = k
    BY <2>1 DEF Good, Blocks, Active, Said
  <2>2. CASE t.st.type # k
    <3>1. k \in BlockTypes
      BY DEF Said, BlockTypes
    <3>2. v = OpenBlock(t, k)
      BY <2>2
    <3> HIDE DEF v
    <3>3. PICK c : c = closeActiveBlock(t)
      OBVIOUS
    <3>4. Opens(t, c, v, k, g)
      BY <3>1, <3>2, <3>3, OpenBlockGood
    <3>5. Good(v.st, v.out, g)
      BY <3>2, SayOpened
    <3> QED
      BY <3>4, <3>5 DEF Opens
  <2> QED
    BY <2>1, <2>2
<1> HIDE DEF v
<1>3. v.st \in State /\ v.out \in Seq(Emitted) /\ v.st.index \in Int /\ NoIndex \in Int
  BY <1>2 DEF Translation, State, NoIndex
<1>4. /\ e \in Emitted /\ e.kind = "delta" /\ e.index = v.st.index /\ e.type = k
      /\ e.event = event /\ e.call = NoIndex
  BY <1>3 DEF Content, Emitted, Kinds, Types, Said
<1>5. /\ w \in Piece /\ w.worded /\ w.type = k /\ w.event = event /\ w.call = NoIndex
  BY <1>3 DEF Piece, Types, Said
<1> HIDE DEF e
<1> DEFINE p == Append(v.out, e)
<1>6. u = [st |-> v.st, out |-> p]
  BY <1>1, <1>3, <1>4, OneMore, ZenonT(40)
<1>7. Unclosed(v.st) /\ v.st.type # ""
  BY <1>2 DEF Unclosed, Said
<1>8. p \in Seq(Emitted) /\ Good(v.st, p, Append(g, w))
  <2>1. e.type = v.st.type /\ e.call = v.st.tool
    BY <1>2, <1>4
  <2>2. w.type = e.type /\ w.event = e.event /\ w.call = e.call
    BY <1>4, <1>5
  <2> QED
    BY <1>2, <1>3, <1>4, <1>5, <1>7, <2>1, <2>2, ContentGood, ZenonT(60)
<1> HIDE DEF p
<1>9. u.st = v.st /\ u.out = p /\ u \in Translation
  BY <1>3, <1>6, <1>8 DEF Translation
<1> QED
  BY <1>2, <1>5, <1>8, <1>9

\* The calls q are f with the call i, which is not closed.
WithCall(q, f, i, index) ==
  /\ q \in Calls /\ DOMAIN q = DOMAIN f \cup {i}
  /\ q[i].index = index /\ ~q[i].closed
  /\ \A j \in DOMAIN f : j # i => q[j] = f[j]

\* A call more among the calls.
LEMMA CallAdded ==
  ASSUME NEW f \in Calls, NEW i \in Nat, NEW index \in Nat, NEW q, q = NewCall(f, i, index)
  PROVE  WithCall(q, f, i, index)
<1>1. PICK S \in SUBSET Nat : f \in [S -> Call]
  BY DEF Calls
<1> DEFINE r == [index |-> index, closed |-> FALSE]
<1>2. r \in Call /\ r.index = index /\ ~r.closed
  BY DEF Call
<1>3. q = [j \in S \cup {i} |-> IF j = i THEN r ELSE f[j]]
  BY <1>1 DEF NewCall
<1> HIDE DEF r
<1>4. /\ q \in [S \cup {i} -> Call] /\ q[i] = r
      /\ \A j \in S : j # i => q[j] = f[j]
  BY <1>1, <1>2, <1>3
<1> QED
  BY <1>1, <1>2, <1>4, ZenonT(60) DEF Calls, WithCall

\* A block that takes the fragments of call i is the active one in u.
Taking(t, u, g, i) ==
  /\ u \in Translation /\ Good(u.st, u.out, g)
  /\ u.st.type = "tool" /\ u.st.tool = i
  /\ DOMAIN u.st.calls = DOMAIN t.st.calls \cup {i}

\* The block of a call seen for the first time.
LEMMA StartCallGood ==
  ASSUME NEW t \in Translation, NEW g \in Seq(Piece), Good(t.st, t.out, g),
         NEW i \in Nat, i \notin DOMAIN t.st.calls, NEW u, u = StartCall(t, i)
  PROVE  Taking(t, u, g, i) /\ Unclosed(u.st)
<1> DEFINE c == closeActiveBlock(t)
           b == OpenBlock(t, "tool")
           q == NewCall(b.st.calls, i, t.st.next)
           s == [b.st EXCEPT !.tool = i, !.calls = q]
           e == Event("start", t.st.next, "tool")
<1>1. u = [out |-> b.out, st |-> s]
  BY DEF StartCall
<1>2. "tool" \in BlockTypes /\ "tool" \in Types /\ "tool" \in Types \cup Reasons
      /\ "start" \in Kinds
  BY DEF BlockTypes, Types, Kinds
<1>3. t.st.next \in Nat /\ t.st.next \in Int
  <2>1. t.st.next \in Nat
    BY DEF Translation, State
  <2> QED
    BY <2>1, Numbering, Zenon
<1>5. e \in Emitted /\ e.kind = "start" /\ e.index = t.st.next /\ e.type = "tool"
  BY <1>2, <1>3, EventTyped
<1> HIDE DEF e
<1>6. Opens(t, c, b, "tool", g)
  BY <1>2, OpenBlockGood
<1> HIDE DEF c, b
<1>7. /\ b \in Translation
      /\ b.st.type = "tool" /\ b.st.index = t.st.next /\ b.st.next = t.st.next + 1
      /\ DOMAIN b.st.calls = DOMAIN t.st.calls
      /\ c \in Translation /\ Rested(t.st, c.st) /\ Good(c.st, c.out, g)
      /\ b.st.calls = c.st.calls
      /\ b.out = c.out \o <<e>>
  BY <1>6 DEF Opens, e
<1>8. b.st \in State /\ b.st.calls \in Calls /\ b.out \in Seq(Emitted)
  BY <1>7 DEF Translation, State
<1>9. /\ c.st \in State /\ c.out \in Seq(Emitted)
      /\ c.st.type = "" /\ c.st.next = t.st.next
  BY <1>7 DEF Translation, Rested
<1>10. /\ q \in Calls /\ DOMAIN q = DOMAIN b.st.calls \cup {i}
       /\ q[i].index = t.st.next /\ ~q[i].closed
       /\ \A j \in DOMAIN b.st.calls : j # i => q[j] = b.st.calls[j]
  <2>1. WithCall(q, b.st.calls, i, t.st.next)
    BY <1>3, <1>8, CallAdded
  <2> HIDE DEF q
  <2> QED
    BY <2>1 DEF WithCall
<1> HIDE DEF q
<1>11. /\ s \in State /\ s.type = "tool" /\ s.tool = i /\ s.calls = q
       /\ s.index = t.st.next /\ s.next = t.st.next + 1
  <2>1. i \in Int
    OBVIOUS
  <2> QED
    BY <1>7, <1>8, <1>10, <2>1 DEF State
<1> HIDE DEF s
<1>12. Opened(c.st, s)
  <2>1. \A j \in DOMAIN c.st.calls : j \in DOMAIN s.calls /\ s.calls[j] = c.st.calls[j]
    BY <1>7, <1>10, <1>11
  <2>2. \A j \in DOMAIN s.calls : j \in DOMAIN c.st.calls \/ s.tool = j
    BY <1>7, <1>10, <1>11
  <2>3. /\ s.tool \in DOMAIN s.calls /\ s.tool \notin DOMAIN c.st.calls
        /\ s.calls[s.tool].index = c.st.next /\ ~s.calls[s.tool].closed
    BY <1>7, <1>9, <1>10, <1>11
  <2> QED
    BY <1>9, <1>11, <2>1, <2>2, <2>3 DEF Opened
<1>13. b.out = Append(c.out, e)
  BY <1>5, <1>7, <1>9, OneMore, Zenon
<1>14. Good(s, b.out, g)
  BY <1>5, <1>7, <1>9, <1>11, <1>12, <1>13, OpenedGood
<1>15. u.st = s /\ u.out = b.out /\ u \in Translation
  BY <1>1, <1>8, <1>11 DEF Translation
<1>16. Unclosed(u.st)
  BY <1>10, <1>11, <1>15 DEF Unclosed
<1> QED
  BY <1>7, <1>10, <1>11, <1>14, <1>15, <1>16 DEF Taking

\* A known call becomes the active one again, though its block was stopped.
LEMMA ResumeCallGood ==
  ASSUME NEW t \in Translation, NEW g \in Seq(Piece), Good(t.st, t.out, g),
         NEW i \in Nat, i \in DOMAIN t.st.calls, NEW u, u = ResumeCall(t, i)
  PROVE  Taking(t, u, g, i)
<1> DEFINE c == closeActiveBlock(t)
           k == "tool"
           s == [c.st EXCEPT !.type = k, !.index = t.st.calls[i].index, !.tool = i]
<1>1. u = [out |-> c.out, st |-> s]
  BY DEF ResumeCall
<1>2. c \in Translation /\ Rested(t.st, c.st) /\ Good(c.st, c.out, g)
  BY CloseGood
<1> HIDE DEF c
<1>3. /\ c.st \in State /\ c.out \in Seq(Emitted) /\ c.st.type = ""
      /\ DOMAIN c.st.calls = DOMAIN t.st.calls
      /\ c.st.calls[i].index = t.st.calls[i].index
  BY <1>2 DEF Translation, Rested
<1>4. t.st.calls[i].index \in Int /\ i \in Int /\ k \in Types
  <2>1. t.st.calls[i].index \in Nat
    BY CallsTyped DEF Translation, Call
  <2>2. i \in Int /\ t.st.calls[i].index \in Int
    BY <2>1, Numbering, Zenon
  <2> QED
    BY <2>2 DEF Types
<1> HIDE DEF k
<1>5. /\ s \in State /\ s.type = k /\ s.tool = i /\ s.calls = c.st.calls
      /\ s.index = c.st.calls[i].index /\ s.next = c.st.next
  BY <1>3, <1>4 DEF State
<1> HIDE DEF s
<1>6. Good(s, c.out, g)
  BY <1>2, <1>3, <1>5, ResumedGood DEF k
<1>7. u.st = s /\ u.out = c.out /\ u \in Translation
  <2>1. u.st = s /\ u.out = c.out
    BY <1>1
  <2>2. c.out \in Seq(Emitted) /\ s \in State
    BY <1>3, <1>5
  <2> QED
    BY <1>1, <2>1, <2>2 DEF Translation
<1>8. DOMAIN u.st.calls = DOMAIN t.st.calls \cup {i}
  BY <1>3, <1>5, <1>7
<1> QED
  BY <1>5, <1>6, <1>7, <1>8 DEF Taking, k

--------------------------------------------------------------------------------
(* The translation of one delta.                                             *)

\* The invariant of a translation between two pieces.
Fine(t, g) ==
  t \in Translation /\ g \in Seq(Piece) /\ Good(t.st, t.out, g) /\ Follows(t.st, g)

\* A known call that is not active was sent for before the last piece.
LEMMA TakenUp ==
  ASSUME NEW st \in State, NEW o, NEW g \in Seq(Piece), Good(st, o, g), Follows(st, g),
         NEW i \in Nat, i \in DOMAIN st.calls, ~IsActive(st, i),
         NEW w \in Piece, w.call = i
  PROVE  TakenUpAgain(Append(g, w), i)
<1>1. st.type # "" /\ Len(g) > 0 /\ g[Len(g)].call = st.tool
  BY DEF Follows
<1>2. st.tool # i
  <2>1. Active(st, o)
    BY DEF Good, Blocks
  <2>2. NoIndex # i
    BY DEF NoIndex
  <2> QED
    BY <2>1, <2>2 DEF Active, IsActive
<1>3. PICK n \in 1..Len(g) : g[n].call = i
  BY DEF Follows
<1>4. /\ Len(g) \in Nat /\ Len(Append(g, w)) = Len(g) + 1
      /\ Append(g, w)[Len(g) + 1] = w
      /\ \A m \in 1..Len(g) : Append(g, w)[m] = g[m]
  OBVIOUS
<1> DEFINE h == Append(g, w)
           L == Len(g)
<1>5. n < L
  <2>1. n # L
    BY <1>1, <1>2, <1>3
  <2>2. n \in 1..L /\ L \in Nat
    BY <1>4
  <2> HIDE DEF L
  <2> QED
    BY <2>1, <2>2
<1>6. h[n].call = i /\ h[L].call # i /\ h[L + 1].call = i
  <2>1. L \in 1..L
    BY <1>1, <1>4, Positions, Zenon
  <2> QED
    BY <1>1, <1>2, <1>3, <1>4, <2>1
<1>7. n \in 1..(L + 1) /\ L \in 1..(L + 1) /\ L + 1 \in 1..(L + 1) /\ L < L + 1
  BY <1>1, <1>4, Positions, Zenon
<1>8. Len(h) = L + 1
  BY <1>4
<1> HIDE DEF h, L
<1>9. TakenUpAgain(h, i)
  BY <1>5, <1>6, <1>7, <1>8 DEF TakenUpAgain
<1> QED
  BY <1>9 DEF h

\* A call that was taken up again stays one, whatever is given next.
LEMMA TakenUpRemains ==
  ASSUME NEW g \in Seq(Piece), NEW w \in Piece, NEW i, TakenUpAgain(g, i)
  PROVE  TakenUpAgain(Append(g, w), i)
  BY DEF TakenUpAgain

\* A piece of a block that is active when it is given.
LEMMA FollowsMore ==
  ASSUME NEW st, NEW s, NEW g, NEW w, NEW h, More(g, w, h),
         Follows(st, g), s.type # "", s.tool = w.call,
         DOMAIN s.calls \subseteq DOMAIN st.calls \cup {w.call},
         s.type = "tool" /\ s.calls[s.tool].closed => TakenUpAgain(h, s.tool)
  PROVE  Follows(s, h)
<1>1. /\ Len(g) \in Nat /\ Len(h) = Len(g) + 1 /\ h[Len(h)] = w
      /\ \A m \in 1..Len(g) : h[m] = g[m] /\ m \in 1..Len(h)
      /\ Len(h) > 0 /\ Len(h) \in 1..Len(h)
  <2>1. /\ Len(g) \in Nat /\ Len(h) = Len(g) + 1 /\ h[Len(g) + 1] = w
        /\ \A m \in 1..Len(g) : h[m] = g[m]
    BY DEF More
  <2>2. /\ \A m \in 1..Len(g) : m \in 1..(Len(g) + 1)
        /\ Len(g) + 1 > 0 /\ Len(g) + 1 \in 1..(Len(g) + 1)
    BY <2>1, Positions, Zenon
  <2> QED
    BY <2>1, <2>2
<1>2. ASSUME NEW i \in DOMAIN s.calls PROVE \E n \in 1..Len(h) : h[n].call = i
  <2>1. CASE i = w.call
    BY <1>1, <2>1
  <2>2. CASE i \in DOMAIN st.calls
    <3>1. PICK n \in 1..Len(g) : g[n].call = i
      BY <2>2 DEF Follows
    <3> QED
      BY <1>1, <3>1
  <2> QED
    BY <2>1, <2>2
<1> QED
  BY <1>1, <1>2 DEF Follows

\* A thought or a text and the piece it is given by.
LEMMA SayFine ==
  ASSUME NEW t, NEW g, Fine(t, g), NEW k \in Said, NEW event \in Nat, NEW w,
         w = [type |-> k, event |-> event, call |-> NoIndex, worded |-> TRUE],
         NEW u, u = Say(t, k, event)
  PROVE  Fine(u, Append(g, w))
<1>1. /\ t \in Translation /\ g \in Seq(Piece)
      /\ Good(t.st, t.out, g) /\ Follows(t.st, g)
  BY DEF Fine
<1>2. /\ u \in Translation /\ w \in Piece /\ Good(u.st, u.out, Append(g, w))
      /\ u.st.type = k /\ u.st.tool = NoIndex
      /\ DOMAIN u.st.calls = DOMAIN t.st.calls
  BY <1>1, SayGood
<1>3. u.st.type # "" /\ u.st.type # "tool" /\ w.call = NoIndex
  BY <1>2 DEF Said
<1>4. Follows(u.st, Append(g, w))
  BY <1>1, <1>2, <1>3, PieceAppended, FollowsMore
<1>5. Append(g, w) \in Seq(Piece)
  BY <1>1, <1>2, OneMore, Zenon
<1> QED
  BY <1>2, <1>4, <1>5 DEF Fine

\* A fragment of a call, new, known or active, and the piece it is given by.
LEMMA ToolFragmentFine ==
  ASSUME NEW t, NEW g, Fine(t, g), NEW i \in Nat, NEW args \in BOOLEAN, NEW event \in Nat,
         NEW w \in Piece, w.type = "tool", w.event = event, w.call = i, w.worded = args,
         NEW u, u = ToolFragment(t, i, args, event)
  PROVE  Fine(u, Append(g, w))
<1>1. /\ t \in Translation /\ g \in Seq(Piece) /\ t.st \in State
      /\ Good(t.st, t.out, g) /\ Follows(t.st, g)
  BY DEF Fine, Translation
<1>2. /\ w \in Piece /\ w.worded = args /\ w.type = "tool" /\ w.event = event
      /\ w.call = i /\ i \in Int
  OBVIOUS
<1> DEFINE v == CASE i \notin DOMAIN t.st.calls -> StartCall(t, i)
                  [] i \in DOMAIN t.st.calls /\ ~IsActive(t.st, i) -> ResumeCall(t, i)
                  [] OTHER -> t
           e == Content(v.st.index, "tool", event, i)
           h == Append(g, w)
<1>3. u = IF args THEN [st |-> v.st, out |-> v.out \o <<e>>] ELSE v
  BY DEF ToolFragment, Emit
<1> HIDE DEF h
<1>4. Taking(t, v, g, i) /\ (Unclosed(v.st) \/ TakenUpAgain(h, i))
  <2>1. CASE i \notin DOMAIN t.st.calls
    <3>1. v = StartCall(t, i)
      BY <2>1
    <3> HIDE DEF v
    <3> QED
      BY <1>1, <2>1, <3>1, StartCallGood
  <2>2. CASE i \in DOMAIN t.st.calls /\ ~IsActive(t.st, i)
    <3>1. v = ResumeCall(t, i)
      BY <2>2
    <3> HIDE DEF v
    <3>2. Taking(t, v, g, i)
      BY <1>1, <2>2, <3>1, ResumeCallGood
    <3>3. TakenUpAgain(h, i)
      BY <1>1, <1>2, <2>2, TakenUp DEF h
    <3> QED
      BY <3>2, <3>3
  <2>3. CASE i \in DOMAIN t.st.calls /\ IsActive(t.st, i)
    <3>1. v = t
      BY <2>3
    <3> HIDE DEF v
    <3>2. t.st.type = "tool" /\ t.st.tool = i
      BY <2>3 DEF IsActive
    <3>3. Taking(t, t, g, i)
      BY <1>1, <2>3, <3>2 DEF Taking
    <3>4. ~Unclosed(t.st) => TakenUpAgain(g, i)
      BY <1>1, <3>2 DEF Unclosed, Follows
    <3>5. Unclosed(t.st) \/ TakenUpAgain(h, i)
      BY <1>1, <1>2, <3>4, TakenUpRemains DEF h
    <3> QED
      BY <3>1, <3>3, <3>5
  <2> QED
    BY <2>1, <2>2, <2>3
<1> HIDE DEF v
<1>5. /\ v \in Translation /\ Good(v.st, v.out, g) /\ v.st.type = "tool" /\ v.st.tool = i
      /\ DOMAIN v.st.calls = DOMAIN t.st.calls \cup {i}
      /\ v.st \in State /\ v.out \in Seq(Emitted) /\ v.st.index \in Int
  BY <1>4 DEF Taking, Translation, State
<1>6. Follows(v.st, h)
  <2>1. v.st.type # "" /\ v.st.tool = w.call
    BY <1>2, <1>5
  <2>2. v.st.calls[v.st.tool].closed => TakenUpAgain(h, v.st.tool)
    BY <1>4, <1>5 DEF Unclosed
  <2> QED
    BY <1>1, <1>2, <1>5, <2>1, <2>2, PieceAppended, FollowsMore DEF h
<1>7. h \in Seq(Piece)
  BY <1>1, <1>2, OneMore, Zenon DEF h
<1>8. CASE args
  <2>1. /\ e \in Emitted /\ e.kind = "delta" /\ e.index = v.st.index /\ e.type = v.st.type
        /\ e.event = event /\ e.call = i
    BY <1>2, <1>5 DEF Content, Emitted, Kinds, Types
  <2> HIDE DEF e
  <2> DEFINE p == Append(v.out, e)
  <2>2. u = [st |-> v.st, out |-> p]
    <3>1. v.out \o <<e>> = p
      BY <1>5, <2>1, OneMore, Zenon
    <3>2. u = [st |-> v.st, out |-> v.out \o <<e>>]
      BY <1>3, <1>8
    <3> QED
      BY <3>1, <3>2
  <2>3. p \in Seq(Emitted) /\ Good(v.st, p, h)
    <3>1. Unclosed(v.st) \/ (v.st.type = "tool" /\ TakenUpAgain(h, w.call))
      BY <1>2, <1>4, <1>5
    <3>2. v.st.type # ""
      BY <1>5
    <3>3. /\ w.worded /\ w.type = e.type /\ w.event = e.event /\ w.call = e.call
          /\ e.call = v.st.tool
      BY <1>2, <1>5, <1>8, <2>1
    <3>4. /\ v.st \in State /\ v.out \in Seq(Emitted) /\ g \in Seq(Piece) /\ w \in Piece
          /\ Good(v.st, v.out, g) /\ h = Append(g, w)
      BY <1>1, <1>2, <1>5 DEF h
    <3>5. /\ e \in Emitted /\ e.kind = "delta" /\ e.index = v.st.index
          /\ e.type = v.st.type
      BY <2>1
    <3>6. p = Append(v.out, e)
      OBVIOUS
    <3> HIDE DEF p, e
    <3> QED
      BY <3>1, <3>2, <3>3, <3>4, <3>5, <3>6, ContentGood
  <2> HIDE DEF p
  <2>4. u.st = v.st /\ u.out = p /\ u \in Translation
    BY <1>5, <2>2, <2>3 DEF Translation
  <2> QED
    BY <1>6, <1>7, <2>3, <2>4 DEF Fine, h
<1>9. CASE ~args
  <2>1. u = v
    BY <1>3, <1>9
  <2>2. Good(v.st, v.out, h)
    BY <1>1, <1>2, <1>5, <1>9, GivenGood DEF h
  <2> QED
    BY <1>5, <1>6, <1>7, <2>1, <2>2 DEF Fine, h
<1> QED
  BY <1>8, <1>9

\* The fragments taken in a set of numbers, the largest one last: FoldLeft's iteration.
Folded(t, tools, event, idx, k, f) ==
  f = [T \in SUBSET (1..k) |->
         IF T = {} THEN t
         ELSE ToolFragment(f[T \ {Max(T)}], CallOf(tools, idx[Max(T)]),
                           tools[idx[Max(T)]].args, event)]

\* The iteration exists for any number of fragments, by induction over it.
LEMMA FoldExists ==
  ASSUME NEW t, NEW tools, NEW event, NEW idx, NEW n \in Nat
  PROVE  \E f : Folded(t, tools, event, idx, n, f)
<1> DEFINE Step(u, m) == ToolFragment(u, CallOf(tools, idx[m]), tools[idx[m]].args, event)
           S == {k \in Nat : \E f : Folded(t, tools, event, idx, k, f)}
<1>1. 0 \in S
  <2> DEFINE f == [T \in SUBSET (1..0) |-> t]
  <2>1. Folded(t, tools, event, idx, 0, f)
    BY DEF Folded
  <2> QED
    BY <2>1
<1>2. ASSUME NEW k \in Nat, k \in S PROVE k + 1 \in S
  <2>1. PICK f : Folded(t, tools, event, idx, k, f)
    BY <1>2
  <2> HIDE DEF S
  <2>2. \A T \in SUBSET (1..k) : f[T] = IF T = {} THEN t ELSE Step(f[T \ {Max(T)}], Max(T))
    BY <2>1 DEF Folded
  <2> HIDE DEF Step
  <2> DEFINE h == [T \in SUBSET (1..(k + 1)) |->
                     IF k + 1 \in T THEN Step(f[T \ {k + 1}], k + 1) ELSE f[T]]
  <2>3. ASSUME NEW T \in SUBSET (1..(k + 1))
        PROVE  h[T] = IF T = {} THEN t ELSE Step(h[T \ {Max(T)}], Max(T))
    <3>1. CASE k + 1 \in T
      <4>1. Max(T) = k + 1
        <5>1. Max(T) \in 1..(k + 1) /\ Max(T) >= k + 1
          <6>1. k + 1 \in Nat /\ T # {} /\ k + 1 \in T
            BY <3>1
          <6> QED
            BY <6>1, MaxOfBounded
        <5> QED
          BY <5>1
      <4>2. T \ {k + 1} \in SUBSET (1..(k + 1)) /\ k + 1 \notin T \ {k + 1} /\ T # {}
        BY <3>1
      <4>3. h[T \ {k + 1}] = f[T \ {k + 1}] /\ h[T] = Step(f[T \ {k + 1}], k + 1)
        BY <3>1, <4>2
      <4> QED
        BY <4>1, <4>2, <4>3
    <3>2. CASE k + 1 \notin T
      <4>1. T \in SUBSET (1..k) /\ h[T] = f[T]
        BY <3>2
      <4>2. \A U \in SUBSET T : h[U] = f[U]
        BY <3>2
      <4>3. f[T] = IF T = {} THEN t ELSE Step(f[T \ {Max(T)}], Max(T))
        BY <2>2, <4>1
      <4>4. h[T \ {Max(T)}] = f[T \ {Max(T)}]
        BY <4>2
      <4> QED
        BY <4>1, <4>3, <4>4
    <3> QED
      BY <3>1, <3>2
  <2>4. h = [T \in SUBSET (1..(k + 1)) |-> h[T]]
    OBVIOUS
  <2> HIDE DEF h
  <2>5. Folded(t, tools, event, idx, k + 1, h)
    BY <2>3, <2>4 DEF Folded, Step
  <2> QED
    BY <2>5 DEF S
<1> HIDE DEF S
<1>3. n \in S
  BY <1>1, <1>2, SuccessorInduction
<1> QED
  BY <1>3 DEF S

\* CallTools takes one fragment after the other.
LEMMA CallToolsSteps ==
  ASSUME NEW t, NEW tools \in Seq(Fragment), NEW event
  PROVE  \E v : /\ v[0] = t /\ CallTools(t, tools, event) = v[Len(tools)]
                /\ \A i \in 1..Len(tools) :
                     v[i] = ToolFragment(v[i - 1], CallOf(tools, i), tools[i].args, event)
<1> DEFINE n == Len(tools)
           idx == [i \in DOMAIN tools |-> i]
<1>0. n \in Nat
  OBVIOUS
<1>1. /\ n \in Nat /\ DOMAIN tools = 1..n /\ DOMAIN idx = 1..n
      /\ \A i \in 1..n : idx[i] = i
  OBVIOUS
<1> HIDE DEF idx
<1>2. PICK f : Folded(t, tools, event, idx, n, f) /\ CallTools(t, tools, event) = f[1..n]
  <2>1. \E f : Folded(t, tools, event, idx, n, f)
    BY <1>1, FoldExists
  <2> DEFINE c == CHOOSE f : Folded(t, tools, event, idx, n, f)
  <2>2. Folded(t, tools, event, idx, n, c)
    BY <2>1
  <2>3. CallTools(t, tools, event) = c[1..n]
    BY <1>1 DEF CallTools, FoldLeftDomain, FoldLeft, MapThenFoldSet, Folded, idx
  <2> QED
    BY <2>2, <2>3
<1> DEFINE v == [i \in 0..n |-> f[1..i]]
<1>3. v[0] = t
  <2>1. 1..0 = {} /\ f[{}] = t
    BY <1>2 DEF Folded
  <2> QED
    BY <1>1, <2>1
<1>4. ASSUME NEW i \in 1..n
      PROVE  v[i] = ToolFragment(v[i - 1], CallOf(tools, i), tools[i].args, event)
  <2>0. i \in Nat /\ i > 0 /\ i <= n
    BY <1>1
  <2> HIDE DEF n
  <2>1. 1..i \in SUBSET (1..n) /\ 1..i # {} /\ i \in Nat /\ i > 0
    <3>1. 1..i \subseteq 1..n
      BY <1>0, <2>0
    <3>2. i \in 1..i
      BY <2>0
    <3> QED
      BY <2>0, <3>1, <3>2
  <2>2. f[1..i] = ToolFragment(f[(1..i) \ {Max(1..i)}], CallOf(tools, idx[Max(1..i)]),
                               tools[idx[Max(1..i)]].args, event)
    BY <1>2, <2>1 DEF Folded
  <2>3. Max(1..i) = i /\ (1..i) \ {i} = 1..(i - 1) /\ idx[i] = i
    BY <1>1, <2>1, MaxOfInterval
  <2>4. i \in 0..n /\ i - 1 \in 0..n
    BY <1>0, <2>0
  <2> QED
    BY <2>2, <2>3, <2>4
<1>5. CallTools(t, tools, event) = v[n]
  BY <1>1, <1>2
<1> HIDE DEF v
<1> QED
  BY <1>3, <1>4, <1>5
\* What a fragment of a delta gives.
FragmentPiece(tools, n, event) ==
  [type |-> "tool", event |-> event, call |-> CallOf(tools, n), worded |-> tools[n].args]
Given(tools, n, event) == [m \in 1..n |-> FragmentPiece(tools, m, event)]

\* A fragment names a call, by its index or by its position.
LEMMA FragmentTyped ==
  ASSUME NEW tools \in Seq(Fragment), NEW n \in 1..Len(tools), NEW event \in Nat
  PROVE  /\ CallOf(tools, n) \in Nat /\ tools[n].args \in BOOLEAN
         /\ FragmentPiece(tools, n, event) \in Piece
<1>1. tools[n] \in Fragment
  OBVIOUS
<1>2. tools[n].args \in BOOLEAN /\ (tools[n].index = NoIndex \/ tools[n].index \in Nat)
  BY <1>1 DEF Fragment
<1>3. n - 1 \in Nat
  OBVIOUS
<1>4. CallOf(tools, n) \in Nat
  BY <1>2, <1>3 DEF CallOf
<1>5. CallOf(tools, n) \in Int
  BY <1>4
<1>6. "tool" \in Types
  BY DEF Types
<1> QED
  BY <1>2, <1>4, <1>5, <1>6 DEF FragmentPiece, Piece

\* One fragment more.
LEMMA GivenMore ==
  ASSUME NEW tools \in Seq(Fragment), NEW event \in Nat, NEW n \in 0..(Len(tools) - 1)
  PROVE  /\ Given(tools, n, event) \in Seq(Piece) /\ Given(tools, 0, event) = <<>>
         /\ Given(tools, n + 1, event)
              = Append(Given(tools, n, event), FragmentPiece(tools, n + 1, event))
<1> DEFINE f == [m \in 1..(n + 1) |-> FragmentPiece(tools, m, event)]
<1>1. n \in Nat /\ \A m \in 1..(n + 1) : m \in 1..Len(tools)
  OBVIOUS
<1>2. f \in [1..(n + 1) -> Piece]
  BY <1>1, FragmentTyped
<1>3. /\ [m \in 1..(n + 1) |-> f[m]] = Append([m \in 1..n |-> f[m]], f[n + 1])
      /\ [m \in 1..n |-> f[m]] \in Seq(Piece)
  <2> HIDE DEF f
  <2> QED
    BY <1>1, <1>2, SequenceOfFunction
<1>4. f[n + 1] = FragmentPiece(tools, n + 1, event)
  BY <1>1
<1>5. [m \in 1..(n + 1) |-> f[m]] = Given(tools, n + 1, event)
  BY DEF Given
<1>6. [m \in 1..n |-> f[m]] = Given(tools, n, event)
  <2>1. \A m \in 1..n : f[m] = FragmentPiece(tools, m, event)
    BY <1>1
  <2> HIDE DEF f
  <2> QED
    BY <2>1 DEF Given
<1>7. Given(tools, 0, event) = <<>>
  BY DEF Given
<1> QED
  BY <1>3, <1>4, <1>5, <1>6, <1>7

\* The pieces of all the fragments.
LEMMA GivenTyped ==
  ASSUME NEW tools \in Seq(Fragment), NEW event \in Nat
  PROVE  Given(tools, Len(tools), event) \in Seq(Piece)
<1> DEFINE n == Len(tools)
           f == [m \in 1..n |-> FragmentPiece(tools, m, event)]
<1>1. f \in [1..n -> Piece] /\ n \in Nat
  BY FragmentTyped
<1>2. f = Given(tools, n, event)
  BY DEF Given
<1> HIDE DEF f, n
<1>3. f \in Seq(Piece)
  BY <1>1
<1> QED
  BY <1>2, <1>3 DEF n

\* A piece after some that follow others.
LEMMA PieceAfterPieces ==
  \A g, a \in Seq(Piece), w \in Piece : \A b :
    b = Append(a, w) => g \o b = Append(g \o a, w)
<1> SUFFICES ASSUME NEW g \in Seq(Piece), NEW a \in Seq(Piece), NEW w \in Piece
             PROVE  g \o Append(a, w) = Append(g \o a, w)
  OBVIOUS
<1> QED
  BY ConcatenatedOne

\* The fragments of a delta, whatever their calls.
LEMMA CallToolsFine ==
  ASSUME NEW t, NEW g, Fine(t, g), NEW tools \in Seq(Fragment), NEW event \in Nat
  PROVE  Fine(CallTools(t, tools, event), g \o Given(tools, Len(tools), event))
<1> DEFINE n == Len(tools)
<1>1. n \in Nat /\ g \in Seq(Piece)
  BY DEF Fine
<1>2. PICK v : /\ v[0] = t /\ CallTools(t, tools, event) = v[n]
               /\ \A i \in 1..n :
                    v[i] = ToolFragment(v[i - 1], CallOf(tools, i), tools[i].args, event)
  BY CallToolsSteps, SMTT(30)
<1> DEFINE H(i) == g \o Given(tools, i, event)
           S == {i \in 0..n : Fine(v[i], H(i))}
<1>3. 0 \in S
  <2>1. Given(tools, 0, event) = <<>>
    BY DEF Given
  <2>2. H(0) = g
    BY <1>1, <2>1, Concatenated
  <2>3. 0 \in 0..n
    BY <1>1
  <2> HIDE DEF H
  <2>4. Fine(v[0], H(0))
    BY <1>2, <2>2
  <2> QED
    BY <2>3, <2>4
<1>4. ASSUME NEW i \in 0..(n - 1), i \in S PROVE i + 1 \in S
  <2> DEFINE w == FragmentPiece(tools, i + 1, event)
  <2>1. i + 1 \in 1..n /\ (i + 1) - 1 = i /\ i + 1 \in 0..n
    BY <1>1
  <2>2. v[i + 1] = ToolFragment(v[i], CallOf(tools, i + 1), tools[i + 1].args, event)
    BY <1>2, <2>1
  <2>3. Fine(v[i], H(i))
    BY <1>4
  <2>4. CallOf(tools, i + 1) \in Nat /\ tools[i + 1].args \in BOOLEAN /\ w \in Piece
    BY <2>1, FragmentTyped
  <2>5. /\ w.type = "tool" /\ w.event = event /\ w.call = CallOf(tools, i + 1)
        /\ w.worded = tools[i + 1].args
    BY DEF FragmentPiece
  <2>6. H(i + 1) = Append(H(i), w)
    <3>1. /\ Given(tools, i, event) \in Seq(Piece)
          /\ Given(tools, i + 1, event) = Append(Given(tools, i, event), w)
      BY GivenMore
    <3> DEFINE a == Given(tools, i, event)
               b == Given(tools, i + 1, event)
    <3> HIDE DEF w, a, b
    <3>2. a \in Seq(Piece) /\ b = Append(a, w)
      BY <3>1 DEF a, b
    <3>3. g \o b = Append(g \o a, w)
      BY <1>1, <2>4, <3>2, PieceAfterPieces, ZenonT(60)
    <3> QED
      BY <3>3 DEF a, b
  <2> HIDE DEF w, H
  <2>7. Fine(v[i + 1], Append(H(i), w))
    BY <2>2, <2>3, <2>4, <2>5, ToolFragmentFine
  <2> QED
    BY <2>1, <2>6, <2>7
<1> HIDE DEF S
<1>5. 0..n \subseteq S
  BY <1>1, <1>3, <1>4, BoundedInduction
<1>6. n \in 0..n
  BY <1>1
<1> QED
  BY <1>2, <1>5, <1>6 DEF S

\* What a thought or a text gives.
Wording(k, event) == [type |-> k, event |-> event, call |-> NoIndex, worded |-> TRUE]
Wordings(k, here, event) == IF here THEN <<Wording(k, event)>> ELSE <<>>

\* The thought, or the text, that a delta may hold.
LEMMA WordingFine ==
  ASSUME NEW t, NEW g, Fine(t, g), NEW k \in Said, NEW here \in BOOLEAN, NEW event \in Nat
  PROVE  /\ Wordings(k, here, event) \in Seq(Piece)
         /\ Fine(IF here THEN Say(t, k, event) ELSE t, g \o Wordings(k, here, event))
<1> DEFINE w == Wording(k, event)
<1>1. w \in Piece
  <2>1. NoIndex \in Int
    BY DEF NoIndex
  <2>2. Said \subseteq Types
    BY DEF Said, Types
  <2>3. k \in Types
    BY <2>2
  <2> QED
    BY <2>1, <2>3 DEF Wording, Piece
<1>2. g \in Seq(Piece) /\ <<>> \in Seq(Piece)
  BY DEF Fine
<1>3. CASE here
  <2>1. Fine(Say(t, k, event), Append(g, w))
    BY SayFine DEF Wording
  <2> HIDE DEF w
  <2>2. <<w>> \in Seq(Piece)
    BY <1>1
  <2>3. g \o <<w>> = Append(g, w)
    BY <1>1, <1>2, OneMore, Zenon
  <2> QED
    BY <1>3, <2>1, <2>2, <2>3 DEF Wordings, w
<1>4. CASE ~here
  <2>1. g \o <<>> = g
    BY <1>2, Concatenated
  <2> QED
    BY <1>2, <1>4, <2>1 DEF Wordings
<1> QED
  BY <1>3, <1>4

\* A StreamState that differs only in what the blocks do not depend on.
SameBlocks(st, s) == /\ s.next = st.next /\ s.type = st.type /\ s.index = st.index
                     /\ s.tool = st.tool /\ s.calls = st.calls

\* The blocks are still known, and go on with the pieces.
LEMMA SameBlocksGood ==
  ASSUME NEW st, NEW s, NEW o, NEW g, SameBlocks(st, s), Good(st, o, g), Follows(st, g)
  PROVE  Good(s, o, g) /\ Follows(s, g)
<1>1. Unclosed(s) <=> Unclosed(st)
  BY DEF SameBlocks, Unclosed
<1>2. Numbers(s, o) /\ Active(s, o)
  BY <1>1 DEF SameBlocks, Good, Blocks, Numbers, Active
<1>3. CallsStarted(s, o)
  BY DEF SameBlocks, Good, Blocks, CallsStarted
<1>4. Follows(s, g)
  BY DEF SameBlocks, Follows
<1> QED
  BY <1>2, <1>3, <1>4 DEF Good, Blocks

\* The start or the last delta of a message, which relate to no block.
LEMMA AnnouncedGood ==
  ASSUME NEW st \in State, NEW o \in Seq(Emitted), NEW g \in Seq(Piece), Good(st, o, g),
         NEW e \in Emitted, e.kind \in {"message_start", "message_delta"},
         NEW p, p = Append(o, e)
  PROVE  p \in Seq(Emitted) /\ Good(st, p, g)
<1>1. /\ e.kind \notin {"start", "stop", "message_stop"} /\ e.kind # "delta"
      /\ e.kind \notin {"delta", "signature"} /\ ~IsFragment(e)
  BY DEF IsFragment
<1>2. Fits(o, g, e)
  BY <1>1 DEF Fits
<1>3. Relayed(p, g) /\ Extends(g, g) /\ p \in Seq(Emitted)
  BY <1>1, RelayedSilently, ExtendsItself, PrefixKept DEF Good
<1> QED
  BY <1>1, <1>2, <1>3, EmittedGood

\* The start of the message, sent once.
LEMMA StartMessageFine ==
  ASSUME NEW t, NEW g, Fine(t, g)
  PROVE  Fine(StartMessage(t), g)
<1>1. /\ t \in Translation /\ g \in Seq(Piece) /\ t.st \in State /\ t.out \in Seq(Emitted)
      /\ Good(t.st, t.out, g) /\ Follows(t.st, g)
  BY DEF Fine, Translation
<1>2. CASE t.st.message_started
  BY <1>2 DEF StartMessage
<1>3. CASE ~t.st.message_started
  <2> DEFINE a == "message_start"
             b == -1
             c == ""
             e == Event(a, b, c)
             s == [t.st EXCEPT !.message_started = TRUE]
             p == Append(t.out, e)
  <2>1. e \in Emitted /\ e.kind = "message_start"
    <3>1. a \in Kinds /\ b \in Int /\ c \in Types \cup Reasons
      BY DEF Kinds, Types
    <3> HIDE DEF a, b, c
    <3>2. e \in Emitted /\ e.kind = a
      BY <3>1, EventTyped
    <3> QED
      BY <3>2 DEF a
  <2>2. s \in State /\ SameBlocks(t.st, s)
    BY <1>1 DEF State, SameBlocks
  <2>3. StartMessage(t) = [st |-> s, out |-> t.out \o <<e>>]
    BY <1>3 DEF StartMessage
  <2> HIDE DEF e, s
  <2>4. t.out \o <<e>> = p
    BY <1>1, <2>1, OneMore, Zenon
  <2>5. p \in Seq(Emitted) /\ Good(t.st, p, g)
    BY <1>1, <2>1, AnnouncedGood
  <2> HIDE DEF p
  <2>6. Good(s, p, g) /\ Follows(s, g)
    BY <1>1, <2>2, <2>5, SameBlocksGood
  <2>7. StartMessage(t) = [st |-> s, out |-> p]
    BY <2>3, <2>4
  <2>8. StartMessage(t) \in Translation
    BY <2>2, <2>5, <2>7 DEF Translation
  <2> QED
    BY <1>1, <2>6, <2>7, <2>8 DEF Fine
<1> QED
  BY <1>2, <1>3

\* The reason a delta gives for the end.
LEMMA FinishFine ==
  ASSUME NEW t, NEW g, Fine(t, g), NEW finish, StopReason(finish) \in Reasons
  PROVE  Fine(Finish(t, finish), g)
<1>1. /\ t \in Translation /\ g \in Seq(Piece) /\ t.st \in State /\ t.out \in Seq(Emitted)
      /\ Good(t.st, t.out, g) /\ Follows(t.st, g)
  BY DEF Fine, Translation
<1>2. CASE finish = ""
  BY <1>2 DEF Finish
<1>3. CASE finish # ""
  <2> DEFINE s == [t.st EXCEPT !.stop_reason = StopReason(finish)]
  <2>1. s \in State /\ SameBlocks(t.st, s)
    BY <1>1 DEF State, SameBlocks
  <2>2. Finish(t, finish) = [st |-> s, out |-> t.out]
    BY <1>3 DEF Finish
  <2> HIDE DEF s
  <2>3. Good(s, t.out, g) /\ Follows(s, g)
    BY <1>1, <2>1, SameBlocksGood
  <2> QED
    BY <1>1, <2>1, <2>2, <2>3 DEF Fine, Translation
<1> QED
  BY <1>2, <1>3

\* What a delta brings: its thought, its text, its fragments.
LEMMA PiecesAre ==
  ASSUME NEW delta, NEW event
  PROVE  Pieces(delta, event) = Wordings("thinking", delta.thinking, event)
                                  \o Wordings("text", delta.text, event)
                                  \o Given(delta.tools, Len(delta.tools), event)
  BY DEF Pieces, Wordings, Wording, Given, FragmentPiece

\* One delta.
LEMMA TranslateFine ==
  ASSUME NEW t, NEW g, Fine(t, g), NEW delta \in Deltas, NEW event \in Nat
  PROVE  Fine(Translate(t, delta, event),
              IF delta.role THEN g ELSE g \o Pieces(delta, event))
<1>1. /\ delta.role \in BOOLEAN /\ delta.thinking \in BOOLEAN /\ delta.text \in BOOLEAN
      /\ delta.tools \in Seq(Fragment) /\ StopReason(delta.finish) \in Reasons
  BY DeltasAssumption DEF Delta, Reasons
<1> DEFINE start == StartMessage(t)
<1>2. Fine(start, g)
  BY StartMessageFine
<1>3. CASE delta.role
  BY <1>2, <1>3 DEF Translate
<1>4. CASE ~delta.role
  <2> DEFINE a == Wordings("thinking", delta.thinking, event)
             b == Wordings("text", delta.text, event)
             c == Given(delta.tools, Len(delta.tools), event)
             thought == IF delta.thinking THEN Say(start, "thinking", event) ELSE start
             said == IF delta.text THEN Say(thought, "text", event) ELSE thought
             called == CallTools(said, delta.tools, event)
  <2>1. "thinking" \in Said /\ "text" \in Said
    BY DEF Said
  <2> HIDE DEF start
  <2>2. a \in Seq(Piece) /\ Fine(thought, g \o a)
    BY <1>1, <1>2, <2>1, WordingFine
  <2> HIDE DEF thought, a
  <2>3. b \in Seq(Piece) /\ Fine(said, (g \o a) \o b)
    BY <1>1, <2>1, <2>2, WordingFine
  <2> HIDE DEF said, b
  <2>4. Fine(called, ((g \o a) \o b) \o c)
    BY <1>1, <2>3, CallToolsFine
  <2>5. c \in Seq(Piece)
    BY <1>1, GivenTyped
  <2> HIDE DEF called, c
  <2>6. Fine(Finish(called, delta.finish), ((g \o a) \o b) \o c)
    BY <1>1, <2>4, FinishFine
  <2>7. Translate(t, delta, event) = Finish(called, delta.finish)
    BY <1>4 DEF Translate, Speak, start, thought, said, called
  <2>8. Pieces(delta, event) = (a \o b) \o c
    BY PiecesAre DEF a, b, c
  <2>9. ((g \o a) \o b) \o c = g \o ((a \o b) \o c)
    <3>1. g \in Seq(Piece)
      BY DEF Fine
    <3>2. (g \o a) \o b = g \o (a \o b) /\ a \o b \in Seq(Piece)
      BY <2>2, <2>3, <3>1, Concatenated
    <3> DEFINE d == a \o b
    <3>3. d \in Seq(Piece)
      BY <3>2
    <3> HIDE DEF d
    <3>4. (g \o d) \o c = g \o (d \o c)
      BY <2>5, <3>1, <3>3, Concatenated
    <3> QED
      BY <3>2, <3>4 DEF d
  <2> QED
    BY <1>4, <2>6, <2>7, <2>8, <2>9
<1> QED
  BY <1>1, <1>3, <1>4

--------------------------------------------------------------------------------
(* The end of a message.                                                     *)

\* The StreamState of no message.
LEMMA FreshGood ==
  /\ FreshState \in State /\ ~Unclosed(FreshState) /\ FreshState.type = ""
  /\ FreshState.tool = NoIndex /\ FreshState.next = 0 /\ DOMAIN FreshState.calls = {}
<1> DEFINE c == <<>>
           r == ""
           k == ""
<1>1. c \in Calls /\ DOMAIN c = {}
  <2>1. c \in [{} -> Call] /\ {} \in SUBSET Nat
    OBVIOUS
  <2> QED
    BY <2>1 DEF Calls
<1>2. r \in Reasons /\ k \in Types /\ k # "tool" /\ k \notin {"thinking", "text"}
  BY DEF Reasons, Types
<1>3. FreshState = [message_started |-> FALSE, stop_reason |-> r, next |-> 0,
                    type |-> k, index |-> -1, tool |-> NoIndex, calls |-> c]
  BY DEF FreshState
<1>4. FreshState.type = k /\ k = ""
  BY <1>3
<1> HIDE DEF c, r, k
<1>5. -1 \in Int /\ NoIndex \in Int /\ 0 \in Nat /\ FALSE \in BOOLEAN
  BY DEF NoIndex
<1>6. FreshState \in State
  BY <1>1, <1>2, <1>3, <1>5 DEF State
<1>7. FreshState.tool = NoIndex /\ FreshState.next = 0 /\ DOMAIN FreshState.calls = {}
  BY <1>1, <1>3
<1>8. ~Unclosed(FreshState)
  BY <1>2, <1>4 DEF Unclosed
<1> QED
  BY <1>4, <1>6, <1>7, <1>8

\* Nothing is known of a message that has no event.
LEMMA FreshBlocks ==
  ASSUME NEW o, Num(o, "start") = 0, Num(o, "stop") = 0, Fragments(o) = {}
  PROVE  Blocks(FreshState, o)
<1>1. Numbers(FreshState, o)
  <2>1. ~Unclosed(FreshState) /\ FreshState.next = 0
    BY FreshGood
  <2>2. 0 - 0 = 0
    OBVIOUS
  <2> QED
    BY <2>1, <2>2 DEF Numbers
<1>2. Active(FreshState, o) /\ CallsStarted(FreshState, o)
  BY FreshGood DEF Active, CallsStarted
<1> QED
  BY <1>1, <1>2 DEF Blocks

\* closeAllToolBlocks finds nothing left to stop.
LEMMA NoOpenCalls ==
  ASSUME NEW t, NEW g, Fine(t, g)
  PROVE  CloseAll(t).out = closeActiveBlock(t).out
<1> DEFINE c == closeActiveBlock(t)
<1>1. /\ t \in Translation /\ g \in Seq(Piece) /\ Good(t.st, t.out, g)
  BY DEF Fine
<1>2. c \in Translation /\ Rested(t.st, c.st) /\ Good(c.st, c.out, g)
  BY <1>1, CloseGood
<1>3. c.st.type # "tool" /\ c.out \in Seq(Emitted)
  BY <1>2 DEF Rested, Translation
<1> HIDE DEF c
<1>4. OpenCalls(c.st) = {}
  BY <1>2, <1>3 DEF OpenCalls, Good, Blocks, CallsStarted
<1>5. {Event("stop", c.st.calls[i].index, "tool") : i \in OpenCalls(c.st)} = {}
  BY <1>4
<1>6. SetToSeq({}) = <<>>
  <2>1. Cardinality({}) = 0
    BY FS_EmptySet
  <2>2. SetToSeq({}) = CHOOSE f \in [1..0 -> {}] : IsInjective(f)
    BY <2>1 DEF SetToSeq
  <2>3. 1..0 = {} /\ \A f \in [1..0 -> {}] : f = <<>>
    OBVIOUS
  <2>4. \E f \in [1..0 -> {}] : IsInjective(f)
    <3>1. <<>> \in [1..0 -> {}] /\ IsInjective(<<>>)
      BY <2>3 DEF IsInjective
    <3> QED
      BY <3>1
  <2> QED
    BY <2>2, <2>3, <2>4
<1>7. CloseAll(t).out = c.out \o <<>>
  BY <1>5, <1>6 DEF CloseAll, Emit, c
<1> QED
  BY <1>3, <1>7, Concatenated DEF c

\* The end mark, after any translation: the message is complete, and the next one has
\* no block yet.
LEMMA EndMessageFine ==
  ASSUME NEW t, NEW g, Fine(t, g)
  PROVE  Fine(EndMessage(t), g)
<1> DEFINE c == closeActiveBlock(t)
           kd == "message_delta"
           ks == "message_stop"
           i == -1
           r == t.st.stop_reason
           none == ""
           d == Event(kd, i, r)
           e == Event(ks, i, none)
           q == Append(c.out, d)
           p == Append(q, e)
<1>1. /\ t \in Translation /\ g \in Seq(Piece) /\ Good(t.st, t.out, g)
      /\ Follows(t.st, g) /\ r \in Reasons
  BY DEF Fine, Translation, State
<1>2. c \in Translation /\ Rested(t.st, c.st) /\ Good(c.st, c.out, g)
  BY <1>1, CloseGood
<1>3. EndMessage(t) = [out |-> c.out \o <<d, e>>, st |-> FreshState]
  BY NoOpenCalls DEF EndMessage
<1>4. /\ kd \in Kinds /\ ks \in Kinds /\ i \in Int /\ none \in Types \cup Reasons
      /\ r \in Types \cup Reasons
  <2>1. kd \in Kinds /\ ks \in Kinds
    BY DEF Kinds
  <2>2. none \in Types
    BY DEF Types
  <2> HIDE DEF none, r, kd, ks
  <2>3. none \in Types \cup Reasons /\ r \in Types \cup Reasons
    BY <1>1, <2>2
  <2> QED
    BY <2>1, <2>3
<1> HIDE DEF c, kd, ks, i, r, none
<1>5. d \in Emitted /\ d.kind = kd /\ e \in Emitted /\ e.kind = ks
  BY <1>4, EventTyped
<1>6. kd = "message_delta" /\ ks = "message_stop"
  BY DEF kd, ks
<1>7. c.st \in State /\ c.out \in Seq(Emitted)
  BY <1>2 DEF Translation
<1> HIDE DEF d, e
<1>8. q \in Seq(Emitted) /\ Good(c.st, q, g)
  BY <1>1, <1>2, <1>5, <1>6, <1>7, AnnouncedGood
<1>9. c.out \o <<d, e>> = p
  BY <1>5, <1>7
<1>10. /\ Len(q) = Len(c.out) + 1 /\ q[Len(c.out) + 1] = d /\ Len(c.out) \in Nat
  BY <1>5, <1>7, PrefixKept
<1>11. Len(q) > 0 /\ q[Len(q)].kind = "message_delta"
  <2>1. q[Len(q)] = d
    BY <1>10
  <2>2. Len(q) > 0
    BY <1>10, Positions
  <2> QED
    BY <1>5, <1>6, <2>1, <2>2
<1> HIDE DEF q
<1>12. Num(q, "start") = Num(q, "stop")
  <2>1. Numbers(c.st, q) /\ c.st.next \in Nat
    BY <1>7, <1>8 DEF Good, Blocks, State
  <2>2. ~Unclosed(c.st)
    BY <1>2 DEF Rested, Unclosed
  <2>3. c.st.next - 0 = c.st.next
    BY <2>1, Numbering, Zenon
  <2> QED
    BY <2>1, <2>2, <2>3 DEF Numbers
<1>13. e.kind = "message_stop" /\ e.kind # "delta" /\ ~IsFragment(e)
  BY <1>5, <1>6 DEF IsFragment
<1>14. Fits(q, g, e)
  BY <1>11, <1>12, <1>13 DEF Fits
<1>15. Right(q, g) /\ Relayed(q, g) /\ Extends(g, g)
  BY <1>1, <1>8, ExtendsItself DEF Good
<1>16. p \in Seq(Emitted) /\ Right(p, g) /\ Relayed(p, g)
  <2>1. p \in Seq(Emitted)
    BY <1>5, <1>8, PrefixKept
  <2>2. Right(p, g)
    BY <1>1, <1>5, <1>8, <1>14, <1>15, RightAppended
  <2>3. Relayed(p, g)
    BY <1>5, <1>8, <1>13, <1>15, RelayedSilently
  <2> QED
    BY <2>1, <2>2, <2>3
<1>17. Num(p, "start") = 0 /\ Num(p, "stop") = 0 /\ Fragments(p) = {}
  BY <1>5, <1>8, <1>13, NumAppended, SetsAppended, ZenonT(60)
<1> HIDE DEF p
<1>18. Good(FreshState, p, g)
  BY <1>16, <1>17, FreshBlocks DEF Good
<1>19. Follows(FreshState, g)
  BY FreshGood DEF Follows
<1>20. EndMessage(t) = [out |-> p, st |-> FreshState]
  BY <1>3, <1>9
<1>21. EndMessage(t) \in Translation
  <2>1. FreshState \in State
    BY FreshGood
  <2> QED
    BY <1>16, <1>20, <2>1 DEF Translation
<1> QED
  BY <1>1, <1>18, <1>19, <1>20, <1>21 DEF Fine

--------------------------------------------------------------------------------
(* The steps.                                                                *)

IInv == /\ Fine(Current, given)
        /\ events \in 0..MaxEvents /\ input \in {"open", "done", "over"}

\* The state of the module as a translation.
LEMMA CurrentIs == Current.st = stream_state /\ Current.out = out
  BY DEF Current

\* At first no message is in progress and nothing was given.
LEMMA InitIInv == Init => IInv
<1> SUFFICES ASSUME Init PROVE IInv
  OBVIOUS
<1>1. /\ stream_state = FreshState /\ out = <<>> /\ given = <<>>
      /\ events \in 0..MaxEvents /\ input \in {"open", "done", "over"}
  BY DeltasAssumption DEF Init
<1>2. Live(out) = {} /\ Sent(out) = {} /\ Worded(given) = {}
  BY <1>1 DEF Live, Sent, Worded
<1>3. Num(out, "start") = 0 /\ Num(out, "stop") = 0 /\ Fragments(out) = {}
  <2>1. {m \in Live(out) : out[m].kind = "start"} = {}
    BY <1>2
  <2>2. {m \in Live(out) : out[m].kind = "stop"} = {}
    BY <1>2
  <2> QED
    BY <1>2, <2>1, <2>2, FS_EmptySet DEF Num, Fragments
<1>4. Right(out, given) /\ Relayed(out, given)
  <2>1. Len(out) = 0 /\ 1..0 = {}
    BY <1>1
  <2>2. Right(out, given)
    BY <2>1 DEF Right
  <2>3. Relayed(out, given)
    BY <1>2 DEF Relayed
  <2> QED
    BY <2>2, <2>3
<1>5. Good(stream_state, out, given)
  BY <1>1, <1>3, <1>4, FreshBlocks DEF Good
<1>6. Follows(stream_state, given)
  BY <1>1, FreshGood DEF Follows
<1>7. Current \in Translation /\ given \in Seq(Piece)
  <2>1. FreshState \in State
    BY FreshGood
  <2>2. out \in Seq(Emitted) /\ given \in Seq(Piece)
    BY <1>1
  <2> QED
    BY <1>1, <2>1, <2>2 DEF Current, Translation
<1> QED
  BY <1>1, <1>5, <1>6, <1>7, CurrentIs DEF Fine, IInv

\* A state that a translation leaves.
LEMMA Applied ==
  ASSUME NEW t, NEW g, Fine(t, g), Apply(t), given' = g
  PROVE  Fine(Current, given)'
<1>1. t = [st |-> t.st, out |-> t.out]
  BY DEF Fine, Translation
<1>2. Current' = t
  BY <1>1 DEF Apply, Current
<1> QED
  BY <1>2 DEF Fine, Good

\* Every step keeps the invariant.
LEMMA NextIInv == IInv /\ [Next]_vars => IInv'
<1> SUFFICES ASSUME IInv, [Next]_vars PROVE IInv'
  OBVIOUS
<1>1. /\ Fine(Current, given)
      /\ events \in 0..MaxEvents /\ input \in {"open", "done", "over"} /\ MaxEvents \in Nat
  BY DeltasAssumption DEF IInv
<1>2. events < MaxEvents /\ events' = events + 1 => events' \in 0..MaxEvents /\ events' \in Nat
  BY <1>1
<1>3. Fine(Current, given)' /\ UNCHANGED input /\ events' \in 0..MaxEvents => IInv'
  BY <1>1 DEF IInv
<1>4. ASSUME UNCHANGED <<stream_state, out, given>> PROVE Fine(Current, given)'
  BY <1>1, <1>4 DEF Current
<1>5. CASE ReadDelta
  <2>1. PICK delta \in Deltas :
          /\ Apply(Translate(Current, delta, events'))
          /\ given' = (IF delta.role THEN given ELSE given \o Pieces(delta, events'))
    BY <1>5 DEF ReadDelta
  <2>2. /\ UNCHANGED input /\ events' \in 0..MaxEvents /\ events' \in Nat
    BY <1>2, <1>5 DEF ReadDelta
  <2>3. \A event \in Nat : Fine(Translate(Current, delta, event),
               IF delta.role THEN given ELSE given \o Pieces(delta, event))
    BY <1>1, TranslateFine
  <2>4. Fine(Translate(Current, delta, events'), given')
    BY <2>1, <2>2, <2>3
  <2> QED
    BY <1>3, <2>1, <2>2, <2>4, Applied
<1>6. CASE ReadNothing
  BY <1>2, <1>3, <1>4, <1>6 DEF ReadNothing
<1>7. CASE ReadDoneLine
  BY <1>1, <1>4, <1>7 DEF ReadDoneLine, IInv
<1>8. CASE ReadDone
  <2>1. /\ Apply(EndMessage(Current)) /\ UNCHANGED <<given, input>>
        /\ events' \in 0..MaxEvents
    BY <1>2, <1>8 DEF ReadDone
  <2>2. Fine(EndMessage(Current), given')
    BY <1>1, <2>1, EndMessageFine
  <2> QED
    BY <1>3, <2>1, <2>2, Applied
<1>9. CASE StreamOver
  BY <1>1, <1>4, <1>9 DEF StreamOver, IInv
<1>10. CASE UNCHANGED vars
  BY <1>1, <1>3, <1>4, <1>10 DEF vars
<1> QED
  BY <1>5, <1>6, <1>7, <1>8, <1>9, <1>10 DEF Next

\* The invariant holds throughout.
LEMMA InvariantAlways == Spec => []IInv
<1> QED
  BY InitIInv, NextIInv, PTL DEF Spec

\* The events and the StreamState have their types: a call's index is a number of a
\* block, the reason for the end is one that a delta gave.
THEOREM TypeAlways == Spec => []TypeOK
<1>1. IInv => TypeOK
  <2> SUFFICES ASSUME IInv PROVE TypeOK
    OBVIOUS
  <2>1. /\ stream_state \in State /\ out \in Seq(Emitted) /\ given \in Seq(Piece)
        /\ events \in 0..MaxEvents /\ input \in {"open", "done", "over"}
    BY CurrentIs DEF IInv, Fine, Translation
  <2>2. DOMAIN stream_state = DOMAIN FreshState
    BY <2>1 DEF State, FreshState
  <2>3. /\ stream_state.message_started \in BOOLEAN /\ stream_state.stop_reason \in Reasons
        /\ stream_state.type \in Types /\ stream_state.next \in Nat
        /\ stream_state.index \in Int /\ stream_state.tool \in Int
    BY <2>1 DEF State
  <2>4. \A i \in DOMAIN stream_state.calls : i \in Nat /\ stream_state.calls[i] \in Call
    BY <2>1, CallsTyped
  <2> QED
    BY <2>1, <2>2, <2>3, <2>4 DEF TypeOK, Emitted, Piece, Call
<1> QED
  BY <1>1, InvariantAlways, PTL

\* The events and the pieces that the invariant speaks of.
LEMMA RightAlways == Spec => [](Right(out, given) /\ Relayed(out, given))
<1>1. IInv => Right(out, given) /\ Relayed(out, given)
  BY CurrentIs DEF IInv, Fine, Good
<1> QED
  BY <1>1, InvariantAlways, PTL

\* closeActiveBlock, before each block is opened, and the counter next_block_index keep
\* the blocks of a message apart: they do not overlap, and are numbered in order.
THEOREM BlocksInSequenceAlways == Spec => []BlocksInSequence
<1>1. Right(out, given) => BlocksInSequence
  BY DEF Right, EventRight, BlocksInSequence
<1> QED
  BY <1>1, RightAlways, PTL

\* A wording goes to an open block of its kind, and a fragment to the block of its call,
\* one block for each call; the block was stopped only if the provider came back to
\* the call.
THEOREM ContentInItsBlockAlways == Spec => []ContentInItsBlock
<1>1. Right(out, given) => ContentInItsBlock
  BY DEF Right, EventRight, ContentInItsBlock
<1> QED
  BY <1>1, RightAlways, PTL

\* Thought, text and arguments that transformStreamChunk reads come out once and in the
\* order in which the provider sent them.
THEOREM ContentRelayedAlways == Spec => []ContentRelayed
<1>1. Relayed(out, given) => ContentRelayed
  BY DEF ContentRelayed
<1> QED
  BY <1>1, RightAlways, PTL

\* At the end mark closeAllToolBlocks has no block left open, and message_stop follows
\* the message_delta that gives the reason.
THEOREM EndedIsCompleteAlways == Spec => []EndedIsComplete
<1>1. Right(out, given) => EndedIsComplete
  BY DEF Right, EventRight, EndedIsComplete
<1> QED
  BY <1>1, RightAlways, PTL
================================================================================

---------------------------- MODULE PreviewProofs ----------------------------
(***************************************************************************)
(* Proofs about the previews, for every limit of at least 3 (the code's    *)
(* are 50, 80 and 200) and every text: the cut `slice(0, N - 3) + "..."`   *)
(* keeps a preview within N code units and shows a text that fits          *)
(* unchanged, and `trim` never makes a text longer.                        *)
(***************************************************************************)
EXTENDS Preview, SequenceTheorems, WellFoundedInduction, TLAPS

\* The two parts of a concatenation are its first and its last elements.
LEMMA ConcatParts ==
  ASSUME NEW a \in Seq(ShownUnits), NEW b \in Seq(ShownUnits)
  PROVE  /\ SubSeq(a \o b, 1, Len(a)) = a
         /\ SubSeq(a \o b, Len(a) + 1, Len(a) + Len(b)) = b
OBVIOUS

\* The truncated text is a preview of the text within the limit.
LEMMA TruncateIsPreview ==
  ASSUME NEW s \in Seq(ShownUnits), NEW limit \in Nat, limit >= 3
  PROVE  /\ Truncate(s, limit) \in Seq(ShownUnits)
         /\ PreviewOf(Truncate(s, limit), s, limit)
<1>1. CASE Len(s) <= limit
  <2>1. Truncate(s, limit) = s
    BY <1>1 DEF Truncate
  <2>2. s \in Seq(ShownUnits)
    OBVIOUS
  <2>3. QED BY <1>1, <2>1, <2>2 DEF PreviewOf
<1>2. CASE Len(s) > limit
  <2>1. SubSeq(s, 1, limit - 3) \in Seq(ShownUnits) /\ Len(SubSeq(s, 1, limit - 3)) = limit - 3
    BY <1>2, SubSeqProperties
  <2>2. Ellipsis \in Seq(ShownUnits) /\ Len(Ellipsis) = 3
    BY DEF Ellipsis, ShownUnits, Dot
  <2>3. (SubSeq(s, 1, limit - 3) \o Ellipsis) \in Seq(ShownUnits) /\ Len(SubSeq(s, 1, limit - 3) \o Ellipsis) = limit
    <3>1. /\ (SubSeq(s, 1, limit - 3) \o Ellipsis) \in Seq(ShownUnits)
          /\ Len(SubSeq(s, 1, limit - 3) \o Ellipsis) = Len(SubSeq(s, 1, limit - 3)) + Len(Ellipsis)
      BY <2>1, <2>2, ConcatProperties
    <3>2. QED BY <3>1, <2>1, <2>2
  <2>4. SubSeq(SubSeq(s, 1, limit - 3) \o Ellipsis, limit - 2, limit) = Ellipsis
    <3>1. SubSeq(SubSeq(s, 1, limit - 3) \o Ellipsis, Len(SubSeq(s, 1, limit - 3)) + 1,
                 Len(SubSeq(s, 1, limit - 3)) + Len(Ellipsis)) = Ellipsis
      BY <2>1, <2>2, ConcatParts
    <3>2. /\ Len(SubSeq(s, 1, limit - 3)) + 1 = limit - 2
          /\ Len(SubSeq(s, 1, limit - 3)) + Len(Ellipsis) = limit
      BY <2>1, <2>2
    <3>3. QED BY ONLY <3>1, <3>2, Zenon
  <2>5. SubSeq(SubSeq(s, 1, limit - 3) \o Ellipsis, 1, limit - 3) = SubSeq(s, 1, limit - 3)
    <3>1. SubSeq(SubSeq(s, 1, limit - 3) \o Ellipsis, 1, Len(SubSeq(s, 1, limit - 3))) = SubSeq(s, 1, limit - 3)
      BY <2>1, <2>2, ConcatParts
    <3>2. Len(SubSeq(s, 1, limit - 3)) = limit - 3
      BY <2>1
    <3>3. QED BY ONLY <3>1, <3>2, Zenon
  <2>6. Truncate(s, limit) = SubSeq(s, 1, limit - 3) \o Ellipsis
    BY <1>2 DEF Truncate
  <2>7. PreviewOf(SubSeq(s, 1, limit - 3) \o Ellipsis, s, limit)
    <3>1. Len(SubSeq(s, 1, limit - 3) \o Ellipsis) = limit
      BY <2>3
    <3>2. /\ Len(SubSeq(s, 1, limit - 3) \o Ellipsis) <= limit
          /\ Len(SubSeq(s, 1, limit - 3) \o Ellipsis) >= 3
          /\ ~(Len(s) <= limit)
      BY <1>2, <3>1
    <3>3. /\ SubSeq(SubSeq(s, 1, limit - 3) \o Ellipsis,
                 Len(SubSeq(s, 1, limit - 3) \o Ellipsis) - 2,
                 Len(SubSeq(s, 1, limit - 3) \o Ellipsis)) = Ellipsis
          /\ SubSeq(SubSeq(s, 1, limit - 3) \o Ellipsis, 1,
                 Len(SubSeq(s, 1, limit - 3) \o Ellipsis) - 3)
             = SubSeq(s, 1, Len(SubSeq(s, 1, limit - 3) \o Ellipsis) - 3)
      BY ONLY <2>4, <2>5, <3>1, Zenon
    <3>4. QED BY ONLY <3>2, <3>3, Zenon DEF PreviewOf
  <2>8. QED BY <2>3, <2>6, <2>7
<1>3. QED BY <1>1, <1>2
-----------------------------------------------------------------------------
(* trim's two ends exist: a non-empty set of naturals has a least element  *)
(* (Nat is well-founded under <), and a bounded one a greatest.            *)

\* Every non-empty set of naturals has a least element.
LEMMA LeastExists ==
  \A T \in SUBSET Nat : T # {} => \E i \in T : \A j \in T : i <= j
<1> SUFFICES ASSUME NEW T \in SUBSET Nat, T # {}
             PROVE  \E i \in T : \A j \in T : i <= j
  OBVIOUS
<1>1. \E x \in T : \A y \in T : ~(<<y, x>> \in OpToRel(<, Nat))
  BY NatLessThanWellFounded, WFMin
<1>2. PICK x \in T : \A y \in T : ~(<<y, x>> \in OpToRel(<, Nat))
  BY <1>1
<1>3. \A y \in T : <<y, x>> \in OpToRel(<, Nat) <=> y < x
  BY DEF OpToRel
<1>4. \A y \in T : x <= y
  <2>1. \A y \in T : ~(y < x)
    BY ONLY <1>2, <1>3, Zenon
  <2>2. QED BY ONLY <2>1, x \in T, T \subseteq Nat
<1>5. QED BY <1>4

\* Every non-empty set of naturals below a bound has a greatest element.
LEMMA GreatestExists ==
  \A N \in Nat : \A T \in SUBSET (0..N) : T # {} => \E i \in T : \A j \in T : j <= i
<1> SUFFICES ASSUME NEW N \in Nat, NEW T \in SUBSET (0..N), T # {}
             PROVE  \E i \in T : \A j \in T : j <= i
  OBVIOUS
<1>1. {N - t : t \in T} \in SUBSET Nat /\ {N - t : t \in T} # {}
  <2>1. \A t \in T : N - t \in Nat
    OBVIOUS
  <2>2. PICK t0 \in T : TRUE
    OBVIOUS
  <2>3. N - t0 \in {N - t : t \in T}
    BY <2>2
  <2>4. QED BY <2>1, <2>3
<1>2. \E u \in {N - t : t \in T} : \A v \in {N - t : t \in T} : u <= v
  BY <1>1, LeastExists
<1>3. PICK x \in T : \A v \in {N - t : t \in T} : N - x <= v
  BY <1>2
<1>4. \A j \in T : j <= x
  BY <1>3
<1>5. QED BY <1>4

\* trim keeps the text within its length: it returns a piece of it.
LEMMA TrimShorter ==
  ASSUME NEW s \in Seq(ShownUnits)
  PROVE  Trim(s) \in Seq(ShownUnits) /\ Len(Trim(s)) <= Len(s)
<1>1. CASE Solid(s) = {}
  BY <1>1 DEF Trim
<1>2. CASE Solid(s) # {}
  <2>1. Solid(s) \in SUBSET (0..Len(s)) /\ Solid(s) \in SUBSET Nat
    BY DEF Solid
  <2>2. (CHOOSE i \in Solid(s) : \A j \in Solid(s) : i <= j) \in 1..Len(s)
    <3>1. \E i \in Solid(s) : \A j \in Solid(s) : i <= j
      BY <1>2, <2>1, LeastExists
    <3>2. QED BY <3>1 DEF Solid
  <2>3. (CHOOSE i \in Solid(s) : \A j \in Solid(s) : j <= i) \in 1..Len(s)
    <3>1. \E i \in Solid(s) : \A j \in Solid(s) : j <= i
      <4>1. Len(s) \in Nat /\ Solid(s) \in SUBSET (0..Len(s)) /\ Solid(s) # {}
        BY <1>2, <2>1
      <4>2. QED BY ONLY <4>1, GreatestExists, Zenon
    <3>2. QED BY <3>1 DEF Solid
  <2>4. Trim(s) = SubSeq(s, CHOOSE i \in Solid(s) : \A j \in Solid(s) : i <= j,
                            CHOOSE i \in Solid(s) : \A j \in Solid(s) : j <= i)
    BY <1>2 DEF Trim
  <2>5. \A i \in (CHOOSE i \in Solid(s) : \A j \in Solid(s) : i <= j) ..
                  (CHOOSE i \in Solid(s) : \A j \in Solid(s) : j <= i) : s[i] \in ShownUnits
    BY <2>2, <2>3
  <2>6. QED BY <2>2, <2>3, <2>4, <2>5, SubSeqProperties
<1>3. QED BY <1>1, <1>2
-----------------------------------------------------------------------------
\* The invariant the renderers keep: the views are texts of code units and
\* every one is a bounded preview of the current text.
IInv == TypeOK /\ PreviewsBounded

\* A text is a text of shown code units.
LEMMA TextShown ==
  ASSUME NEW s \in Seq(Units)
  PROVE  s \in Seq(ShownUnits)
BY DEF ShownUnits

\* The texts TLC feeds the renderers are texts of code units.
LEMMA TextsAreSeqs == Texts \subseteq Seq(Units)
<1> SUFFICES ASSUME NEW n \in 0..MaxLen, NEW f \in [1..n -> Units]
             PROVE  f \in Seq(Units)
  BY DEF Texts
<1>1. n \in Nat
  BY PreviewAssumption
<1>2. QED BY <1>1

LEMMA InitIInv == Init => IInv
<1> SUFFICES ASSUME Init PROVE IInv
  OBVIOUS
<1>1. text \in Seq(Units)
  BY TextsAreSeqs DEF Init
<1>2. << >> \in Seq(ShownUnits)
  OBVIOUS
<1>3. QED BY <1>1, <1>2, PreviewAssumption DEF Init, IInv, TypeOK, PreviewsBounded

LEMMA NextIInv == IInv /\ [Next]_vars => IInv'
<1> SUFFICES ASSUME IInv, [Next]_vars PROVE IInv'
  OBVIOUS
<1>1. text \in Seq(ShownUnits)
  BY TextShown DEF IInv, TypeOK
<1>2. CASE RenderCall
  <2>1. Truncate(text, PromptLimit) \in Seq(ShownUnits)
        /\ PreviewOf(Truncate(text, PromptLimit), text, PromptLimit)
    BY <1>1, PreviewAssumption, TruncateIsPreview
  <2>2. QED BY <1>2, <2>1 DEF RenderCall, IInv, TypeOK, PreviewsBounded
<1>3. CASE RenderEvent
  <2>1. Truncate(text, OutputLimit) \in Seq(ShownUnits)
        /\ Len(Truncate(text, OutputLimit)) <= OutputLimit
    BY <1>1, PreviewAssumption, TruncateIsPreview DEF PreviewOf
  <2>2. Trim(Truncate(text, OutputLimit)) \in Seq(ShownUnits)
        /\ Len(Trim(Truncate(text, OutputLimit))) <= OutputLimit
    <3>1. Len(Trim(Truncate(text, OutputLimit))) <= Len(Truncate(text, OutputLimit))
          /\ Trim(Truncate(text, OutputLimit)) \in Seq(ShownUnits)
      BY <2>1, TrimShorter
    <3>2. QED BY <2>1, <3>1, PreviewAssumption
  <2>3. TypeOK'
    BY <1>3, <2>2 DEF RenderEvent, IInv, TypeOK
  <2>4. PreviewsBounded'
    BY <1>3, <2>2 DEF RenderEvent, IInv, PreviewsBounded
  <2>5. QED BY <2>3, <2>4 DEF IInv
<1>4. ASSUME NEW e \in BOOLEAN, RenderResult(e) PROVE IInv'
  <2>1. Truncate(text, ResultLimit) \in Seq(ShownUnits)
        /\ PreviewOf(Truncate(text, ResultLimit), text, ResultLimit)
    BY <1>1, PreviewAssumption, TruncateIsPreview
  <2>2. QED BY <1>1, <1>4, <2>1 DEF RenderResult, IInv, TypeOK, PreviewsBounded
<1>5. CASE UNCHANGED vars
  BY <1>5 DEF vars, IInv, TypeOK, PreviewsBounded
<1>6. QED BY <1>2, <1>3, <1>4, <1>5 DEF Next

\* Every preview renderCall, renderResult and formatEventForDisplay show
\* stays within its limit and shows a fitting text unchanged, for every
\* limit of at least 3 and every text.
THEOREM PreviewsBoundedHolds == Spec => []PreviewsBounded
<1>1. Init => IInv
  BY InitIInv
<1>2. IInv /\ [Next]_vars => IInv'
  BY NextIInv
<1>3. IInv => PreviewsBounded
  BY DEF IInv
<1>4. QED BY <1>1, <1>2, <1>3, PTL DEF Spec
=============================================================================

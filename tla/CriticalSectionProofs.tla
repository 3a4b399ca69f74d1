------------------------- MODULE CriticalSectionProofs -------------------------
(***************************************************************************)
(* Theorems about CriticalSection, for any number of interrupts, any set   *)
(* of reserved ones and any depth of nesting.                              *)
(***************************************************************************)
EXTENDS CriticalSection, SequenceTheorems, TLAPS

--------------------------------------------------------------------------------
(***************************************************************************)
(* The sections a context holds, as a stack.                               *)
(***************************************************************************)
Section == [kind : Kinds, token : BOOLEAN]

HasKind(s, kind) == \E i \in 1..Len(s) : s[i].kind = kind

Pop(s) == SubSeq(s, 1, Len(s) - 1)

\* An internal section was told to end masking exactly when it is outermost.
Tokens(s) ==
  \A i \in 1..Len(s) :
    s[i].kind = "internal" =>
      (s[i].token <=> \A j \in 1..(i - 1) : s[j].kind # "internal")

\* Taking a section puts it on top of those held before.
LEMMA PushFacts ==
  ASSUME NEW s \in Seq(Section), NEW r \in Section
  PROVE  /\ Append(s, r) \in Seq(Section) /\ Len(Append(s, r)) = Len(s) + 1
         /\ Append(s, r) # <<>>
         /\ \A k : HasKind(Append(s, r), k) <=> HasKind(s, k) \/ r.kind = k
         /\ Tokens(s) /\ (r.kind = "internal" => (r.token <=> ~HasKind(s, "internal")))
              => Tokens(Append(s, r))
<1> DEFINE t == Append(s, r)
<1>1. /\ Len(s) \in Nat /\ t \in Seq(Section) /\ Len(t) = Len(s) + 1
      /\ \A i \in 1..Len(s) : t[i] = s[i]
      /\ t[Len(s) + 1] = r
  BY LenProperties, AppendProperties
<1>2. t # <<>>
  BY <1>1, EmptySeq
<1>3. ASSUME NEW k PROVE HasKind(t, k) <=> HasKind(s, k) \/ r.kind = k
  BY <1>1 DEF HasKind
<1>4. ASSUME Tokens(s), r.kind = "internal" => (r.token <=> ~HasKind(s, "internal"))
      PROVE  Tokens(t)
  <2> SUFFICES ASSUME NEW i \in 1..Len(t), t[i].kind = "internal"
               PROVE  t[i].token <=> \A j \in 1..(i - 1) : t[j].kind # "internal"
    BY DEF Tokens
  <2>1. CASE i \in 1..Len(s)
    <3>1. \A j \in 1..(i - 1) : t[j] = s[j]
      BY <1>1, <2>1
    <3> QED BY <1>1, <1>4, <2>1, <3>1 DEF Tokens
  <2>2. CASE i = Len(s) + 1
    <3>1. i - 1 = Len(s)
      BY <1>1, <2>2
    <3> QED BY <1>1, <1>4, <2>2, <3>1 DEF HasKind
  <2> QED BY <1>1, <2>1, <2>2
<1> QED BY <1>1, <1>2, <1>3, <1>4

\* Giving the innermost section up leaves the others as they were.
LEMMA PopFacts ==
  ASSUME NEW s \in Seq(Section), s # <<>>
  PROVE  /\ s[Len(s)] \in Section
         /\ Pop(s) \in Seq(Section) /\ Len(Pop(s)) = Len(s) - 1
         /\ \A k : HasKind(s, k) <=> HasKind(Pop(s), k) \/ s[Len(s)].kind = k
         /\ Tokens(s) => /\ Tokens(Pop(s))
                         /\ s[Len(s)].kind = "internal" =>
                              (s[Len(s)].token <=> ~HasKind(Pop(s), "internal"))
<1> DEFINE n == Len(s)
           t == Pop(s)
<1>1. n \in Nat \ {0} /\ s[n] \in Section
  <2>1. n \in Nat /\ n # 0 /\ s \in [1..n -> Section]
    BY EmptySeq, LenProperties
  <2> QED BY <2>1
<1>2. /\ t \in Seq(Section) /\ Len(t) = n - 1
      /\ \A i \in 1..(n - 1) : t[i] = s[i]
  <2>1. \A i \in 1..(n - 1) : s[i] \in Section
    BY <1>1, LenProperties
  <2>2. t \in Seq(Section)
    BY <1>1, <2>1, SubSeqProperties DEF Pop
  <2>3. Len(t) = IF 1 <= n - 1 THEN n - 1 - 1 + 1 ELSE 0
    BY <1>1, <2>1, SubSeqProperties DEF Pop
  <2>4. Len(t) = n - 1
    <3> HIDE DEF t, n
    <3> QED BY <1>1, <2>3
  <2>5. \A i \in 1..(n - 1 - 1 + 1) : t[i] = s[1 + i - 1]
    BY <1>1, <2>1, SubSeqProperties DEF Pop
  <2>6. \A i \in 1..(n - 1) : t[i] = s[i]
    BY <1>1, <2>5
  <2> QED BY <2>2, <2>4, <2>6
<1>3. ASSUME NEW k PROVE HasKind(s, k) <=> HasKind(t, k) \/ s[n].kind = k
  BY <1>1, <1>2 DEF HasKind
<1>4. ASSUME Tokens(s) PROVE Tokens(t)
  BY <1>1, <1>2, <1>4, SMTT(30) DEF Tokens
<1>5. ASSUME Tokens(s), s[n].kind = "internal"
      PROVE  s[n].token <=> ~HasKind(t, "internal")
  BY <1>1, <1>2, <1>5 DEF Tokens, HasKind
<1> QED BY <1>1, <1>2, <1>3, <1>4, <1>5
--------------------------------------------------------------------------------
(***************************************************************************)
(* What a context knows of itself.                                         *)
(***************************************************************************)
\* The operation it is in, and what that operation has read.
Acquires(p, kind) == doing[p][1] = "acquire" /\ doing[p][2] = kind
Releases(p, kind) == doing[p][1] = "release" /\ doing[p][2] = kind

Own(p) ==
  /\ pc[p] # "run" => \E k \in Kinds : Acquires(p, k) \/ Releases(p, k)
  /\ pc[p] \in {"load", "work"} => Acquires(p, "impl") \/ Releases(p, "impl")
  /\ pc[p] \in {"mrs", "cpsid", "set"} => ~Releases(p, "internal")
  /\ pc[p] \in {"clear", "cpsie"} => ~Acquires(p, "internal")
  /\ pc[p] # "run" /\ doing[p][1] = "acquire" => Len(held[p]) < MaxNest
  /\ pc[p] # "run" /\ doing[p][1] = "release" =>
       held[p] # <<>> /\ Top(p).kind = doing[p][2]
  /\ pc[p] \in {"cpsid", "set", "work", "clear", "cpsie"} =>
       saved[p] = (IF Releases(p, "internal") THEN Top(p).token ELSE ~Holds(p, "internal"))
  /\ pc[p] = "cpsie" => saved[p]
  /\ Tokens(held[p])

\* PRIMASK is set for p, and cs_internal's flag is up for it.
Masking(p) == Holds(p, "internal") \/ pc[p] \in {"set", "work", "clear", "cpsie"}
Flagging(p) == (Holds(p, "internal") /\ pc[p] # "cpsie") \/ pc[p] \in {"work", "clear"}

\* A context that has not begun holds nothing and does nothing.
Idle == \A p \in Ctx : p \notin active => held[p] = <<>> /\ pc[p] = "run"

\* Nothing has interrupted a context that masks.
MaskAlone == \A p, h \in active : p < h => ~Masking(p)

\* PRIMASK and the flag are as the contexts left them.
MaskOwner == primask <=> \E p \in Ctx : Masking(p)
FlagOwner == intFlag <=> \E p \in Ctx : Flagging(p)

IInv ==
  TypeOK /\ (\A p \in Ctx : Own(p)) /\ Idle /\ MaskAlone /\ MaskOwner /\ FlagOwner

\* The invariant of PRIMASK and the internal sections, from the start.
LEMMA IInit == Init => IInv
<1> SUFFICES ASSUME Init PROVE IInv
  OBVIOUS
<1> USE ConstantsAssumption DEF Init, Ctx, Thread, Irq
<1>1. TypeOK
  <2>1. held \in [Ctx -> Seq([kind : Kinds, token : BOOLEAN])]
    OBVIOUS
  <2>2. \A p \in Ctx : Len(held[p]) <= MaxNest
    OBVIOUS
  <2>4. {primask, intFlag, implFlag} \subseteq BOOLEAN
    OBVIOUS
  <2>5. saved \in [Ctx -> BOOLEAN] /\ inInternal \in [Ctx -> BOOLEAN]
    OBVIOUS
  <2>6. enabled \subseteq Irq /\ csMask \subseteq Irq
    OBVIOUS
  <2>7. active \subseteq Ctx /\ Thread \in active
    OBVIOUS
  <2>3. doing \in [Ctx -> {"none", "acquire", "release"} \X (Kinds \cup {"none"})]
    OBVIOUS
  <2> QED BY <2>1, <2>2, <2>3, <2>4, <2>5, <2>6, <2>7 DEF TypeOK
<1>2. \A p \in Ctx : Own(p) /\ ~Masking(p) /\ ~Flagging(p)
  BY DEF Own, Masking, Flagging, Holds, Tokens
<1> QED BY <1>1, <1>2 DEF IInv, Idle, MaskAlone, MaskOwner, FlagOwner

\* Only the running context can mask, so PRIMASK and the flag are its own.
LEMMA RunningAlone ==
  ASSUME IInv, NEW p \in Ctx, Running(p)
  PROVE  /\ \A q \in Ctx \ {p} : ~Masking(q) /\ ~Flagging(q)
         /\ primask <=> Masking(p)
         /\ intFlag <=> Flagging(p)
<1>1. ASSUME NEW q \in Ctx \ {p} PROVE ~Masking(q)
  <2>1. CASE q \notin active
    BY <2>1 DEF IInv, Idle, Masking, Holds
  <2>2. CASE q \in active
    <3>1. q < p
      BY <2>2, ConstantsAssumption DEF Running, Ctx
    <3> QED BY <2>2, <3>1 DEF Running, IInv, MaskAlone
  <2> QED BY <2>1, <2>2
<1>2. \A q \in Ctx : Flagging(q) => Masking(q)
  BY DEF Flagging, Masking
<1> QED BY <1>1, <1>2 DEF IInv, MaskOwner, FlagOwner

\* A step of the running context keeps the invariant if it keeps its own part.
LEMMA OwnStep ==
  ASSUME IInv, NEW p \in Ctx, Running(p), TypeOK', UNCHANGED active,
         \A q \in Ctx \ {p} : /\ pc'[q] = pc[q] /\ doing'[q] = doing[q]
                              /\ saved'[q] = saved[q] /\ held'[q] = held[q],
         Own(p)', primask' <=> Masking(p)', intFlag' <=> Flagging(p)'
  PROVE  IInv'
<1>1. \A q \in Ctx \ {p} : Own(q)' /\ ~Masking(q)' /\ ~Flagging(q)'
  <2>1. \A q \in Ctx \ {p} : Own(q) /\ ~Masking(q) /\ ~Flagging(q)
    BY RunningAlone DEF IInv
  <2>2. \A q \in Ctx \ {p} : Own(q)'
    BY <2>1 DEF Own, Acquires, Releases, Top, Holds
  <2> QED BY <2>1, <2>2 DEF Masking, Flagging, Holds
<1>2. Idle'
  BY DEF IInv, Idle, Running
<1>3. MaskAlone'
  <2> SUFFICES ASSUME NEW a \in active, NEW h \in active, a < h PROVE ~Masking(a)'
    BY DEF MaskAlone
  <2>1. a # p /\ a \in Ctx
    BY ConstantsAssumption DEF Running, IInv, TypeOK, Ctx
  <2> QED BY <1>1, <2>1
<1>4. MaskOwner' /\ FlagOwner'
  BY <1>1 DEF MaskOwner, FlagOwner
<1> QED BY <1>1, <1>2, <1>3, <1>4 DEF IInv

\* How an operation ends.
LEMMA FinishFacts ==
  ASSUME IInv, NEW p \in Ctx, NEW t \in BOOLEAN, pc[p] # "run", Finish(p, t)
  PROVE  /\ pc' = [pc EXCEPT ![p] = "run"]
         /\ held' \in [Ctx -> Seq([kind : Kinds, token : BOOLEAN])]
         /\ \A q \in Ctx : Len(held'[q]) <= MaxNest
         /\ \A q \in Ctx \ {p} : held'[q] = held[q]
         /\ \/ /\ doing[p][1] = "acquire" /\ doing[p][2] \in Kinds
               /\ held'[p] = Append(held[p], [kind |-> doing[p][2], token |-> t])
            \/ /\ doing[p][1] = "release" /\ doing[p][2] \in Kinds
               /\ held[p] # <<>> /\ held'[p] = Pop(held[p])
<1> USE ConstantsAssumption DEF IInv, TypeOK
<1>1. held[p] \in Seq(Section) /\ Len(held[p]) \in Nat /\ Len(held[p]) <= MaxNest
  BY LenProperties DEF Section
<1>2. /\ doing[p][2] \in Kinds
      /\ \/ doing[p][1] = "acquire" /\ Len(held[p]) < MaxNest
         \/ doing[p][1] = "release" /\ held[p] # <<>>
  BY DEF Own, Acquires, Releases
<1>3. CASE doing[p][1] = "acquire"
  <2> DEFINE r == [kind |-> doing[p][2], token |-> t]
  <2>1. r \in Section
    BY <1>2 DEF Section
  <2>2. Append(held[p], r) \in Seq(Section) /\ Len(Append(held[p], r)) = Len(held[p]) + 1
    BY <1>1, <2>1, PushFacts
  <2>3. held' = [held EXCEPT ![p] = Append(held[p], r)]
    BY <1>3 DEF Finish
  <2>4. Len(held[p]) + 1 <= MaxNest
    BY <1>1, <1>2, <1>3
  <2>5. pc' = [pc EXCEPT ![p] = "run"]
    BY DEF Finish, Goto
  <2> HIDE DEF r
  <2>6. held' \in [Ctx -> Seq(Section)]
    BY <2>2, <2>3 DEF Section
  <2>7. \A q \in Ctx : Len(held'[q]) <= MaxNest
    BY <2>2, <2>3, <2>4
  <2>8. held'[p] = Append(held[p], r) /\ \A q \in Ctx \ {p} : held'[q] = held[q]
    BY <2>3
  <2> QED BY <1>2, <1>3, <2>5, <2>6, <2>7, <2>8 DEF r, Section
<1>4. CASE doing[p][1] = "release"
  <2>1. /\ held[p] # <<>> /\ Pop(held[p]) \in Seq(Section)
        /\ Len(Pop(held[p])) = Len(held[p]) - 1
    BY <1>1, <1>2, <1>4, PopFacts
  <2>2. held' = [held EXCEPT ![p] = Pop(held[p])]
    BY <1>4 DEF Finish, Pop
  <2>3. Len(held[p]) - 1 <= MaxNest
    BY <1>1
  <2>5. pc' = [pc EXCEPT ![p] = "run"]
    BY DEF Finish, Goto
  <2>6. held' \in [Ctx -> Seq(Section)]
    BY <2>1, <2>2 DEF Section
  <2>7. \A q \in Ctx : Len(held'[q]) <= MaxNest
    BY <2>1, <2>2, <2>3
  <2>8. held'[p] = Pop(held[p]) /\ \A q \in Ctx \ {p} : held'[q] = held[q]
    BY <2>2
  <2> QED BY <1>2, <1>4, <2>1, <2>5, <2>6, <2>7, <2>8 DEF Section
<1> QED BY <1>2, <1>3, <1>4
--------------------------------------------------------------------------------
(***************************************************************************)
(* The steps of a context.                                                 *)
(***************************************************************************)
\* An operation begins, or reads a flag, which changes nobody's sections.
LEMMA IBegin ==
  ASSUME IInv, NEW p \in Ctx,
         \/ AcquireInternal(p)
         \/ ReleaseInternal(p)
         \/ LoadInternalFlag(p)
         \/ AcquireImpl(p) /\ ~implFlag
         \/ ReleaseImpl(p) /\ ~Top(p).token
  PROVE  IInv'
<1> USE ConstantsAssumption DEF hw, regs, At, Goto, Doing
<1>1. /\ Running(p) /\ pc[p] \in {"run", "load"}
      /\ UNCHANGED <<primask, enabled, intFlag, implFlag, csMask, active, held>>
      /\ pc' = [pc EXCEPT ![p] = pc'[p]] /\ pc'[p] \in {"mrs", "clear", "load"}
      /\ pc'[p] = "clear" => saved' = [saved EXCEPT ![p] = Top(p).token]
      /\ pc'[p] # "clear" => UNCHANGED saved
      /\ inInternal' = inInternal \/ inInternal' = [inInternal EXCEPT ![p] = intFlag]
  BY DEF IInv, TypeOK, AcquireInternal, ReleaseInternal, LoadInternalFlag, AcquireImpl, ReleaseImpl
<1>2. \/ /\ doing' = [doing EXCEPT ![p] = <<"acquire", "internal">>]
         /\ Len(held[p]) < MaxNest /\ pc'[p] = "mrs"
      \/ /\ doing' = [doing EXCEPT ![p] = <<"release", "internal">>] /\ held[p] # <<>>
         /\ Top(p).kind = "internal" /\ pc'[p] = "clear"
      \/ UNCHANGED doing /\ pc[p] = "load" /\ pc'[p] = "mrs"
      \/ /\ doing' = [doing EXCEPT ![p] = <<"acquire", "impl">>]
         /\ Len(held[p]) < MaxNest /\ pc'[p] = "load"
      \/ /\ doing' = [doing EXCEPT ![p] = <<"release", "impl">>] /\ held[p] # <<>>
         /\ Top(p).kind = "impl" /\ pc'[p] = "load"
  BY DEF IInv, TypeOK, AcquireInternal, ReleaseInternal, LoadInternalFlag, AcquireImpl, ReleaseImpl
<1>3. pc'[p] = "clear" => Top(p).token \in BOOLEAN /\ Holds(p, "internal")
  <2> SUFFICES ASSUME pc'[p] = "clear" PROVE Top(p).token \in BOOLEAN /\ Holds(p, "internal")
    OBVIOUS
  <2>1. held[p] # <<>> /\ Top(p).kind = "internal" /\ held[p] \in Seq(Section)
    BY <1>2 DEF IInv, TypeOK, Section
  <2>2. Top(p) \in Section /\ HasKind(held[p], "internal")
    BY <2>1, PopFacts DEF Top
  <2> QED BY <2>2 DEF Section, Holds, HasKind
<1>4. doing' \in [Ctx -> {"none", "acquire", "release"} \X (Kinds \cup {"none"})]
  BY <1>2 DEF IInv, TypeOK, Kinds
<1>5. TypeOK'
  <2>1. pc' \in [Ctx -> {"run", "mrs", "cpsid", "set", "work", "clear", "cpsie", "load"}]
    BY <1>1 DEF IInv, TypeOK
  <2>2. saved' \in [Ctx -> BOOLEAN]
    BY <1>1, <1>3 DEF IInv, TypeOK
  <2>3. inInternal' \in [Ctx -> BOOLEAN]
    BY <1>1 DEF IInv, TypeOK
  <2> QED BY <1>1, <1>4, <2>1, <2>2, <2>3 DEF IInv, TypeOK
<1>6. \A q \in Ctx \ {p} : /\ pc'[q] = pc[q] /\ doing'[q] = doing[q]
                           /\ saved'[q] = saved[q] /\ held'[q] = held[q]
  BY <1>1, <1>2 DEF IInv, TypeOK
<1>7. Own(p)'
  <2>1. Own(p)
    BY DEF IInv
  <2>2. pc'[p] = "clear" => saved'[p] = Top(p)'.token
    BY <1>1 DEF IInv, TypeOK, Top
  <2>3. Top(p)' = Top(p)
    BY <1>1 DEF Top
  <2>4. \/ Acquires(p, "internal")' /\ Len(held[p]) < MaxNest /\ pc'[p] = "mrs"
        \/ Releases(p, "internal")' /\ held[p] # <<>> /\ Top(p).kind = "internal" /\ pc'[p] = "clear"
        \/ doing'[p] = doing[p] /\ pc[p] = "load" /\ pc'[p] = "mrs"
        \/ Acquires(p, "impl")' /\ Len(held[p]) < MaxNest /\ pc'[p] = "load"
        \/ Releases(p, "impl")' /\ held[p] # <<>> /\ Top(p).kind = "impl" /\ pc'[p] = "load"
    BY <1>2 DEF IInv, TypeOK, Acquires, Releases
  <2> QED BY <1>1, <2>1, <2>2, <2>3, <2>4 DEF Own, Kinds, Acquires, Releases
<1>8. (primask' <=> Masking(p)') /\ (intFlag' <=> Flagging(p)')
  <2>1. Holds(p, "internal")' <=> Holds(p, "internal")
    BY <1>1 DEF Holds
  <2> QED BY <1>1, <1>3, <2>1, RunningAlone DEF Masking, Flagging
<1> QED BY <1>1, <1>5, <1>6, <1>7, <1>8, OwnStep

\* A nested section of the critical-section crate only goes on or off the stack.
LEMMA INested ==
  ASSUME IInv, NEW p \in Ctx,
         \/ AcquireImpl(p) /\ implFlag
         \/ ReleaseImpl(p) /\ Top(p).token
  PROVE  IInv'
<1> USE ConstantsAssumption DEF hw, regs, At
<1>1. /\ Running(p) /\ pc[p] = "run"
      /\ UNCHANGED <<primask, enabled, intFlag, implFlag, csMask, active, pc, doing, saved, inInternal>>
  BY DEF AcquireImpl, ReleaseImpl
<1> DEFINE r == [kind |-> "impl", token |-> TRUE]
<1>2. held[p] \in Seq(Section) /\ Len(held[p]) \in Nat /\ Len(held[p]) <= MaxNest
      /\ Tokens(held[p]) /\ r \in Section /\ r.kind # "internal"
  BY LenProperties DEF IInv, TypeOK, Own, Section, Kinds
<1>3. PICK s \in Seq(Section) :
        /\ held' = [held EXCEPT ![p] = s]
        /\ Len(s) <= MaxNest /\ Tokens(s)
        /\ HasKind(s, "internal") <=> HasKind(held[p], "internal")
  <2>1. CASE AcquireImpl(p) /\ implFlag
    <3> DEFINE s == Append(held[p], r)
    <3>1. held' = [held EXCEPT ![p] = s] /\ Len(held[p]) < MaxNest
      BY <2>1 DEF AcquireImpl
    <3> HIDE DEF r
    <3>2. /\ s \in Seq(Section) /\ Len(s) = Len(held[p]) + 1 /\ Tokens(s)
          /\ HasKind(s, "internal") <=> HasKind(held[p], "internal")
      BY <1>2, PushFacts
    <3> HIDE DEF s
    <3>3. Len(s) <= MaxNest
      BY <1>2, <3>1, <3>2
    <3> QED BY <3>1, <3>2, <3>3
  <2>2. CASE ReleaseImpl(p) /\ Top(p).token
    <3> DEFINE s == Pop(held[p])
    <3>1. held' = [held EXCEPT ![p] = s] /\ held[p] # <<>> /\ held[p][Len(held[p])].kind = "impl"
      BY <2>2 DEF ReleaseImpl, Pop, Top
    <3>2. /\ s \in Seq(Section) /\ Len(s) = Len(held[p]) - 1 /\ Tokens(s)
          /\ HasKind(s, "internal") <=> HasKind(held[p], "internal")
      BY <1>2, <3>1, PopFacts
    <3> HIDE DEF s
    <3>3. Len(s) <= MaxNest
      BY <1>2, <3>2
    <3> QED BY <3>1, <3>2, <3>3
  <2> QED BY <2>1, <2>2
<1>4. held'[p] = s /\ \A q \in Ctx \ {p} : held'[q] = held[q]
  BY <1>3 DEF IInv, TypeOK
<1>5. TypeOK'
  <2>1. held' \in [Ctx -> Seq(Section)]
    BY <1>3 DEF IInv, TypeOK, Section
  <2>2. \A q \in Ctx : Len(held'[q]) <= MaxNest
    BY <1>3, <1>4 DEF IInv, TypeOK
  <2> QED BY <1>1, <2>1, <2>2 DEF IInv, TypeOK, Section
<1>6. Own(p)'
  BY <1>1, <1>3, <1>4 DEF Own
<1>7. Holds(p, "internal")' <=> Holds(p, "internal")
  BY <1>3, <1>4 DEF Holds, HasKind
<1>8. (primask' <=> Masking(p)') /\ (intFlag' <=> Flagging(p)')
  BY <1>1, <1>7, RunningAlone DEF Masking, Flagging
<1> QED BY <1>1, <1>4, <1>5, <1>6, <1>8, OwnStep

\* Masking and the flag, read and set.
LEMMA IReadPrimask ==
  ASSUME IInv, NEW p \in Ctx, ReadPrimask(p)
  PROVE  IInv'
<1> USE ConstantsAssumption DEF hw, regs, At, Goto, IInv, TypeOK
<1>1. /\ Running(p) /\ pc[p] = "mrs" /\ pc' = [pc EXCEPT ![p] = "cpsid"]
      /\ saved' = [saved EXCEPT ![p] = ~primask]
      /\ UNCHANGED <<primask, enabled, intFlag, implFlag, csMask, active, doing, inInternal, held>>
  BY DEF ReadPrimask
<1>2. primask <=> Holds(p, "internal")
  BY <1>1, RunningAlone DEF Masking
<1>3. (~primask) = (~Holds(p, "internal"))
  <2>1. primask \in BOOLEAN /\ Holds(p, "internal") \in BOOLEAN
    BY DEF Holds
  <2> QED BY <1>2, <2>1
<1>4. TypeOK'
  BY <1>1
<1>5. Own(p)'
  <2>1. Own(p)
    OBVIOUS
  <2>2. saved'[p] = ~Holds(p, "internal")'
    BY <1>1, <1>3 DEF Holds
  <2> QED BY <1>1, <2>1, <2>2 DEF Own, Acquires, Releases, Top
<1>6. (primask' <=> Masking(p)') /\ (intFlag' <=> Flagging(p)')
  BY <1>1, RunningAlone DEF Masking, Flagging, Holds
<1> QED BY <1>1, <1>4, <1>5, <1>6, OwnStep

\* cpsid sets PRIMASK for the context that runs.
LEMMA IDisableInterrupts ==
  ASSUME IInv, NEW p \in Ctx, DisableInterrupts(p)
  PROVE  IInv'
<1> USE ConstantsAssumption DEF hw, regs, At, Goto, IInv, TypeOK
<1>1. /\ Running(p) /\ pc[p] = "cpsid" /\ pc' = [pc EXCEPT ![p] = "set"] /\ primask'
      /\ UNCHANGED <<enabled, intFlag, implFlag, csMask, active, doing, saved, inInternal, held>>
  BY DEF DisableInterrupts
<1>2. TypeOK'
  BY <1>1 DEF DisableInterrupts
<1>3. Own(p)'
  BY <1>1 DEF Own, Acquires, Releases, Top, Holds
<1>4. (primask' <=> Masking(p)') /\ (intFlag' <=> Flagging(p)')
  BY <1>1, RunningAlone DEF Masking, Flagging, Holds
<1> QED BY <1>1, <1>2, <1>3, <1>4, OwnStep

\* The closure of with_fn does not touch the internal section.
LEMMA IWork ==
  ASSUME IInv, NEW p \in Ctx, Work(p)
  PROVE  IInv'
<1> USE ConstantsAssumption DEF hw, regs, At, Goto, IInv, TypeOK
<1>1. /\ Running(p) /\ pc[p] = "work" /\ pc' = [pc EXCEPT ![p] = "clear"]
      /\ UNCHANGED <<primask, intFlag, active, doing, saved, inInternal, held>>
      /\ implFlag' \in BOOLEAN /\ enabled' \subseteq Irq /\ csMask' \subseteq Irq
  BY DEF Work, Mask, Unmask
<1>2. TypeOK'
  BY <1>1
<1>3. Own(p)'
  BY <1>1 DEF Own, Acquires, Releases, Top, Holds
<1>4. (primask' <=> Masking(p)') /\ (intFlag' <=> Flagging(p)')
  BY <1>1, RunningAlone DEF Masking, Flagging, Holds
<1> QED BY <1>1, <1>2, <1>3, <1>4, OwnStep

\* The flag goes up; an acquire that is not with_fn's ends there.
LEMMA ISetFlag ==
  ASSUME IInv, NEW p \in Ctx, SetFlag(p)
  PROVE  IInv'
<1> USE ConstantsAssumption DEF hw, regs, At, Goto, IInv
<1>1. /\ Running(p) /\ pc[p] = "set" /\ intFlag'
      /\ UNCHANGED <<primask, enabled, implFlag, csMask, active, doing, saved, inInternal>>
  BY DEF SetFlag
<1>2. primask
  BY <1>1, RunningAlone DEF Masking
<1>3. intFlag' \in BOOLEAN
  BY DEF SetFlag
<1>4. CASE doing[p][2] = "internal"
  <2>1. Finish(p, saved[p]) /\ saved[p] \in BOOLEAN
    BY <1>4 DEF SetFlag, TypeOK
  <2>2. doing[p][1] = "acquire" /\ saved[p] = ~HasKind(held[p], "internal")
    BY <1>1, <1>4 DEF Own, Acquires, Releases, Holds, HasKind
  <2> DEFINE r == [kind |-> "internal", token |-> saved[p]]
  <2>3. /\ pc' = [pc EXCEPT ![p] = "run"] /\ held' \in [Ctx -> Seq(Section)]
        /\ \A q \in Ctx : Len(held'[q]) <= MaxNest
        /\ \A q \in Ctx \ {p} : held'[q] = held[q]
        /\ held'[p] = Append(held[p], r)
    BY <1>1, <1>4, <2>1, <2>2, FinishFacts DEF Section
  <2>4. Tokens(held'[p]) /\ HasKind(held'[p], "internal")
    <3>1. r \in Section /\ r.kind = "internal" /\ r.token = saved[p] /\ held[p] \in Seq(Section)
      BY <2>1 DEF Section, Kinds, TypeOK
    <3>2. Tokens(held[p])
      BY DEF Own
    <3>3. r.token <=> ~HasKind(held[p], "internal")
      BY <2>2, <3>1
    <3> HIDE DEF r
    <3> QED BY <2>3, <3>1, <3>2, <3>3, PushFacts
  <2>5. TypeOK'
    BY <1>1, <1>3, <2>3 DEF TypeOK, Section
  <2>6. Own(p)'
    BY <2>3, <2>4 DEF Own, TypeOK
  <2>7. (primask' <=> Masking(p)') /\ (intFlag' <=> Flagging(p)')
    BY <1>1, <1>2, <2>3, <2>4 DEF Masking, Flagging, Holds, HasKind, TypeOK
  <2> QED BY <1>1, <2>3, <2>5, <2>6, <2>7, OwnStep DEF TypeOK
<1>5. CASE doing[p][2] # "internal"
  <2>1. pc' = [pc EXCEPT ![p] = "work"] /\ UNCHANGED held
    BY <1>5 DEF SetFlag
  <2>2. TypeOK'
    BY <1>1, <1>3, <2>1 DEF TypeOK
  <2>3. Own(p)'
    <3>1. /\ pc[p] = "set" /\ pc'[p] = "work" /\ held' = held
          /\ doing' = doing /\ saved' = saved
      BY <1>1, <2>1 DEF TypeOK
    <3>2. /\ \A k \in Kinds : Acquires(p, k)' <=> Acquires(p, k)
          /\ \A k \in Kinds : Releases(p, k)' <=> Releases(p, k)
          /\ Holds(p, "internal")' <=> Holds(p, "internal")
          /\ Top(p)' = Top(p)
      BY <3>1 DEF Acquires, Releases, Holds, Top
    <3>3. "internal" \in Kinds /\ "impl" \in Kinds
      BY DEF Kinds
    <3>4. Acquires(p, "impl") \/ Releases(p, "impl")
      BY <1>5, <3>1 DEF Own, Acquires, Releases, Kinds
    <3> QED BY <3>1, <3>2, <3>3, <3>4 DEF Own
  <2>4. (primask' <=> Masking(p)') /\ (intFlag' <=> Flagging(p)')
    BY <1>1, <1>2, <2>1 DEF TypeOK, Masking, Flagging, Holds
  <2> QED BY <1>1, <2>1, <2>2, <2>3, <2>4, OwnStep DEF TypeOK
<1> QED BY <1>4, <1>5

\* An operation that ends in a release of PRIMASK, or would have, leaves an
\* internal section behind exactly when it was nested in one.
LEMMA FinishOwn ==
  ASSUME IInv, NEW p \in Ctx, pc[p] \in {"clear", "cpsie"}, Finish(p, FALSE),
         UNCHANGED <<enabled, implFlag, csMask, active, doing, saved, inInternal>>,
         primask' \in BOOLEAN, intFlag' \in BOOLEAN
  PROVE  /\ TypeOK' /\ Own(p)'
         /\ pc'[p] = "run"
         /\ Holds(p, "internal")' <=> ~saved[p]
         /\ \A q \in Ctx \ {p} : /\ pc'[q] = pc[q] /\ doing'[q] = doing[q]
                                 /\ saved'[q] = saved[q] /\ held'[q] = held[q]
<1> USE ConstantsAssumption DEF IInv
<1> DEFINE r == [kind |-> doing[p][2], token |-> FALSE]
<1>1. /\ pc' = [pc EXCEPT ![p] = "run"] /\ held' \in [Ctx -> Seq(Section)]
      /\ \A q \in Ctx : Len(held'[q]) <= MaxNest
      /\ \A q \in Ctx \ {p} : held'[q] = held[q]
      /\ doing[p][2] \in Kinds
      /\ \/ doing[p][1] = "acquire" /\ held'[p] = Append(held[p], r)
         \/ doing[p][1] = "release" /\ held[p] # <<>> /\ held'[p] = Pop(held[p])
  BY FinishFacts DEF Section
<1>2. /\ held[p] \in Seq(Section) /\ Tokens(held[p])
      /\ saved[p] = (IF Releases(p, "internal") THEN Top(p).token
                                                 ELSE ~HasKind(held[p], "internal"))
      /\ ~Acquires(p, "internal")
      /\ doing[p][1] = "release" => Top(p).kind = doing[p][2]
  BY DEF TypeOK, Own, Section, Holds, HasKind
<1>3. Tokens(held'[p]) /\ (HasKind(held'[p], "internal") <=> ~saved[p])
  <2>1. CASE doing[p][1] = "acquire"
    <3>1. doing[p][2] = "impl" /\ ~Releases(p, "internal")
      BY <1>1, <1>2, <2>1 DEF Acquires, Releases, Kinds
    <3>2. r \in Section /\ r.kind = "impl"
      BY <3>1 DEF Section, Kinds
    <3>3. held'[p] = Append(held[p], r)
      BY <1>1, <2>1
    <3> HIDE DEF r
    <3>4. Tokens(held'[p]) /\ (HasKind(held'[p], "internal") <=> HasKind(held[p], "internal"))
      BY <1>2, <3>2, <3>3, PushFacts
    <3> QED BY <1>2, <3>1, <3>4
  <2>2. CASE doing[p][1] = "release"
    <3>1. held[p] # <<>> /\ held'[p] = Pop(held[p]) /\ Top(p).kind = doing[p][2]
      BY <1>1, <1>2, <2>2
    <3>2. /\ Tokens(held'[p])
          /\ HasKind(held[p], "internal") <=>
               HasKind(held'[p], "internal") \/ Top(p).kind = "internal"
          /\ Top(p).kind = "internal" => (Top(p).token <=> ~HasKind(held'[p], "internal"))
      BY <1>2, <3>1, PopFacts DEF Top
    <3> QED BY <1>2, <2>2, <3>1, <3>2 DEF Releases
  <2> QED BY <1>1, <2>1, <2>2
<1>4. TypeOK'
  BY <1>1 DEF TypeOK, Section
<1>5. pc'[p] = "run" /\ Own(p)'
  BY <1>1, <1>3 DEF Own, TypeOK
<1>6. Holds(p, "internal")' <=> ~saved[p]
  BY <1>3 DEF Holds, HasKind
<1> QED BY <1>1, <1>4, <1>5, <1>6 DEF TypeOK

\* Only the outermost release takes the flag down.
LEMMA IClearFlag ==
  ASSUME IInv, NEW p \in Ctx, ClearFlag(p)
  PROVE  IInv'
<1> USE ConstantsAssumption DEF hw, regs, At, Goto, IInv
<1>1. /\ Running(p) /\ pc[p] = "clear"
      /\ UNCHANGED <<primask, enabled, implFlag, csMask, active, doing, saved, inInternal>>
  BY DEF ClearFlag
<1>2. primask /\ intFlag /\ primask' \in BOOLEAN
  BY <1>1, RunningAlone DEF Masking, Flagging, TypeOK
<1>3. CASE saved[p]
  <2>1. ~intFlag' /\ intFlag' \in BOOLEAN /\ pc' = [pc EXCEPT ![p] = "cpsie"] /\ UNCHANGED held
    BY <1>3 DEF ClearFlag
  <2>2. TypeOK'
    BY <1>1, <2>1 DEF TypeOK
  <2>3. Own(p)'
    BY <1>1, <1>3, <2>1 DEF TypeOK, Own, Acquires, Releases, Top, Holds
  <2>4. (primask' <=> Masking(p)') /\ (intFlag' <=> Flagging(p)')
    BY <1>1, <1>2, <2>1 DEF TypeOK, Masking, Flagging, Holds
  <2> QED BY <1>1, <2>1, <2>2, <2>3, <2>4, OwnStep DEF TypeOK
<1>4. CASE ~saved[p]
  <2>1. Finish(p, FALSE) /\ intFlag' = intFlag
    BY <1>4 DEF ClearFlag
  <2>2. intFlag' \in BOOLEAN
    BY <2>1 DEF TypeOK
  <2>3. /\ TypeOK' /\ Own(p)' /\ pc'[p] = "run" /\ Holds(p, "internal")'
        /\ \A q \in Ctx \ {p} : /\ pc'[q] = pc[q] /\ doing'[q] = doing[q]
                                /\ saved'[q] = saved[q] /\ held'[q] = held[q]
    BY <1>1, <1>2, <1>4, <2>1, <2>2, FinishOwn
  <2>4. (primask' <=> Masking(p)') /\ (intFlag' <=> Flagging(p)')
    BY <1>1, <1>2, <2>1, <2>3 DEF Masking, Flagging
  <2> QED BY <1>1, <2>3, <2>4, OwnStep
<1> QED BY <1>3, <1>4

\* cpsie ends the outermost section.
LEMMA IEnableInterrupts ==
  ASSUME IInv, NEW p \in Ctx, EnableInterrupts(p)
  PROVE  IInv'
<1> USE ConstantsAssumption DEF hw, regs, At, Goto, IInv
<1>1. /\ Running(p) /\ pc[p] = "cpsie" /\ ~primask' /\ primask' \in BOOLEAN /\ Finish(p, FALSE)
      /\ UNCHANGED <<enabled, intFlag, implFlag, csMask, active, doing, saved, inInternal>>
  BY DEF EnableInterrupts
<1>2. saved[p] /\ intFlag' \in BOOLEAN
  BY <1>1 DEF Own, TypeOK
<1>3. ~intFlag
  BY <1>1, <1>2, RunningAlone DEF Flagging
<1>4. /\ TypeOK' /\ Own(p)' /\ pc'[p] = "run" /\ ~Holds(p, "internal")'
      /\ \A q \in Ctx \ {p} : /\ pc'[q] = pc[q] /\ doing'[q] = doing[q]
                              /\ saved'[q] = saved[q] /\ held'[q] = held[q]
  BY <1>1, <1>2, FinishOwn
<1>5. (primask' <=> Masking(p)') /\ (intFlag' <=> Flagging(p)')
  BY <1>1, <1>3, <1>4 DEF Masking, Flagging
<1> QED BY <1>1, <1>4, <1>5, OwnStep

\* Interrupts come when nobody masks, and leave nothing behind.
LEMMA IInterrupt ==
  ASSUME IInv, NEW h \in Irq, Interrupt(h) \/ ReturnFromInterrupt(h)
  PROVE  IInv'
<1> USE ConstantsAssumption DEF hw, regs, At, IInv
<1>1. UNCHANGED <<primask, enabled, intFlag, implFlag, csMask, pc, doing, saved, inInternal, held>>
  BY DEF Interrupt, ReturnFromInterrupt
<1>2. \A q \in Ctx : /\ Own(q)' /\ (Masking(q)' <=> Masking(q))
                     /\ (Flagging(q)' <=> Flagging(q))
  BY <1>1 DEF Own, Acquires, Releases, Top, Holds, Masking, Flagging
<1>3. active' \subseteq Ctx /\ Thread \in active'
  <2>1. h \in Ctx /\ h # Thread
    BY DEF Ctx, Irq, Thread
  <2> QED BY <2>1 DEF Interrupt, ReturnFromInterrupt, TypeOK
<1>4. TypeOK'
  BY <1>1, <1>3 DEF TypeOK
<1>5. Idle'
  BY <1>1 DEF Interrupt, ReturnFromInterrupt, Idle
<1>6. MaskAlone'
  <2>1. CASE Interrupt(h)
    <3>1. \A q \in Ctx : ~Masking(q)
      BY <2>1 DEF Interrupt, MaskOwner
    <3> QED BY <1>2, <1>3, <3>1 DEF MaskAlone
  <2>2. CASE ReturnFromInterrupt(h)
    <3>1. active' \subseteq active
      BY <2>2 DEF ReturnFromInterrupt
    <3> QED BY <1>2, <1>3, <3>1 DEF MaskAlone
  <2> QED BY <2>1, <2>2
<1>7. MaskOwner' /\ FlagOwner'
  BY <1>1, <1>2 DEF MaskOwner, FlagOwner
<1> QED BY <1>2, <1>4, <1>5, <1>6, <1>7

\* Every step keeps the invariant, so it always holds.
LEMMA INext == IInv /\ [Next]_vars => IInv'
<1> SUFFICES ASSUME IInv, [Next]_vars PROVE IInv'
  OBVIOUS
<1>1. ASSUME NEW p \in Ctx, Step(p) PROVE IInv'
  <2>1. CASE AcquireInternal(p) \/ ReleaseInternal(p) \/ LoadInternalFlag(p)
    BY <2>1, IBegin
  <2>2. CASE AcquireImpl(p)
    <3>1. CASE implFlag
      BY <2>2, <3>1, INested
    <3>2. CASE ~implFlag
      BY <2>2, <3>2, IBegin
    <3> QED BY <3>1, <3>2
  <2>3. CASE ReleaseImpl(p)
    <3>1. CASE Top(p).token
      BY <2>3, <3>1, INested
    <3>2. CASE ~Top(p).token
      BY <2>3, <3>2, IBegin
    <3> QED BY <3>1, <3>2
  <2>4. CASE ReadPrimask(p) \/ DisableInterrupts(p) \/ SetFlag(p)
    BY <2>4, IReadPrimask, IDisableInterrupts, ISetFlag
  <2>5. CASE ClearFlag(p) \/ EnableInterrupts(p) \/ Work(p)
    BY <2>5, IClearFlag, IEnableInterrupts, IWork
  <2> QED BY <1>1, <2>1, <2>2, <2>3, <2>4, <2>5 DEF Step
<1>2. CASE UNCHANGED vars
  <2>1. UNCHANGED <<primask, enabled, intFlag, implFlag, csMask, active, pc, doing, saved, inInternal, held>>
    BY <1>2 DEF vars, hw, regs
  <2>2. TypeOK' /\ Idle'
    BY <2>1 DEF IInv, TypeOK, Idle
  <2>3. \A p \in Ctx : Own(p)' /\ (Masking(p)' <=> Masking(p)) /\ (Flagging(p)' <=> Flagging(p))
    BY <2>1 DEF IInv, Own, Acquires, Releases, Top, Holds, Masking, Flagging
  <2>4. MaskAlone' /\ MaskOwner' /\ FlagOwner'
    BY <2>1, <2>3 DEF IInv, TypeOK, MaskAlone, MaskOwner, FlagOwner
  <2> QED BY <2>2, <2>3, <2>4 DEF IInv
<1> QED BY <1>1, <1>2, IInterrupt DEF Next

\* The invariant always holds.
LEMMA IAlways == Spec => []IInv
BY IInit, INext, PTL DEF Spec

\* Every variable keeps its type, and no context nests deeper than it may.
THEOREM TypeCorrect == Spec => []TypeOK
<1>1. IInv => TypeOK
  BY DEF IInv
<1> QED BY <1>1, IAlways, PTL

\* No interrupt runs inside an internal section, however sections of both kinds
\* nest and whatever handlers preempt one another (nrf5x.rs:63-88).
THEOREM InternalSafe == Spec => []InternalExcludesAll
<1>1. IInv => InternalExcludesAll
  BY DEF IInv, MaskAlone, Masking, InternalExcludesAll
<1> QED BY <1>1, IAlways, PTL

\* Of nested internal sections the outermost release ends the masking and no
\* other (embassy.rs:404-417).
THEOREM OutermostSafe == Spec => []OutermostEnds
<1>1. IInv => OutermostEnds
  BY DEF IInv, Own, Tokens, HasKind, OutermostEnds
<1> QED BY <1>1, IAlways, PTL

\* ble_npl_hw_is_in_critical answers for its caller (embassy.rs:419-421).
THEOREM InCriticalAnswers == Spec => []InCriticalIsOwn
<1>1. ASSUME IInv, NEW p \in Ctx, At(p, "run")
      PROVE  intFlag <=> Holds(p, "internal")
  BY <1>1, RunningAlone DEF At, Flagging
<1>2. IInv => InCriticalIsOwn
  BY <1>1 DEF InCriticalIsOwn
<1> QED BY <1>2, IAlways, PTL
--------------------------------------------------------------------------------
(***************************************************************************)
(* Sections of the critical-section crate.  A section opens when it turns  *)
(* the NVIC off: it is neither nested in one that did, which its token     *)
(* says, nor inside an internal section, where with_fn does nothing.       *)
(***************************************************************************)
OpensAt(s, i) ==
  /\ s[i].kind = "impl" /\ ~s[i].token
  /\ \A j \in 1..(i - 1) : s[j].kind # "internal"

HasOpen(s) == \E i \in 1..Len(s) : OpensAt(s, i)

Single(s) == \A i, j \in 1..Len(s) : OpensAt(s, i) /\ OpensAt(s, j) => i = j

\* A nested section is nested in one that opens, in the stack or below (b).
Covered(s, b) ==
  \A i \in 1..Len(s) :
    s[i].kind = "impl" /\ s[i].token => b \/ \E j \in 1..(i - 1) : OpensAt(s, j)

Opens(p) == HasOpen(held[p])

OpensBelow(p) == \E q \in Ctx : q < p /\ Opens(q)

\* The closure of an acquire or a release has run, and the section is not on
\* the stack yet, or is still there.
Opened(p) == Acquires(p, "impl") /\ pc[p] \in {"clear", "cpsie"} /\ ~inInternal[p]
Closed(p) == Releases(p, "impl") /\ pc[p] \in {"clear", "cpsie"} /\ ~inInternal[p]

\* The NVIC is off for p.
Effective(p) == (Opens(p) /\ ~Closed(p)) \/ Opened(p)

ImplOwn(p) ==
  /\ Single(held[p])
  /\ Covered(held[p], OpensBelow(p))
  /\ pc[p] # "run" /\ Releases(p, "impl") => ~Top(p).token
  /\ pc[p] \notin {"run", "load"} /\ doing[p][2] = "impl" =>
       (inInternal[p] <=> Holds(p, "internal"))
  /\ pc[p] # "run" /\ Acquires(p, "impl") => ~OpensBelow(p) /\ ~Opens(p)

OneEffective == \A p, q \in Ctx : Effective(p) /\ Effective(q) => p = q

ImplOwner == implFlag <=> \E p \in Ctx : Effective(p)

\* What the NVIC enables, and what csMask is to bring back.
NvicOwner ==
  /\ enabled = (IF implFlag THEN Reserved ELSE Irq)
  /\ implFlag => csMask = Irq

KInv ==
  /\ \A p \in Ctx : ImplOwn(p)
  /\ OneEffective /\ ImplOwner /\ NvicOwner
  /\ ImplExcludesOthers

\* What a push and a pop do to the sections that open.
LEMMA PushOpens ==
  ASSUME NEW s \in Seq(Section), NEW r \in Section, NEW b,
         Single(s), Covered(s, b)
  PROVE  LET new == r.kind = "impl" /\ ~r.token /\ ~HasKind(s, "internal")
         IN  /\ HasOpen(Append(s, r)) <=> HasOpen(s) \/ new
             /\ (new => ~HasOpen(s)) => Single(Append(s, r))
             /\ (r.kind = "impl" /\ r.token => b \/ HasOpen(s)) => Covered(Append(s, r), b)
<1> DEFINE new == r.kind = "impl" /\ ~r.token /\ ~HasKind(s, "internal")
           t == Append(s, r)
<1>1. /\ Len(s) \in Nat /\ t \in Seq(Section) /\ Len(t) = Len(s) + 1
      /\ \A i \in 1..Len(s) : t[i] = s[i]
      /\ t[Len(s) + 1] = r
  BY LenProperties, AppendProperties
<1> HIDE DEF t
<1>2. ASSUME NEW i \in 1..Len(s) PROVE OpensAt(t, i) <=> OpensAt(s, i)
  <2>1. \A j \in 1..(i - 1) : t[j] = s[j]
    BY <1>1
  <2> QED BY <1>1, <2>1 DEF OpensAt
<1>3. OpensAt(t, Len(s) + 1) <=> new
  <2>1. Len(s) + 1 - 1 = Len(s)
    BY <1>1
  <2>2. \A j \in 1..Len(s) : t[j] = s[j]
    BY <1>1
  <2> QED BY <1>1, <2>1, <2>2 DEF OpensAt, HasKind
<1> HIDE DEF new
<1>4. \A i \in 1..Len(t) : i \in 1..Len(s) \/ i = Len(s) + 1
  BY <1>1
<1>5. HasOpen(t) <=> HasOpen(s) \/ new
  BY <1>1, <1>2, <1>3, <1>4 DEF HasOpen
<1>6. ASSUME new => ~HasOpen(s) PROVE Single(t)
  BY <1>1, <1>2, <1>3, <1>4, <1>6 DEF Single, HasOpen
<1>7. ASSUME r.kind = "impl" /\ r.token => b \/ HasOpen(s) PROVE Covered(t, b)
  <2> SUFFICES ASSUME NEW i \in 1..Len(t), t[i].kind = "impl", t[i].token, ~b
               PROVE  \E j \in 1..(i - 1) : OpensAt(t, j)
    BY DEF Covered
  <2>1. CASE i \in 1..Len(s)
    <3>1. PICK j \in 1..(i - 1) : OpensAt(s, j)
      BY <1>1, <2>1 DEF Covered
    <3>2. j \in 1..Len(s)
      BY <1>1, <2>1
    <3> QED BY <1>2, <3>1, <3>2
  <2>2. CASE i = Len(s) + 1
    <3>1. HasOpen(s)
      BY <1>1, <1>7, <2>2
    <3>2. PICK j \in 1..Len(s) : OpensAt(s, j)
      BY <3>1 DEF HasOpen
    <3>3. j \in 1..(i - 1)
      BY <1>1, <2>2
    <3> QED BY <1>2, <3>2, <3>3
  <2> QED BY <1>4, <2>1, <2>2
<1> QED BY <1>5, <1>6, <1>7 DEF t, new

\* And giving one up closes it if it had opened.
LEMMA PopOpens ==
  ASSUME NEW s \in Seq(Section), s # <<>>, NEW b, Single(s), Covered(s, b)
  PROVE  LET top == /\ s[Len(s)].kind = "impl" /\ ~s[Len(s)].token
                    /\ ~HasKind(Pop(s), "internal")
         IN  /\ HasOpen(s) <=> HasOpen(Pop(s)) \/ top
             /\ top => ~HasOpen(Pop(s))
             /\ Single(Pop(s))
             /\ Covered(Pop(s), b)
<1> DEFINE n == Len(s)
           t == Pop(s)
           top == s[n].kind = "impl" /\ ~s[n].token /\ ~HasKind(t, "internal")
<1>1. n \in Nat \ {0} /\ Len(t) = n - 1 /\ t \in Seq(Section)
  <2>1. n \in Nat /\ n # 0
    BY EmptySeq, LenProperties
  <2> QED BY <2>1, PopFacts
<1>2. \A i \in 1..(n - 1) : t[i] = s[i]
  <2>1. \A i \in 1..(n - 1) : s[i] \in Section
    BY <1>1, LenProperties
  <2>2. \A i \in 1..(n - 1 - 1 + 1) : t[i] = s[1 + i - 1]
    BY <1>1, <2>1, SubSeqProperties DEF Pop
  <2> QED BY <1>1, <2>2
<1> HIDE DEF t, n
<1>3. ASSUME NEW i \in 1..(n - 1) PROVE OpensAt(t, i) <=> OpensAt(s, i)
  <2>1. \A j \in 1..(i - 1) : t[j] = s[j]
    BY <1>1, <1>2
  <2> QED BY <1>1, <1>2, <2>1 DEF OpensAt
<1>4. OpensAt(s, n) <=> top
  BY <1>1, <1>2 DEF OpensAt, HasKind
<1> HIDE DEF top
<1>5. \A i \in 1..n : i \in 1..(n - 1) \/ i = n
  BY <1>1
<1>6. n \in 1..n /\ n \notin 1..(n - 1) /\ \A i \in 1..(n - 1) : i \in 1..n
  BY <1>1
<1>7. HasOpen(s) <=> HasOpen(t) \/ top
  BY <1>1, <1>3, <1>4, <1>5, <1>6 DEF HasOpen, n
<1>8. top => ~HasOpen(t)
  BY <1>1, <1>3, <1>4, <1>6 DEF HasOpen, Single, n
<1>9. Single(t)
  BY <1>1, <1>3, <1>6 DEF Single, n
<1>10. Covered(t, b)
  <2> SUFFICES ASSUME NEW i \in 1..(n - 1), t[i].kind = "impl", t[i].token, ~b
               PROVE  \E j \in 1..(i - 1) : OpensAt(t, j)
    BY <1>1 DEF Covered
  <2>1. PICK j \in 1..(i - 1) : OpensAt(s, j)
    BY <1>2, <1>6 DEF Covered, n
  <2>2. j \in 1..(n - 1)
    BY <1>1
  <2> QED BY <1>3, <2>1, <2>2
<1> QED BY <1>7, <1>8, <1>9, <1>10 DEF t, n, top

\* The invariant of the NVIC and the sections of the crate, from the start.
LEMMA KInit == Init => KInv
<1> SUFFICES ASSUME Init PROVE KInv
  OBVIOUS
<1> USE ConstantsAssumption DEF Init, Ctx, Thread, Irq
<1>1. \A p \in Ctx : held[p] = <<>> /\ pc[p] = "run"
  OBVIOUS
<1>2. \A p \in Ctx : ~Opens(p) /\ ~Effective(p)
  BY <1>1 DEF Opens, HasOpen, Effective, Opened
<1>3. \A p \in Ctx : ImplOwn(p)
  BY <1>1 DEF ImplOwn, Single, Covered
<1>4. ImplExcludesOthers
  BY DEF ImplExcludesOthers
<1> QED BY <1>2, <1>3, <1>4 DEF KInv, OneEffective, ImplOwner, NvicOwner

\* What lies below a context is not its own to change.
LEMMA BelowSame ==
  ASSUME NEW p \in Ctx, \A q \in Ctx \ {p} : held'[q] = held[q]
  PROVE  OpensBelow(p)' = OpensBelow(p)
<1>1. \A q \in Ctx : q < p => q # p
  BY ConstantsAssumption DEF Ctx
<1>2. OpensBelow(p)' <=> OpensBelow(p)
  BY <1>1 DEF OpensBelow, Opens
<1> QED BY <1>2 DEF OpensBelow

\* A step of the running context, again by its own part.
LEMMA ImplStep ==
  ASSUME IInv, KInv, NEW p \in Ctx, Running(p), UNCHANGED active,
         \A q \in Ctx \ {p} : /\ pc'[q] = pc[q] /\ doing'[q] = doing[q]
                              /\ inInternal'[q] = inInternal[q] /\ held'[q] = held[q],
         ImplOwn(p)', NvicOwner',
         implFlag' <=> (Effective(p)' \/ \E q \in Ctx \ {p} : Effective(q)),
         Effective(p)' => \A q \in Ctx \ {p} : ~Effective(q)
  PROVE  KInv'
<1>1. \A q \in Ctx \ {p} : /\ Opens(q)' <=> Opens(q)
                           /\ Effective(q)' <=> Effective(q)
  BY DEF Opens, Effective, Opened, Closed, Acquires, Releases
<1>2. ASSUME NEW q \in Ctx \ {p} PROVE ImplOwn(q)'
  <2>1. CASE q \in active
    <3>1. q < p /\ p \in active
      BY <2>1, ConstantsAssumption DEF Running, Ctx
    <3>2. \A r \in Ctx : r < q => r # p
      BY <3>1, ConstantsAssumption DEF Ctx
    <3>3. OpensBelow(q)' <=> OpensBelow(q)
      BY <1>1, <3>2 DEF OpensBelow
    <3>4. ImplOwn(q)
      BY DEF KInv
    <3>5. Covered(held[q], OpensBelow(q))'
      BY <3>3, <3>4 DEF ImplOwn, Covered
    <3>6. (Opens(q)' <=> Opens(q)) /\ (Holds(q, "internal")' <=> Holds(q, "internal"))
          /\ Single(held[q])' /\ Top(q)' = Top(q)
      BY <1>1, <3>4 DEF ImplOwn, Holds, Top
    <3> QED BY <3>3, <3>4, <3>5, <3>6 DEF ImplOwn, Acquires, Releases
  <2>2. CASE q \notin active
    <3>1. held'[q] = <<>> /\ pc'[q] = "run"
      BY <2>2 DEF IInv, Idle
    <3>2. Single(held'[q]) /\ Covered(held'[q], OpensBelow(q)')
      BY <3>1 DEF Single, Covered
    <3> QED BY <3>1, <3>2 DEF ImplOwn
  <2> QED BY <2>1, <2>2
<1>3. OneEffective' /\ ImplOwner'
  BY <1>1 DEF KInv, OneEffective, ImplOwner
<1>4. ImplExcludesOthers'
  <2> SUFFICES ASSUME NEW a \in active, NEW h \in active, a < h, h \notin Reserved
               PROVE  ~Holds(a, "impl")'
    BY DEF ImplExcludesOthers
  <2>1. a # p /\ a \in Ctx
    BY ConstantsAssumption DEF Running, IInv, TypeOK, Ctx
  <2> QED BY <2>1 DEF KInv, ImplExcludesOthers, Holds
<1> QED BY <1>2, <1>3, <1>4 DEF KInv

\* A step that neither opens nor closes.
LEMMA QuietStep ==
  ASSUME IInv, KInv, NEW p \in Ctx, Running(p),
         UNCHANGED <<active, enabled, implFlag, csMask>>,
         \A q \in Ctx \ {p} : /\ pc'[q] = pc[q] /\ doing'[q] = doing[q]
                              /\ inInternal'[q] = inInternal[q] /\ held'[q] = held[q],
         ImplOwn(p)', Effective(p)' <=> Effective(p)
  PROVE  KInv'
<1>1. NvicOwner'
  BY DEF KInv, NvicOwner
<1>2. implFlag' <=> (Effective(p)' \/ \E q \in Ctx \ {p} : Effective(q))
  BY DEF KInv, ImplOwner
<1>3. Effective(p)' => \A q \in Ctx \ {p} : ~Effective(q)
  BY DEF KInv, OneEffective
<1> QED BY <1>1, <1>2, <1>3, ImplStep

\* A running context that opened nothing finds the flag down only if nothing
\* below it is open either.
LEMMA FlagDown ==
  ASSUME IInv, KInv, NEW p \in Ctx, Running(p), pc[p] = "run"
  PROVE  implFlag <=> OpensBelow(p) \/ Opens(p)
<1>1. \A q \in Ctx : ~Closed(q) /\ ~Opened(q)
  BY RunningAlone DEF Closed, Opened, Masking
<1>2. \A q \in Ctx : Effective(q) <=> Opens(q)
  BY <1>1 DEF Effective
<1>3. \A q \in Ctx : Opens(q) => q < p \/ q = p
  <2> SUFFICES ASSUME NEW q \in Ctx, Opens(q), q # p PROVE q < p
    OBVIOUS
  <2>1. q \in active
    BY DEF IInv, Idle, Opens, HasOpen
  <2> QED BY <2>1, ConstantsAssumption DEF Running, Ctx
<1> QED BY <1>2, <1>3 DEF KInv, ImplOwner, OpensBelow

\* A step that leaves the stack alone, outside the closures of with_fn.
LEMMA StackSame ==
  ASSUME IInv, KInv, NEW p \in Ctx, held' = held
  PROVE  /\ Single(held[p])' /\ Covered(held[p], OpensBelow(p))'
         /\ (Opens(p)' <=> Opens(p)) /\ (OpensBelow(p)' <=> OpensBelow(p))
         /\ Top(p)' = Top(p) /\ (Holds(p, "internal")' <=> Holds(p, "internal"))
<1>1. OpensBelow(p)' = OpensBelow(p)
  BY BelowSame
<1>2. Covered(held[p], OpensBelow(p))'
  BY <1>1 DEF KInv, ImplOwn, Covered
<1> QED BY <1>1, <1>2 DEF KInv, ImplOwn, Single, Opens, Top, Holds

\* An operation begins, or reads the flags, while nothing opens or closes.
LEMMA KBegin ==
  ASSUME IInv, KInv, NEW p \in Ctx,
         \/ AcquireInternal(p)
         \/ ReleaseInternal(p)
         \/ LoadInternalFlag(p)
         \/ AcquireImpl(p) /\ ~implFlag
         \/ ReleaseImpl(p) /\ ~Top(p).token
  PROVE  KInv'
<1> USE ConstantsAssumption DEF hw, regs, At, Goto, Doing
<1>1. /\ Running(p) /\ pc[p] \in {"run", "load"}
      /\ UNCHANGED <<active, enabled, implFlag, csMask, held>>
      /\ \A q \in Ctx \ {p} : /\ pc'[q] = pc[q] /\ doing'[q] = doing[q]
                              /\ inInternal'[q] = inInternal[q] /\ held'[q] = held[q]
  BY DEF IInv, TypeOK, AcquireInternal, ReleaseInternal, LoadInternalFlag, AcquireImpl, ReleaseImpl
<1>2. \/ Acquires(p, "internal")' /\ pc'[p] = "mrs" /\ doing'[p][2] # "impl"
      \/ Releases(p, "internal")' /\ pc'[p] = "clear" /\ doing'[p][2] # "impl"
      \/ /\ pc[p] = "load" /\ doing'[p] = doing[p] /\ pc'[p] = "mrs"
         /\ inInternal'[p] = intFlag
      \/ /\ pc[p] = "run" /\ ~implFlag /\ Acquires(p, "impl")' /\ pc'[p] = "load"
      \/ /\ ~Top(p).token /\ Releases(p, "impl")' /\ pc'[p] = "load"
  BY DEF IInv, TypeOK, AcquireInternal, ReleaseInternal, LoadInternalFlag, AcquireImpl,
         ReleaseImpl, Acquires, Releases
<1>3. pc[p] = "load" => (intFlag <=> Holds(p, "internal"))
  BY <1>1, RunningAlone DEF Flagging
<1>4. pc[p] = "run" /\ ~implFlag => ~OpensBelow(p) /\ ~Opens(p)
  BY <1>1, FlagDown
<1>5. ImplOwn(p)'
  <2>1. ImplOwn(p)
    BY DEF KInv
  <2> QED BY <1>1, <1>2, <1>3, <1>4, <2>1, StackSame DEF ImplOwn, Acquires, Releases
<1>6. Effective(p)' <=> Effective(p)
  BY <1>1, <1>2, StackSame DEF Effective, Opened, Closed, Acquires, Releases
<1> QED BY <1>1, <1>5, <1>6, QuietStep

\* The instructions of the internal section neither open nor close.
LEMMA KMask ==
  ASSUME IInv, KInv, NEW p \in Ctx,
         \/ ReadPrimask(p) \/ DisableInterrupts(p)
         \/ SetFlag(p) /\ doing[p][2] # "internal"
         \/ ClearFlag(p) /\ saved[p]
  PROVE  KInv'
<1> USE ConstantsAssumption DEF hw, regs, At, Goto, Doing
<1>1. /\ Running(p) /\ pc[p] # "run" /\ pc[p] # "load"
      /\ UNCHANGED <<active, enabled, implFlag, csMask, doing, inInternal, held>>
      /\ \A q \in Ctx \ {p} : pc'[q] = pc[q]
      /\ pc'[p] # "run"
      /\ pc'[p] \in {"clear", "cpsie"} <=> pc[p] \in {"clear", "cpsie"}
  BY DEF IInv, TypeOK, ReadPrimask, DisableInterrupts, SetFlag, ClearFlag
<1>2. ImplOwn(p)'
  <2>1. ImplOwn(p)
    BY DEF KInv
  <2> QED BY <1>1, <2>1, StackSame DEF ImplOwn, Acquires, Releases
<1>3. Effective(p)' <=> Effective(p)
  BY <1>1, StackSame DEF Effective, Opened, Closed, Acquires, Releases
<1> QED BY <1>1, <1>2, <1>3, QuietStep

\* The closure of an acquire opens, that of a release closes, unless they are
\* inside an internal section.
LEMMA KWork ==
  ASSUME IInv, KInv, NEW p \in Ctx, Work(p)
  PROVE  KInv'
<1> USE ConstantsAssumption DEF hw, regs, At, Goto, IInv
<1>1. /\ Running(p) /\ pc[p] = "work" /\ pc'[p] = "clear"
      /\ UNCHANGED <<active, doing, inInternal, held>>
      /\ \A q \in Ctx \ {p} : pc'[q] = pc[q]
  BY DEF Work, TypeOK
<1>2. /\ inInternal[p] <=> Holds(p, "internal")
      /\ inInternal[p] \in BOOLEAN
      /\ Acquires(p, "impl") \/ Releases(p, "impl")
  BY <1>1 DEF KInv, ImplOwn, Own, TypeOK, Acquires, Releases
<1>3. ImplOwn(p)'
  <2>1. ImplOwn(p)
    BY DEF KInv
  <2> QED BY <1>1, <2>1, StackSame DEF ImplOwn, Acquires, Releases
<1>4. CASE inInternal[p]
  <2>1. UNCHANGED <<enabled, implFlag, csMask>>
    BY <1>4 DEF Work, Mask, Unmask
  <2>2. Effective(p)' <=> Effective(p)
    BY <1>1, <1>4, StackSame DEF Effective, Opened, Closed
  <2> QED BY <1>1, <1>3, <2>1, <2>2, QuietStep
<1>5. CASE ~inInternal[p] /\ Acquires(p, "impl")
  <2>1. implFlag' = TRUE /\ csMask' = enabled /\ enabled' = enabled \cap Reserved
    BY <1>5 DEF Work, Mask, Acquires
  <2>2. ~OpensBelow(p) /\ ~Opens(p)
    BY <1>1, <1>5 DEF KInv, ImplOwn
  <2>3. \A q \in Ctx \ {p} : ~Effective(q)
    <3> SUFFICES ASSUME NEW q \in Ctx \ {p}, Effective(q) PROVE FALSE
      OBVIOUS
    <3>1. ~Opened(q)
      BY <1>1, RunningAlone DEF Opened, Masking
    <3>2. Opens(q)
      BY <3>1 DEF Effective
    <3>3. q \in active
      BY <3>2 DEF Idle, Opens, HasOpen
    <3>4. q < p
      BY <1>1, <3>3 DEF Running, Ctx
    <3> QED BY <2>2, <3>2, <3>4 DEF OpensBelow
  <2>4. ~Effective(p)
    BY <1>1, <2>2 DEF Effective, Opened
  <2>5. ~implFlag
    BY <2>3, <2>4 DEF KInv, ImplOwner
  <2>6. NvicOwner'
    BY <2>1, <2>5 DEF KInv, NvicOwner
  <2>7. Effective(p)'
    BY <1>1, <1>5 DEF Effective, Opened, Acquires
  <2> QED BY <1>1, <1>3, <2>1, <2>3, <2>6, <2>7, ImplStep
<1>6. CASE ~inInternal[p] /\ Releases(p, "impl")
  <2>1. implFlag' = FALSE /\ csMask' = csMask /\ enabled' = enabled \cup (csMask \ Reserved)
    BY <1>6 DEF Work, Unmask, Releases
  <2>2. Opens(p)
    <3>1. /\ held[p] # <<>> /\ Top(p).kind = "impl" /\ ~Top(p).token
          /\ held[p] \in Seq(Section) /\ ~HasKind(held[p], "internal")
          /\ Single(held[p]) /\ Covered(held[p], OpensBelow(p))
      BY <1>1, <1>2, <1>6 DEF Own, KInv, ImplOwn, Releases, TypeOK, Section, Holds, HasKind
    <3>2. ~HasKind(Pop(held[p]), "internal")
      BY <3>1, PopFacts
    <3> QED BY <3>1, <3>2, PopOpens DEF Opens, Top
  <2>3. Effective(p)
    BY <1>1, <2>2 DEF Effective, Closed
  <2>4. implFlag /\ \A q \in Ctx \ {p} : ~Effective(q)
    BY <2>3 DEF KInv, ImplOwner, OneEffective
  <2>5. NvicOwner'
    BY <2>1, <2>4 DEF KInv, NvicOwner
  <2>6. ~Effective(p)'
    BY <1>1, <1>6 DEF Effective, Opened, Closed, Releases, Acquires
  <2> QED BY <1>1, <1>3, <2>1, <2>4, <2>5, <2>6, ImplStep
<1> QED BY <1>2, <1>4, <1>5, <1>6

\* A stack that changes between operations.
LEMMA StackStep ==
  ASSUME IInv, KInv, NEW p \in Ctx, Running(p), pc'[p] = "run",
         UNCHANGED <<active, enabled, implFlag, csMask, doing, inInternal>>,
         \A q \in Ctx \ {p} : pc'[q] = pc[q] /\ held'[q] = held[q],
         Single(held'[p]), Covered(held'[p], OpensBelow(p)),
         HasOpen(held'[p]) <=> Effective(p)
  PROVE  KInv'
<1>1. OpensBelow(p)' = OpensBelow(p)
  BY BelowSame
<1>2. ImplOwn(p)'
  BY <1>1 DEF ImplOwn, Covered
<1>3. Effective(p)' <=> Effective(p)
  BY DEF Effective, Opened, Closed, Opens
<1> QED BY <1>2, <1>3, QuietStep

\* A nested section opens nothing: one that does is below it.
LEMMA KNested ==
  ASSUME IInv, KInv, NEW p \in Ctx,
         \/ AcquireImpl(p) /\ implFlag
         \/ ReleaseImpl(p) /\ Top(p).token
  PROVE  KInv'
<1> USE ConstantsAssumption DEF hw, regs, At
<1> DEFINE r == [kind |-> "impl", token |-> TRUE]
<1>1. /\ Running(p) /\ pc[p] = "run" /\ pc'[p] = "run"
      /\ UNCHANGED <<active, enabled, implFlag, csMask, doing, inInternal, pc>>
  BY DEF AcquireImpl, ReleaseImpl
<1>2. /\ held[p] \in Seq(Section) /\ Single(held[p]) /\ Covered(held[p], OpensBelow(p))
      /\ r \in Section /\ r.kind = "impl" /\ r.token
  BY DEF IInv, TypeOK, KInv, ImplOwn, Section, Kinds
<1>3. Effective(p) <=> HasOpen(held[p])
  BY <1>1 DEF Effective, Opened, Closed, Opens
<1>4. CASE AcquireImpl(p) /\ implFlag
  <2>1. held'[p] = Append(held[p], r) /\ \A q \in Ctx \ {p} : held'[q] = held[q]
    BY <1>4 DEF AcquireImpl, IInv, TypeOK
  <2>2. OpensBelow(p) \/ HasOpen(held[p])
    BY <1>1, <1>4, FlagDown DEF Opens
  <2> HIDE DEF r
  <2>3. /\ HasOpen(held'[p]) <=> HasOpen(held[p])
        /\ Single(held'[p]) /\ Covered(held'[p], OpensBelow(p))
    BY <1>2, <2>1, <2>2, PushOpens
  <2> QED BY <1>1, <1>3, <2>1, <2>3, StackStep
<1>5. CASE ReleaseImpl(p) /\ Top(p).token
  <2>1. /\ held[p] # <<>> /\ held[p][Len(held[p])].token
        /\ held'[p] = Pop(held[p]) /\ \A q \in Ctx \ {p} : held'[q] = held[q]
    BY <1>5 DEF ReleaseImpl, IInv, TypeOK, Top, Pop
  <2>2. /\ HasOpen(held'[p]) <=> HasOpen(held[p])
        /\ Single(held'[p]) /\ Covered(held'[p], OpensBelow(p))
    BY <1>2, <2>1, PopOpens
  <2> QED BY <1>1, <1>3, <2>1, <2>2, StackStep
<1> QED BY <1>4, <1>5

\* The end of an operation puts on the stack, or takes off, what the closure
\* has opened or closed.
LEMMA KFinish ==
  ASSUME IInv, KInv, NEW p \in Ctx, Running(p), NEW t \in BOOLEAN, Finish(p, t),
         pc[p] = "set" => doing[p][2] = "internal",
         pc[p] \in {"set", "clear", "cpsie"}, pc[p] # "set" => ~t,
         UNCHANGED <<active, enabled, implFlag, csMask, doing, inInternal>>
  PROVE  KInv'
<1> USE ConstantsAssumption
<1> DEFINE s == held[p]
           r == [kind |-> doing[p][2], token |-> t]
<1>1. /\ pc'[p] = "run" /\ \A q \in Ctx \ {p} : pc'[q] = pc[q] /\ held'[q] = held[q]
      /\ doing[p][2] \in Kinds
      /\ \/ doing[p][1] = "acquire" /\ held'[p] = Append(s, r)
         \/ doing[p][1] = "release" /\ s # <<>> /\ held'[p] = Pop(s)
  <2>1. /\ pc' = [pc EXCEPT ![p] = "run"] /\ doing[p][2] \in Kinds
        /\ \A q \in Ctx \ {p} : held'[q] = held[q]
        /\ \/ doing[p][1] = "acquire" /\ held'[p] = Append(s, r)
           \/ doing[p][1] = "release" /\ s # <<>> /\ held'[p] = Pop(s)
    BY FinishFacts
  <2>2. pc \in [Ctx -> {"run", "mrs", "cpsid", "set", "work", "clear", "cpsie", "load"}]
    BY DEF IInv, TypeOK
  <2>3. pc'[p] = "run" /\ \A q \in Ctx \ {p} : pc'[q] = pc[q]
    BY <2>1, <2>2
  <2> QED BY <2>1, <2>3
<1>2. /\ s \in Seq(Section) /\ Single(s) /\ Covered(s, OpensBelow(p))
      /\ r \in Section /\ r.kind = doing[p][2] /\ r.token = t
  BY <1>1 DEF IInv, TypeOK, KInv, ImplOwn, Section
<1>3. doing[p][2] = "impl" => (inInternal[p] <=> HasKind(s, "internal"))
  BY DEF KInv, ImplOwn, Holds, HasKind
<1>4. doing[p][2] \in {"internal", "impl"}
  BY <1>1 DEF Kinds
<1> HIDE DEF r
<1>5. CASE doing[p][1] = "acquire" /\ doing[p][2] = "internal"
  <2>1. held'[p] = Append(s, r) /\ r.kind = "internal"
    BY <1>1, <1>2, <1>5
  <2>2. (HasOpen(held'[p]) <=> HasOpen(s)) /\ Single(held'[p]) /\ Covered(held'[p], OpensBelow(p))
    BY <1>2, <2>1, PushOpens
  <2>3. Effective(p) <=> HasOpen(s)
    BY <1>5 DEF Effective, Opened, Closed, Acquires, Releases, Opens
  <2> QED BY <1>1, <2>2, <2>3, StackStep
<1>6. CASE doing[p][1] = "acquire" /\ doing[p][2] = "impl"
  <2>1. held'[p] = Append(s, r) /\ r.kind = "impl" /\ ~r.token
    BY <1>1, <1>2, <1>6
  <2>2. ~HasOpen(s)
    BY <1>6 DEF KInv, ImplOwn, Acquires, Opens
  <2>3. /\ HasOpen(held'[p]) <=> ~HasKind(s, "internal")
        /\ Single(held'[p]) /\ Covered(held'[p], OpensBelow(p))
    BY <1>2, <2>1, <2>2, PushOpens
  <2>4. Effective(p) <=> ~inInternal[p]
    BY <1>6, <2>2 DEF Effective, Opened, Closed, Acquires, Releases, Opens
  <2> QED BY <1>1, <1>3, <1>6, <2>3, <2>4, StackStep
<1>7. CASE doing[p][1] = "release" /\ doing[p][2] = "internal"
  <2>1. s # <<>> /\ held'[p] = Pop(s) /\ s[Len(s)].kind = "internal"
    BY <1>1, <1>7 DEF IInv, Own, Top
  <2>2. (HasOpen(held'[p]) <=> HasOpen(s)) /\ Single(held'[p]) /\ Covered(held'[p], OpensBelow(p))
    BY <1>2, <2>1, PopOpens
  <2>3. Effective(p) <=> HasOpen(s)
    BY <1>7 DEF Effective, Opened, Closed, Acquires, Releases, Opens
  <2> QED BY <1>1, <2>2, <2>3, StackStep
<1>8. CASE doing[p][1] = "release" /\ doing[p][2] = "impl"
  <2>1. s # <<>> /\ held'[p] = Pop(s) /\ s[Len(s)].kind = "impl" /\ ~s[Len(s)].token
    BY <1>1, <1>8 DEF IInv, Own, KInv, ImplOwn, Releases, Top
  <2>2. HasKind(Pop(s), "internal") <=> inInternal[p]
    BY <1>2, <1>3, <1>8, <2>1, PopFacts
  <2>3. /\ HasOpen(s) <=> HasOpen(held'[p]) \/ ~inInternal[p]
        /\ ~inInternal[p] => ~HasOpen(held'[p])
        /\ Single(held'[p]) /\ Covered(held'[p], OpensBelow(p))
    BY <1>2, <2>1, <2>2, PopOpens
  <2>4. pc[p] \in {"clear", "cpsie"}
    BY <1>8
  <2>5. Effective(p) <=> HasOpen(s) /\ inInternal[p]
    BY <1>8, <2>4 DEF Effective, Opened, Closed, Acquires, Releases, Opens
  <2> QED BY <1>1, <2>3, <2>5, StackStep
<1>9. doing[p][1] \in {"acquire", "release"}
  BY <1>1
<1> QED BY <1>4, <1>5, <1>6, <1>7, <1>8, <1>9

\* An interrupt that begins is enabled, so it is reserved if anything is open.
LEMMA KInterrupt ==
  ASSUME IInv, KInv, NEW h \in Irq, Interrupt(h) \/ ReturnFromInterrupt(h)
  PROVE  KInv'
<1> USE ConstantsAssumption DEF hw, regs, At
<1>1. UNCHANGED <<primask, enabled, implFlag, csMask, pc, doing, inInternal, held>>
  BY DEF Interrupt, ReturnFromInterrupt
<1>2. /\ \A q \in Ctx : ImplOwn(q)'
      /\ OneEffective' /\ ImplOwner' /\ NvicOwner'
  <2>1. \A q \in Ctx : Effective(q)' <=> Effective(q)
    BY <1>1 DEF Effective, Opened, Closed, Acquires, Releases, Opens
  <2>2. OneEffective' /\ ImplOwner' /\ NvicOwner'
    BY <1>1, <2>1 DEF KInv, OneEffective, ImplOwner, NvicOwner
  <2>3. ASSUME NEW q \in Ctx PROVE ImplOwn(q)'
    BY <1>1, StackSame DEF KInv, ImplOwn, Acquires, Releases
  <2> QED BY <2>2, <2>3
<1>3. CASE ReturnFromInterrupt(h)
  <2>1. ImplExcludesOthers'
    BY <1>1, <1>3 DEF ReturnFromInterrupt, KInv, ImplExcludesOthers, Holds
  <2> QED BY <1>2, <2>1 DEF KInv
<1>4. CASE Interrupt(h)
  <2>1. active' = active \cup {h} /\ ~primask /\ h \in enabled /\ active \subseteq Ctx
    BY <1>4 DEF Interrupt, IInv, TypeOK
  <2>2. \A q \in Ctx : ~Masking(q)
    BY <2>1 DEF IInv, MaskOwner
  <2>3. ASSUME h \notin Reserved, NEW a \in Ctx, Holds(a, "impl") PROVE FALSE
    <3>1. ~implFlag
      BY <2>1, <2>3 DEF KInv, NvicOwner
    <3>2. \A q \in Ctx : ~HasOpen(held[q])
      BY <2>2, <3>1 DEF KInv, ImplOwner, Effective, Closed, Opens, Masking
    <3>3. PICK i \in 1..Len(held[a]) : held[a][i].kind = "impl"
      BY <2>3 DEF Holds
    <3>4. i \in Nat /\ Len(held[a]) \in Nat /\ \A j \in 1..(i - 1) : j \in 1..Len(held[a])
      BY LenProperties DEF IInv, TypeOK
    <3>5. \A j \in 1..(i - 1) : held[a][j].kind # "internal" /\ ~OpensAt(held[a], j)
      BY <2>2, <3>2, <3>4 DEF Masking, Holds, HasOpen
    <3>6. held[a][i].token
      BY <3>2, <3>3, <3>5 DEF HasOpen, OpensAt
    <3>7. ~OpensBelow(a)
      BY <3>2 DEF OpensBelow, Opens
    <3> QED BY <3>3, <3>5, <3>6, <3>7 DEF KInv, ImplOwn, Covered
  <2>4. ImplExcludesOthers'
    <3> SUFFICES ASSUME NEW a \in active', NEW g \in active', a < g, g \notin Reserved
                 PROVE  ~Holds(a, "impl")'
      BY DEF ImplExcludesOthers
    <3>1. a \in Ctx /\ (Holds(a, "impl")' <=> Holds(a, "impl"))
      BY <1>1, <2>1 DEF Holds, Irq, Ctx
    <3>2. CASE g = h
      BY <2>3, <3>1, <3>2
    <3>3. CASE g # h
      <4>1. g \in active
        BY <2>1, <3>3
      <4>2. a \in active
        <5>1. a # h
          BY <1>4, <4>1 DEF Interrupt, Irq, Ctx, IInv, TypeOK
        <5> QED BY <2>1, <5>1
      <4> QED BY <3>1, <4>1, <4>2 DEF KInv, ImplExcludesOthers
    <3> QED BY <3>2, <3>3
  <2> QED BY <1>2, <2>4 DEF KInv
<1> QED BY <1>3, <1>4

\* Every step keeps the second invariant, given the first.
LEMMA KNext == IInv /\ KInv /\ [Next]_vars => KInv'
<1> SUFFICES ASSUME IInv, KInv, [Next]_vars PROVE KInv'
  OBVIOUS
<1> USE DEF hw, regs, At
<1>1. ASSUME NEW p \in Ctx, Step(p) PROVE KInv'
  <2>1. CASE AcquireInternal(p) \/ ReleaseInternal(p) \/ LoadInternalFlag(p)
    BY <2>1, KBegin
  <2>2. CASE AcquireImpl(p)
    <3>1. CASE implFlag
      BY <2>2, <3>1, KNested
    <3>2. CASE ~implFlag
      BY <2>2, <3>2, KBegin
    <3> QED BY <3>1, <3>2
  <2>3. CASE ReleaseImpl(p)
    <3>1. CASE Top(p).token
      BY <2>3, <3>1, KNested
    <3>2. CASE ~Top(p).token
      BY <2>3, <3>2, KBegin
    <3> QED BY <3>1, <3>2
  <2>4. CASE ReadPrimask(p) \/ DisableInterrupts(p)
    BY <2>4, KMask
  <2>5. CASE SetFlag(p)
    <3>1. CASE doing[p][2] = "internal"
      <4>1. /\ Running(p) /\ pc[p] = "set" /\ Finish(p, saved[p]) /\ saved[p] \in BOOLEAN
            /\ UNCHANGED <<active, enabled, implFlag, csMask, doing, inInternal>>
        BY <2>5, <3>1 DEF SetFlag, IInv, TypeOK
      <4> QED BY <3>1, <4>1, KFinish
    <3>2. CASE doing[p][2] # "internal"
      BY <2>5, <3>2, KMask
    <3> QED BY <3>1, <3>2
  <2>6. CASE ClearFlag(p)
    <3>1. CASE saved[p]
      BY <2>6, <3>1, KMask
    <3>2. CASE ~saved[p]
      <4>1. /\ Running(p) /\ pc[p] = "clear" /\ Finish(p, FALSE)
            /\ UNCHANGED <<active, enabled, implFlag, csMask, doing, inInternal>>
        BY <2>6, <3>2 DEF ClearFlag
      <4> QED BY <4>1, KFinish
    <3> QED BY <3>1, <3>2
  <2>7. CASE EnableInterrupts(p)
    <3>1. /\ Running(p) /\ pc[p] = "cpsie" /\ Finish(p, FALSE)
          /\ UNCHANGED <<active, enabled, implFlag, csMask, doing, inInternal>>
      BY <2>7 DEF EnableInterrupts
    <3> QED BY <3>1, KFinish
  <2>8. CASE Work(p)
    BY <2>8, KWork
  <2> QED BY <1>1, <2>1, <2>2, <2>3, <2>4, <2>5, <2>6, <2>7, <2>8 DEF Step
<1>2. CASE UNCHANGED vars
  <2>1. UNCHANGED <<enabled, implFlag, csMask, active, pc, doing, inInternal, held>>
    BY <1>2 DEF vars
  <2>2. \A q \in Ctx : Effective(q)' <=> Effective(q)
    BY <2>1 DEF Effective, Opened, Closed, Acquires, Releases, Opens
  <2>3. OneEffective' /\ ImplOwner' /\ NvicOwner' /\ ImplExcludesOthers'
    BY <2>1, <2>2 DEF KInv, OneEffective, ImplOwner, NvicOwner, ImplExcludesOthers, Holds
  <2>4. \A q \in Ctx : ImplOwn(q)'
    BY <2>1, StackSame DEF KInv, ImplOwn, Acquires, Releases
  <2> QED BY <2>3, <2>4 DEF KInv
<1> QED BY <1>1, <1>2, KInterrupt DEF Next

\* Both invariants always hold.
LEMMA KAlways == Spec => [](IInv /\ KInv)
BY IInit, INext, KInit, KNext, PTL DEF Spec

\* Inside a section of the critical-section crate only reserved interrupts run,
\* however the two kinds of sections nest, in threads and in handlers
\* (nrf5x.rs:129-165).
THEOREM ImplSafe == Spec => []ImplExcludesOthers
<1>1. KInv => ImplExcludesOthers
  BY DEF KInv
<1> QED BY <1>1, KAlways, PTL

\* When every section has been left, everything is as at the start: nothing is
\* masked, both flags are down, and every interrupt is enabled
\* (nrf5x.rs:78-88, 151-165).
THEOREM EverythingRestored == Spec => []Restored
<1>1. IInv /\ KInv => Restored
  <2> SUFFICES ASSUME IInv, KInv, \A p \in Ctx : held[p] = <<>> /\ pc[p] = "run"
               PROVE  ~primask /\ ~intFlag /\ ~implFlag /\ enabled = Irq
    BY DEF Restored
  <2>1. \A p \in Ctx : ~Masking(p) /\ ~Flagging(p) /\ ~Effective(p)
    BY DEF Masking, Flagging, Effective, Opened, Opens, HasOpen, Holds
  <2>2. ~primask /\ ~intFlag
    BY <2>1 DEF IInv, MaskOwner, FlagOwner
  <2>3. ~implFlag
    BY <2>1 DEF KInv, ImplOwner
  <2> QED BY <2>2, <2>3 DEF KInv, NvicOwner
<1> QED BY <1>1, KAlways, PTL
================================================================================

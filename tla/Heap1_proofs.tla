----------------------------- MODULE Heap1_proofs -----------------------------
(***************************************************************************)
(* Proofs about Heap1, for every arena, every alignment and every set of   *)
(* request sizes.                                                          *)
(***************************************************************************)
EXTENDS Heap1, TLAPS

Aligned(x) == \E k \in Nat : x = ALIGN * k

\* What alloc preserves: the front of the arena is granted, the rest is not.
BumpInv ==
    /\ TypeOK
    /\ Aligned(next_free)
    /\ next_free = 0 \/ next_free < ADJUSTED_SIZE
    /\ \A g \in granted :
        /\ \A h \in granted :
            g # h => g.at + g.wanted <= h.at \/ h.at + h.wanted <= g.at
        /\ Aligned(g.at)
        /\ g.wanted > 0
        /\ g.at + g.wanted <= next_free
        /\ next_free < ADJUSTED_SIZE

-----------------------------------------------------------------------------
(* Rounding.                                                               *)

LEMMA DivisionRule ==
    ASSUME NEW x \in Nat
    PROVE  /\ x \div ALIGN \in Nat /\ x % ALIGN \in Nat /\ x % ALIGN < ALIGN
           /\ x = ALIGN * (x \div ALIGN) + (x % ALIGN)
<1> DEFINE a == ALIGN
<1>1. a \in Nat \ {0}
    BY SizesAssumption
<1> HIDE DEF a
<1>2. x % a \in Nat /\ x % a < a
    BY <1>1
<1>3. x = a * (x \div a) + (x % a)
    BY <1>1
<1>4. x \div a \in Nat
    BY <1>1
<1>5. QED
    BY <1>2, <1>3, <1>4 DEF a

\* Multiples of the alignment are what the remainder says they are.
LEMMA AlignedRemainder ==
    ASSUME NEW x \in Nat, Aligned(x)
    PROVE  x % ALIGN = 0
<1>1. PICK k \in Nat : x = ALIGN * k
    BY DEF Aligned
<1>2. QED
    BY <1>1, DivisionRule, SizesAssumption

LEMMA AlignedSum ==
    ASSUME NEW x \in Nat, NEW y \in Nat, Aligned(x), Aligned(y)
    PROVE  Aligned(x + y)
<1>1. PICK j \in Nat, k \in Nat : x = ALIGN * j /\ y = ALIGN * k
    BY DEF Aligned
<1>2. x + y = ALIGN * (j + k)
    BY <1>1, SizesAssumption
<1>3. QED
    BY <1>2 DEF Aligned

\* A rounded request covers what was asked for and costs less than one
\* alignment more, unless the rounding overflowed.
LEMMA RoundedUp ==
    ASSUME NEW wanted \in 0..USIZE_MAX
    PROVE  /\ Rounded(wanted) \in Nat
           /\ Aligned(Rounded(wanted))
           /\ Rounded(wanted) # 0 => wanted > 0 /\ wanted <= Rounded(wanted)
           /\ wanted > 0 /\ wanted + ALIGN <= USIZE_MAX =>
                Rounded(wanted) # 0 /\ Rounded(wanted) < wanted + ALIGN
<1> DEFINE a == ALIGN
           r == wanted % a
           up == wanted + (a - r)
<1>1. a \in Nat \ {0} /\ wanted \in Nat /\ USIZE_MAX \in Nat /\ wanted <= USIZE_MAX
    BY SizesAssumption
<1>2. r \in Nat /\ r < a /\ wanted = a * (wanted \div a) + r /\ wanted \div a \in Nat
    BY <1>1, DivisionRule
<1>3. up = a * (wanted \div a + 1)
    <2>1. a * (wanted \div a + 1) = a * (wanted \div a) + a
        BY <1>1, <1>2
    <2>2. a * (wanted \div a) \in Int
        BY <1>1, <1>2
    <2>3. QED
        BY <1>1, <1>2, <2>1, <2>2
<1>4. Rounded(wanted) = IF r = 0 THEN wanted ELSE IF up <= USIZE_MAX THEN up ELSE 0
    BY DEF Rounded
<1>5. up \in Nat /\ up > wanted /\ up <= wanted + a
    BY <1>1, <1>2
<1> HIDE DEF a, r, up
<1>6. Aligned(0) /\ Aligned(up) /\ (r = 0 => Aligned(wanted))
    <2>1. 0 = a * 0 /\ 0 \in Nat
        BY <1>1
    <2>2. wanted \div a + 1 \in Nat
        BY <1>2
    <2>3. r = 0 => wanted = a * (wanted \div a)
        BY <1>1, <1>2
    <2>4. QED
        BY <1>2, <1>3, <2>1, <2>2, <2>3 DEF Aligned, a
<1>7. r # 0 => up < wanted + a
    BY <1>1, <1>2 DEF up
<1>8. QED
    BY <1>1, <1>2, <1>4, <1>5, <1>6, <1>7 DEF a

-----------------------------------------------------------------------------
(* The invariant.                                                          *)

LEMMA InitInv == Init => BumpInv
<1> SUFFICES ASSUME Init PROVE BumpInv
    OBVIOUS
<1>1. Aligned(next_free)
    <2>1. 0 = ALIGN * 0
        BY SizesAssumption
    <2>2. QED
        BY <2>1 DEF Init, Aligned
<1>2. TypeOK
    BY SizesAssumption DEF Init, TypeOK
<1>3. QED
    BY <1>1, <1>2 DEF Init, BumpInv

LEMMA AllocInv ==
    ASSUME BumpInv, NEW wanted \in Wanted, Alloc(wanted)
    PROVE  BumpInv'
<1> DEFINE r == Rounded(wanted)
           grant == [at |-> next_free, wanted |-> wanted]
<1>1. /\ wanted \in Nat /\ r \in Nat \ {0} /\ wanted > 0 /\ wanted <= r /\ Aligned(r)
    BY RoundedUp, SizesAssumption DEF Alloc, Fits
<1>2. /\ next_free \in Nat /\ next_free' = next_free + r
      /\ next_free' < ADJUSTED_SIZE /\ ADJUSTED_SIZE \in Nat /\ ADJUSTED_SIZE <= N /\ N \in Nat
      /\ granted' = granted \cup {grant}
      /\ allocations \in Nat /\ allocations' \in Nat
    BY <1>1, SizesAssumption DEF Alloc, Fits, ADJUSTED_SIZE, BumpInv, TypeOK
<1> HIDE DEF r
<1>3. Aligned(next_free')
    BY <1>1, <1>2, AlignedSum DEF BumpInv
<1>4. TypeOK'
    <2>1. next_free' \in 0..N
        BY <1>1, <1>2
    <2>2. grant \in [at : Nat, wanted : Nat]
        BY <1>1, <1>2
    <2>3. QED
        BY <1>2, <2>1, <2>2 DEF BumpInv, TypeOK
<1>5. grant.at = next_free /\ grant.wanted = wanted
    OBVIOUS
<1> HIDE DEF grant
<1>6. ASSUME NEW g \in granted
      PROVE  /\ g.at \in Nat /\ g.wanted \in Nat
             /\ g.at + g.wanted <= next_free
             /\ g.at + g.wanted <= grant.at
    BY <1>5 DEF BumpInv, TypeOK
<1>7. ASSUME NEW g \in granted'
      PROVE  /\ \A h \in granted' :
                    g # h => g.at + g.wanted <= h.at \/ h.at + h.wanted <= g.at
             /\ Aligned(g.at)
             /\ g.wanted > 0
             /\ g.at + g.wanted <= next_free'
    <2>1. CASE g \in granted
        <3>1. \A h \in granted :
                g # h => g.at + g.wanted <= h.at \/ h.at + h.wanted <= g.at
            BY <2>1 DEF BumpInv
        <3>2. g.at + g.wanted <= next_free'
            BY <1>1, <1>2, <1>6, <2>1
        <3>3. QED
            BY <1>2, <1>6, <2>1, <3>1, <3>2 DEF BumpInv
    <2>2. CASE g = grant
        <3>1. \A h \in granted : h.at + h.wanted <= g.at
            BY <1>6, <2>2
        <3>2. g.at + g.wanted <= next_free'
            BY <1>1, <1>2, <1>5, <2>2
        <3>3. QED
            BY <1>1, <1>2, <1>5, <2>2, <3>1, <3>2 DEF BumpInv
    <2>3. QED
        BY <1>2, <1>7, <2>1, <2>2
<1>8. ADJUSTED_SIZE' = ADJUSTED_SIZE /\ \A x : Aligned(x)' <=> Aligned(x)
    BY DEF ADJUSTED_SIZE, Aligned
<1>9. QED
    BY <1>2, <1>3, <1>4, <1>7, <1>8 DEF BumpInv

LEMMA NextInv == BumpInv /\ [Next]_vars => BumpInv'
<1> SUFFICES ASSUME BumpInv, [Next]_vars PROVE BumpInv'
    OBVIOUS
<1>1. ASSUME NEW wanted \in Wanted, Alloc(wanted) PROVE BumpInv'
    BY <1>1, AllocInv
<1>2. CASE UNCHANGED vars
    BY <1>2 DEF vars, BumpInv, TypeOK, Aligned, ADJUSTED_SIZE
<1>3. QED
    BY <1>1, <1>2 DEF Next, AllocNone, FreeUnsupported

LEMMA AlwaysInv == Spec => []BumpInv
BY InitInv, NextInv, PTL DEF Spec

-----------------------------------------------------------------------------
(* What the callers of heap1.rs rely on.                                   *)

\* xNextFreeByte stays in the arena and the grants are ranges of bytes.
THEOREM BumpTypes == Spec => []TypeOK
<1>1. BumpInv => TypeOK
    BY DEF BumpInv
<1>2. QED
    BY AlwaysInv, <1>1, PTL

\* What a caller asked for is its own, aligned, inside the arena and within
\* reach of bytes_mut and address_of, in every arena.
THEOREM GrantsAreOnesOwn == Spec => []GrantsAreOwn
<1>1. BumpInv => GrantsAreOwn
    <2> SUFFICES ASSUME BumpInv, NEW g \in granted
                 PROVE  /\ \A h \in granted :
                            g # h => g.at + g.wanted <= h.at \/ h.at + h.wanted <= g.at
                        /\ g.at % ALIGN = 0
                        /\ g.wanted > 0
                        /\ g.at + g.wanted <= next_free
                        /\ next_free < ADJUSTED_SIZE
                        /\ bytes_mut(g.at, g.wanted) = "Ok" /\ address_of(g.at) = "Some"
        BY DEF GrantsAreOwn
    <2>1. /\ \A h \in granted :
                g # h => g.at + g.wanted <= h.at \/ h.at + h.wanted <= g.at
          /\ Aligned(g.at) /\ g.wanted > 0 /\ g.at + g.wanted <= next_free
          /\ next_free < ADJUSTED_SIZE
          /\ g.at \in Nat /\ g.wanted \in Nat /\ next_free \in 0..N
        BY DEF BumpInv, TypeOK
    <2>2. g.at % ALIGN = 0
        BY <2>1, AlignedRemainder
    <2>3. g.at + g.wanted <= N /\ g.at < N /\ g.at + g.wanted <= USIZE_MAX
        BY <2>1, SizesAssumption
    <2>4. bytes_mut(g.at, g.wanted) = "Ok" /\ address_of(g.at) = "Some"
        BY <2>3 DEF bytes_mut, address_of
    <2>5. QED
        BY <2>1, <2>2, <2>4
<1>2. QED
    BY AlwaysInv, <1>1, PTL

\* The bytes reported free can be had: a request an alignment below the report
\* is served, and what is granted and what is reported make up the arena.
THEOREM ReportIsHonestAlways == Spec => []ReportIsHonest
<1>1. BumpInv => ReportIsHonest
    <2> SUFFICES ASSUME BumpInv PROVE ReportIsHonest
        OBVIOUS
    <2>1. /\ next_free \in Nat /\ ADJUSTED_SIZE \in Nat /\ ADJUSTED_SIZE <= N
          /\ N \in Nat /\ N <= USIZE_MAX /\ USIZE_MAX \in Nat /\ ALIGN \in Nat \ {0}
          /\ next_free = 0 \/ next_free < ADJUSTED_SIZE
        BY SizesAssumption DEF BumpInv, TypeOK, ADJUSTED_SIZE
    <2>2. next_free + free_bytes = ADJUSTED_SIZE /\ free_bytes \in Nat
        BY <2>1 DEF free_bytes
    <2>3. ASSUME NEW wanted \in Wanted \ {0}, wanted + ALIGN <= free_bytes
          PROVE  Fits(wanted)
        <3>1. wanted \in 0..USIZE_MAX /\ wanted > 0
            BY SizesAssumption
        <3>2. wanted + ALIGN <= USIZE_MAX
            BY <2>1, <2>2, <2>3, <3>1
        <3>3. Rounded(wanted) \in Nat \ {0} /\ Rounded(wanted) < wanted + ALIGN
            BY <3>1, <3>2, RoundedUp
        <3>4. next_free + Rounded(wanted) < ADJUSTED_SIZE
            BY <2>1, <2>2, <2>3, <3>1, <3>3
        <3>5. QED
            BY <2>1, <3>3, <3>4 DEF Fits
    <2>4. QED
        BY <2>2, <2>3 DEF ReportIsHonest
<1>2. QED
    BY AlwaysInv, <1>1, PTL
=============================================================================

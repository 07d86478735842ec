----------------------- MODULE PaperPolicyRun_proofs -----------------------
(***************************************************************************)
(* Proofs about the paper runner lease and the runs under it, for any      *)
(* number of accounts, processes, results and closes, any lease time and   *)
(* any end of the fence, with the clock free to be set back.               *)
(***************************************************************************)
EXTENDS PaperPolicyRun, TLAPS, FiniteSetTheorems, WellFoundedInduction

-----------------------------------------------------------------------------
(* The registry: what is appended to a history that replays leaves one that  *)
(* replays.  The function that replays a history exists and is unique: the   *)
(* least position where it would not be cannot be.                           *)

\* A set of numbers that is not empty has a least one.
LEMMA LeastNumber ==
  ASSUME NEW M, M \subseteq Nat, M # {}
  PROVE  \E i \in M : \A j \in M : i <= j
<1> DEFINE Less == {pair \in Nat \X Nat : pair[1] < pair[2]}
<1>1. IsWellFoundedOn(Less, Nat)
  BY NatLessThanWellFounded, Zenon DEF OpToRel
<1>2. \A i, j \in Nat : j < i => <<j, i>> \in Less
  OBVIOUS
<1> HIDE DEF Less
<1>3. PICK i \in M : \A j \in M : <<j, i>> \notin Less
  BY <1>1, WFMin
<1>4. ASSUME NEW j \in M PROVE i <= j
  <2>1. i \in Nat /\ j \in Nat /\ <<j, i>> \notin Less
    BY <1>3
  <2>2. ~(j < i)
    BY <1>2, <2>1
  <2>3. QED
    BY <2>1, <2>2
<1>5. QED
  BY <1>4

\* A set of numbers below a bound has a largest one.
LEMMA LargestNumber ==
  ASSUME NEW n \in Nat, NEW M, M \subseteq 0..n, M # {}
  PROVE  \E i \in M : \A j \in M : j <= i
<1> DEFINE Gaps == {g \in Nat : n - g \in M}
<1>1. Gaps # {} /\ Gaps \subseteq Nat
  <2>1. PICK j \in M : TRUE
    OBVIOUS
  <2>2. j \in 0..n /\ n - j \in Nat /\ n - (n - j) = j
    BY <2>1
  <2>3. QED
    BY <2>1, <2>2
<1>2. PICK g \in Gaps : \A h \in Gaps : g <= h
  <2> HIDE DEF Gaps
  <2>1. QED
    BY <1>1, LeastNumber
<1>3. ASSUME NEW j \in M PROVE j <= n - g
  <2>1. j \in 0..n /\ n - j \in Nat /\ n - (n - j) = j
    BY <1>3
  <2>2. n - j \in Gaps
    BY <1>3, <2>1
  <2>3. QED
    BY <1>2, <2>1, <2>2
<1>4. QED
  BY <1>2, <1>3

\* `stacks' are the stacks that the first n events of h lead through.
IsStacks(h, n, stacks) ==
    /\ stacks \in [0..n -> Seq(Result \cup {NoStrategy})]
    /\ stacks[0] = <<>>
    /\ \A k \in 1..n :
          stacks[k] = Applied(stacks[k - 1], h[k])

LEMMA StackTypes ==
  ASSUME NEW h, NEW n, NEW stacks, IsStacks(h, n, stacks)
  PROVE  \A k \in 0..n : stacks[k] \in Seq(Result \cup {NoStrategy})
  BY Zenon DEF IsStacks

LEMMA AppliedType ==
  ASSUME NEW stack \in Seq(Result \cup {NoStrategy}), NEW e \in SelectionEvent
  PROVE  Applied(stack, e) \in Seq(Result \cup {NoStrategy})
<1>1. e.result \in Result \cup {NoStrategy}
  BY DEF SelectionEvent
<1>2. Front(stack) \in Seq(Result \cup {NoStrategy})
  BY DEF Front
<1>3. QED
  BY <1>1, <1>2 DEF Applied

\* There are such stacks for every history.
LEMMA StacksExist ==
  ASSUME NEW h \in Seq(SelectionEvent)
  PROVE  \E stacks : IsStacks(h, Len(h), stacks)
<1> DEFINE T == Result \cup {NoStrategy}
           Without == {n \in 0..Len(h) : ~\E stacks : IsStacks(h, n, stacks)}
<1>1. SUFFICES ASSUME Without # {} PROVE FALSE
  <2>1. Len(h) \in 0..Len(h)
    OBVIOUS
  <2>2. QED
    BY <1>1, <2>1
<1>2. Without \subseteq Nat
  OBVIOUS
<1>3. PICK n \in Without : \A m \in Without : n <= m
  <2> HIDE DEF Without
  <2>1. QED
    BY <1>1, <1>2, LeastNumber
<1>4. n # 0
  <2> SUFFICES ASSUME n = 0 PROVE FALSE
    OBVIOUS
  <2>1. [k \in 0..0 |-> <<>>] \in [0..0 -> Seq(T)]
    OBVIOUS
  <2>2. IsStacks(h, 0, [k \in 0..0 |-> <<>>])
    BY <2>1 DEF IsStacks
  <2>3. QED
    BY <1>3, <2>2
<1>5. n \in 1..Len(h) /\ n - 1 \in 0..Len(h) /\ n - 1 \notin Without
  BY <1>3, <1>4
<1>6. PICK stacks : IsStacks(h, n - 1, stacks)
  BY <1>5
<1> DEFINE next == Applied(stacks[n - 1], h[n])
           longer == [k \in 0..n |-> IF k < n THEN stacks[k] ELSE next]
<1>7. next \in Seq(T)
  <2>1. n - 1 \in 0..(n - 1) /\ h[n] \in SelectionEvent
    BY <1>5
  <2>2. stacks[n - 1] \in Seq(T)
    BY <1>6, <2>1, StackTypes
  <2>3. QED
    BY <2>1, <2>2, AppliedType
<1>8. IsStacks(h, n, longer)
  <2> HIDE DEF next
  <2>1. longer \in [0..n -> Seq(T)] /\ longer[0] = <<>>
    BY <1>5, <1>6, <1>7 DEF IsStacks
  <2>2. \A k \in 0..(n - 1) : longer[k] = stacks[k]
    BY <1>5
  <2>3. longer[n] = next
    BY <1>5
  <2> HIDE DEF longer
  <2>4. ASSUME NEW k \in 1..n
        PROVE  longer[k] = Applied(longer[k - 1], h[k])
    <3>1. CASE k = n
      <4>1. longer[k - 1] = stacks[n - 1]
        BY <1>5, <2>2, <3>1
      <4>2. QED
        BY <2>3, <3>1, <4>1 DEF next
    <3>2. CASE k # n
      <4>1. k \in 1..(n - 1) /\ k - 1 \in 0..(n - 1) /\ k \in 0..(n - 1)
        BY <1>5, <2>4, <3>2
      <4>2. longer[k] = stacks[k] /\ longer[k - 1] = stacks[k - 1]
        BY <2>2, <4>1
      <4>3. QED
        BY <1>6, <4>1, <4>2 DEF IsStacks
    <3>3. QED
      BY <3>1, <3>2
  <2>5. QED
    BY <2>1, <2>4 DEF IsStacks
<1>9. QED
  BY <1>3, <1>8

\* The replay of h is the end of its stacks.
LEMMA StackIs ==
  ASSUME NEW h \in Seq(SelectionEvent), NEW stacks, IsStacks(h, Len(h), stacks)
  PROVE  StackOf(h) = stacks[Len(h)]
<1> DEFINE f == CHOOSE stack : stack = [n \in 0..Len(h) |->
                  IF n = 0 THEN <<>> ELSE Applied(stack[n - 1], h[n])]
<1>1. stacks = [n \in 0..Len(h) |->
                  IF n = 0 THEN <<>> ELSE Applied(stacks[n - 1], h[n])]
  BY DEF IsStacks
<1>2. f = [n \in 0..Len(h) |->
             IF n = 0 THEN <<>> ELSE Applied(f[n - 1], h[n])]
  BY <1>1
<1>3. StackOf(h) = f[Len(h)]
  BY DEF StackOf
<1> HIDE DEF f
<1> DEFINE Differ == {k \in 0..Len(h) : f[k] # stacks[k]}
<1>4. SUFFICES ASSUME Differ # {} PROVE FALSE
  BY <1>3
<1>5. PICK k \in Differ : \A j \in Differ : k <= j
  <2>1. Differ \subseteq Nat
    OBVIOUS
  <2> HIDE DEF Differ
  <2>2. QED
    BY <1>4, <2>1, LeastNumber
<1>6. k # 0
  BY <1>1, <1>2, <1>5
<1>7. k \in 1..Len(h) /\ k - 1 \in 0..Len(h) /\ k - 1 \notin Differ
  BY <1>5, <1>6
<1>8. f[k - 1] = stacks[k - 1]
  BY <1>7
<1>9. f[k] = stacks[k]
  <2>1. f[k] = Applied(f[k - 1], h[k])
    BY <1>2, <1>7
  <2>2. stacks[k] = Applied(stacks[k - 1], h[k])
    BY <1>7 DEF IsStacks
  <2>3. QED
    BY <1>8, <2>1, <2>2
<1>10. QED
  BY <1>5, <1>9

\* One more event is one step of the stack.
LEMMA StackGrows ==
  ASSUME NEW h \in Seq(SelectionEvent), NEW e \in SelectionEvent
  PROVE  /\ StackOf(h) \in Seq(Result \cup {NoStrategy})
         /\ StackOf(Append(h, e)) = Applied(StackOf(h), e)
<1> DEFINE n == Len(h)
           g == Append(h, e)
<1>1. n \in Nat /\ g \in Seq(SelectionEvent) /\ Len(g) = n + 1 /\ g[n + 1] = e
      /\ \A k \in 1..n : g[k] = h[k]
  OBVIOUS
<1> HIDE DEF g
<1>2. PICK stacks : IsStacks(g, n + 1, stacks)
  BY <1>1, StacksExist
<1> DEFINE short == [k \in 0..n |-> stacks[k]]
<1>3. \A k \in 0..n : short[k] = stacks[k]
  OBVIOUS
<1>4. IsStacks(h, n, short)
  <2>1. short \in [0..n -> Seq(Result \cup {NoStrategy})] /\ short[0] = <<>>
    BY <1>1, <1>2 DEF IsStacks
  <2> HIDE DEF short
  <2>2. ASSUME NEW k \in 1..n
        PROVE  short[k] = Applied(short[k - 1], h[k])
    <3>1. k \in 1..(n + 1) /\ k \in 0..n /\ k - 1 \in 0..n
      BY <1>1
    <3>2. short[k] = stacks[k] /\ short[k - 1] = stacks[k - 1] /\ g[k] = h[k]
      BY <1>1, <1>3, <3>1
    <3>3. stacks[k] = Applied(stacks[k - 1], g[k])
      BY <1>2, <3>1 DEF IsStacks
    <3>4. QED
      BY <3>2, <3>3
  <2>3. QED
    BY <2>1, <2>2 DEF IsStacks
<1>5. StackOf(h) = stacks[n] /\ stacks[n] \in Seq(Result \cup {NoStrategy})
  <2>1. StackOf(h) = short[n] /\ n \in 0..n
    BY <1>1, <1>4, StackIs
  <2>2. n \in 0..(n + 1)
    BY <1>1
  <2>3. stacks[n] \in Seq(Result \cup {NoStrategy})
    BY <1>2, <2>2, StackTypes
  <2>4. QED
    BY <1>3, <2>1, <2>3
<1>6. StackOf(g) = stacks[n + 1]
  BY <1>1, <1>2, StackIs
<1>7. stacks[n + 1] = Applied(stacks[n], e)
  <2>1. n + 1 \in 1..(n + 1) /\ (n + 1) - 1 = n
    BY <1>1
  <2>2. QED
    BY <1>1, <1>2, <2>1 DEF IsStacks
<1>8. QED
  BY <1>5, <1>6, <1>7 DEF g

\* Inductive: the history passes its replay, and the strategy it names is the
\* top of the stack.
RegistryInv ==
    /\ selections \in Seq(SelectionEvent)
    /\ RegistryReplays
    /\ Selected = Top(StackOf(selections))

LEMMA EmptyStack == StackOf(<<>>) = <<>>
<1> DEFINE none == [k \in 0..0 |-> <<>>]
<1>1. <<>> \in Seq(SelectionEvent) /\ Len(<<>>) = 0
  OBVIOUS
<1>2. none \in [0..0 -> Seq(Result \cup {NoStrategy})] /\ none[0] = <<>>
  OBVIOUS
<1> HIDE DEF none
<1>3. IsStacks(<<>>, 0, none)
  BY <1>2 DEF IsStacks
<1>4. QED
  BY <1>1, <1>2, <1>3, StackIs

LEMMA InitRegistry == selections = <<>> => RegistryInv
<1> SUFFICES ASSUME selections = <<>> PROVE RegistryInv
  OBVIOUS
<1>1. <<>> \in Seq(SelectionEvent) /\ Len(<<>>) = 0 /\ DOMAIN <<>> = {}
  OBVIOUS
<1>2. QED
  BY <1>1, EmptyStack DEF RegistryInv, RegistryReplays, Selected, Top

\* The events that the registry appends: one that selects a strategy, and one
\* that goes back.
Appends(e) ==
    /\ e \in SelectionEvent
    /\ selections' = Append(selections, e)
    /\ \/ /\ e.reason \in SelectReason
          /\ e.result \in evidence \cap PaperCandidate
          /\ e.result # Selected
       \/ /\ e.reason \in RollbackReason
          /\ StackOf(selections) # <<>>
          /\ e.result = Top(Front(StackOf(selections)))

LEMMA SelectAppends ==
  ASSUME RegistryInv, NEW r \in Result, NEW t \in Nat, NEW x, SelectPaperCandidate(r, x, t)
  PROVE  \E e : Appends(e) /\ e.reason = "manual_selection"
<1> DEFINE e == [result |-> r, reason |-> "manual_selection", at |-> t]
<1>1. selections' = Append(selections, e) /\ r \in evidence \cap PaperCandidate /\ Selected # r
  BY DEF SelectPaperCandidate
<1>2. e \in SelectionEvent /\ e.reason = "manual_selection" /\ e.result = r
  BY DEF SelectionEvent, SelectReason
<1> HIDE DEF e
<1>3. QED
  BY <1>1, <1>2 DEF Appends, SelectReason

LEMMA RollbackAppends ==
  ASSUME RegistryInv, NEW reason \in RollbackReason, NEW t \in Nat, NEW x,
         RollbackPaperCandidate(x, reason, t)
  PROVE  \E e : Appends(e) /\ e.reason = reason
<1> DEFINE back == Top(Front(StackOf(selections)))
           e == [result |-> back, reason |-> reason, at |-> t]
<1>1. selections' = Append(selections, e) /\ StackOf(selections) # <<>>
  BY DEF RollbackPaperCandidate
<1>2. back \in Result \cup {NoStrategy}
  <2>1. PICK any \in SelectionEvent : TRUE
    <3>1. [result |-> NoStrategy, reason |-> reason, at |-> t] \in SelectionEvent
      BY DEF SelectionEvent
    <3>2. QED
      BY <3>1
  <2> DEFINE under == Front(StackOf(selections))
  <2>2. StackOf(selections) \in Seq(Result \cup {NoStrategy})
    BY <2>1, StackGrows DEF RegistryInv
  <2>3. under \in Seq(Result \cup {NoStrategy})
    BY <2>2 DEF Front
  <2> HIDE DEF under
  <2>4. Top(under) \in Result \cup {NoStrategy}
    BY <2>3 DEF Top, Last
  <2>5. QED
    BY <2>4 DEF under
<1> HIDE DEF back
<1>3. e \in SelectionEvent /\ e.reason = reason /\ e.result = back
  BY <1>2 DEF SelectionEvent
<1> HIDE DEF e
<1>4. QED
  BY <1>1, <1>3 DEF Appends, back

LEMMA AppendKeepsRegistry ==
  ASSUME RegistryInv, NEW e, Appends(e), UNCHANGED evidence
  PROVE  RegistryInv'
<1> DEFINE h == selections
           g == Append(selections, e)
           n == Len(selections)
<1>1. /\ h \in Seq(SelectionEvent) /\ e \in SelectionEvent /\ n \in Nat
      /\ selections' = g
  BY DEF RegistryInv, Appends
<1>2. /\ g \in Seq(SelectionEvent) /\ Len(g) = n + 1 /\ DOMAIN g = 1..(n + 1)
      /\ g[n + 1] = e /\ g # <<>> /\ DOMAIN h = 1..n
      /\ \A i \in 1..n : g[i] = h[i]
  BY <1>1
<1>3. Selected' = e.result
  BY <1>1, <1>2 DEF Selected, Last
<1>4. /\ StackOf(h) \in Seq(Result \cup {NoStrategy})
      /\ StackOf(g) = Applied(StackOf(h), e)
  BY <1>1, StackGrows
<1>5. Top(Applied(StackOf(h), e)) = e.result
  <2> DEFINE stack == StackOf(h)
  <2> HIDE DEF stack
  <2>1. CASE e.reason \in SelectReason
    <3>1. stack \in Seq(Result \cup {NoStrategy}) /\ Applied(stack, e) = Append(stack, e.result)
      BY <1>4, <2>1 DEF stack, Applied
    <3>2. e.result \in Result \cup {NoStrategy}
      BY <1>1 DEF SelectionEvent
    <3>3. QED
      BY <3>1, <3>2 DEF Top, Last, stack
  <2>2. CASE ~(e.reason \in SelectReason)
    BY <2>2 DEF Applied, Appends
  <2>3. QED
    BY <2>1, <2>2
<1>6. \A i \in 1..n : SubSeq(g, 1, i - 1) = SubSeq(h, 1, i - 1)
  BY <1>1, <1>2
<1>7. SubSeq(g, 1, (n + 1) - 1) = h
  BY <1>1, <1>2
<1> HIDE DEF g
<1>8. RegistryReplays'
  <2> SUFFICES ASSUME NEW i \in 1..(n + 1)
               PROVE  IF g[i].reason \in SelectReason
                      THEN /\ g[i].result \in evidence \cap PaperCandidate
                           /\ g[i].result # Top(StackOf(SubSeq(g, 1, i - 1)))
                      ELSE /\ StackOf(SubSeq(g, 1, i - 1)) # <<>>
                           /\ g[i].result = Top(Front(StackOf(SubSeq(g, 1, i - 1))))
    BY <1>1, <1>2 DEF RegistryReplays
  <2>1. CASE i \in 1..n
    <3>1. g[i] = h[i] /\ SubSeq(g, 1, i - 1) = SubSeq(h, 1, i - 1)
      BY <1>2, <1>6, <2>1
    <3>2. i \in DOMAIN h
      BY <1>2, <2>1
    <3>3. QED
      BY <3>1, <3>2 DEF RegistryInv, RegistryReplays
  <2>2. CASE i = n + 1
    <3>1. g[i] = e /\ SubSeq(g, 1, i - 1) = h
      BY <1>2, <1>7, <2>2
    <3>2. Selected = Top(StackOf(h))
      BY DEF RegistryInv
    <3>3. ~(e.reason \in SelectReason /\ e.reason \in RollbackReason)
      BY DEF SelectReason, RollbackReason
    <3> HIDE DEF h, n
    <3>4. QED
      BY <3>1, <3>2, <3>3 DEF Appends, h
  <2>3. QED
    BY <1>1, <2>1, <2>2
<1>9. QED
  BY <1>1, <1>2, <1>3, <1>4, <1>5, <1>8 DEF RegistryInv

\* After the first k events the strategy on top is the one that event k gave.
LEMMA PrefixTop ==
  ASSUME RegistryInv, NEW k \in 1..Len(selections)
  PROVE  /\ SubSeq(selections, 1, k - 1) \in Seq(SelectionEvent)
         /\ SubSeq(selections, 1, k) = Append(SubSeq(selections, 1, k - 1), selections[k])
         /\ Top(StackOf(SubSeq(selections, 1, k))) = selections[k].result
<1> DEFINE h == SubSeq(selections, 1, k - 1)
           e == selections[k]
           stack == StackOf(h)
<1>1. /\ selections \in Seq(SelectionEvent) /\ k \in DOMAIN selections
      /\ h \in Seq(SelectionEvent) /\ e \in SelectionEvent
  BY DEF RegistryInv
<1>2. SubSeq(selections, 1, k) = Append(h, e)
  BY <1>1
<1>3. /\ IF e.reason \in SelectReason THEN TRUE ELSE e.result = Top(Front(stack))
  BY <1>1 DEF RegistryInv, RegistryReplays
<1>4. e.result \in Result \cup {NoStrategy}
  BY <1>1 DEF SelectionEvent
<1> HIDE DEF h, e
<1>5. /\ stack \in Seq(Result \cup {NoStrategy})
      /\ StackOf(Append(h, e)) = Applied(stack, e)
  BY <1>1, StackGrows
<1> HIDE DEF stack
<1>6. Top(Applied(stack, e)) = e.result
  <2>1. CASE e.reason \in SelectReason
    <3>1. Applied(stack, e) = Append(stack, e.result)
      BY <2>1 DEF Applied
    <3>2. QED
      BY <1>4, <1>5, <3>1 DEF Top, Last
  <2>2. CASE ~(e.reason \in SelectReason)
    BY <1>3, <2>2 DEF Applied
  <2>3. QED
    BY <2>1, <2>2
<1>7. QED
  BY <1>1, <1>2, <1>5, <1>6 DEF h, e

\* A rollback of a SELECT goes back to the strategy that was in use before it.
LEMMA RollbackPops ==
  ASSUME RegistryInv, selections # <<>>, IsSelect(CurrentEvent),
         NEW e, Appends(e), e.reason \in RollbackReason
  PROVE  e.result = PreviousResult(CurrentEvent)
<1> DEFINE n == Len(selections)
           h == SubSeq(selections, 1, n - 1)
           top == selections[n]
<1>1. selections \in Seq(SelectionEvent) /\ n \in Nat \ {0} /\ n \in 1..n
  BY DEF RegistryInv
<1>2. top \in SelectionEvent /\ top.result \in Result \cup {NoStrategy}
  <2>1. top \in SelectionEvent
    BY <1>1
  <2> HIDE DEF top
  <2>2. QED
    BY <2>1 DEF SelectionEvent
<1>3. h \in Seq(SelectionEvent) /\ selections = Append(h, top)
  <2>1. SubSeq(selections, 1, n) = selections
    BY <1>1
  <2>2. QED
    BY <1>1, <2>1, PrefixTop
<1>4. /\ StackOf(h) \in Seq(Result \cup {NoStrategy})
      /\ StackOf(selections) = Applied(StackOf(h), top)
  <2> HIDE DEF h, top
  <2>1. QED
    BY <1>2, <1>3, StackGrows
<1>5. StackOf(selections) = Append(StackOf(h), top.result)
  BY <1>4 DEF IsSelect, CurrentEvent, Applied
<1>6. e.result = Top(Front(StackOf(selections)))
  BY DEF Appends, SelectReason, RollbackReason
<1>7. Top(StackOf(h)) = PreviousResult(n)
  <2>1. CASE n = 1
    <3>1. h = <<>>
      BY <1>1, <2>1
    <3>2. QED
      BY <2>1, <3>1, EmptyStack DEF PreviousResult, Top
  <2>2. CASE n # 1
    <3>1. n - 1 \in 1..n
      <4> HIDE DEF n
      <4>1. QED
        BY <1>1, <2>2
    <3>2. Top(StackOf(h)) = selections[n - 1].result
      BY <3>1, PrefixTop
    <3>3. QED
      BY <2>2, <3>2 DEF PreviousResult
  <2>3. QED
    BY <2>1, <2>2
<1> DEFINE stack == StackOf(h)
<1> HIDE DEF h, top, stack
<1>8. Front(Append(stack, top.result)) = stack
  BY <1>2, <1>4 DEF Front, stack
<1>9. QED
  BY <1>5, <1>6, <1>7, <1>8 DEF CurrentEvent, stack

-----------------------------------------------------------------------------
(* The lease.                                                                *)

\* Inductive: a row names an owner exactly when it has a time, which is TTL
\* long, and a claim is its owner's and never newer than the row.
LeaseInv ==
    /\ lease \in Row
    /\ now \in Nat \ {0}
    /\ \E S : selections \in Seq(S)
    /\ DOMAIN claim = Process
    /\ IF lease.owner = NoOwner THEN lease = Released(lease.token)
       ELSE lease.beat > 0 /\ lease.expires = lease.beat + TTL
    /\ \A p \in Process : claim[p] # NoClaim =>
          /\ claim[p] \in Row
          /\ claim[p].owner = p
          /\ claim[p].token <= lease.token

\* The writes to the row, each with what it does to the claims.
Taken(p) ==
    /\ MayTake
    /\ \E a \in Account : lease' = Granted(p, a)
    /\ claim' = [claim EXCEPT ![p] = lease'] /\ now' = now

Kept(p) ==
    /\ ValidClaim(p)
    /\ lease' = Renewed
    /\ claim' = [claim EXCEPT ![p] = lease'] /\ now' = now

GivenUp(p) ==
    /\ claim[p] # NoClaim /\ claim[p] = lease
    /\ lease' = Released(lease.token)
    /\ claim' = [claim EXCEPT ![p] = NoClaim] /\ now' = now

Untouched ==
    /\ lease' = lease
    /\ \/ claim' = claim
       \/ \E p \in Process : claim' = [claim EXCEPT ![p] = NoClaim]
       \/ \E p \in Process : lease.owner = p /\ claim' = [claim EXCEPT ![p] = lease]
    /\ now' \in Nat \ {0}

LeaseStep == (\E p \in Process : Taken(p) \/ Kept(p) \/ GivenUp(p)) \/ Untouched

\* Every step of the lease alone is one of these.
LEMMA StepKinds ==
  ASSUME LeaseInv, [LeaseNext]_vars
  PROVE  LeaseStep
<1>1. ASSUME NEW p \in Process, NEW a \in Account, Acquire(p, a) PROVE Taken(p) \/ Untouched
  <2>1. CASE MayRetry(p, a)
    BY <1>1, <2>1 DEF Acquire, SetLease, MayRetry, Untouched, LeaseInv
  <2>2. CASE ~MayRetry(p, a)
    BY <1>1, <2>2 DEF Acquire, SetLease, CanAcquire, Taken
  <2>3. QED
    BY <2>1, <2>2
<1>2. ASSUME NEW p \in Process, Heartbeat(p) \/ PolicyRollback(p) PROVE Kept(p)
  BY <1>2 DEF Heartbeat, PolicyRollback, SetLease, Kept
<1>3. ASSUME NEW p \in Process, Release(p) PROVE GivenUp(p)
  BY <1>3 DEF Release, GivenUp
<1>4. ASSUME NEW p \in Process, Kill(p) PROVE Untouched
  BY <1>4 DEF Kill, Untouched, LeaseInv
<1>5. ASSUME NEW r \in Result, Register(r) \/ ManualSelect(r) PROVE Untouched
  BY <1>5 DEF Register, ManualSelect, leaseVars, Untouched, LeaseInv
<1>6. CASE ManualRollback \/ Tick \/ SetBack
  BY <1>6 DEF ManualRollback, Tick, SetBack, leaseVars, Untouched, LeaseInv, LeaseStep
<1>7. CASE UNCHANGED vars
  BY <1>7 DEF vars, leaseVars, Untouched, LeaseInv, LeaseStep
<1>8. QED
  BY <1>1, <1>2, <1>3, <1>4, <1>5, <1>6, <1>7 DEF LeaseNext, LeaseStep

LEMMA SelectionsStaySequence ==
  ASSUME LeaseInv, [LeaseNext]_vars
  PROVE  \E S : selections' \in Seq(S)
<1>1. PICK S : selections \in Seq(S)
  BY DEF LeaseInv
<1>2. ASSUME NEW r \in Result, NEW e, NEW t, SelectPaperCandidate(r, e, t)
      PROVE  \E T : selections' \in Seq(T)
  <2> DEFINE x == [result |-> r, reason |-> "manual_selection", at |-> t]
  <2>1. selections' = Append(selections, x)
    BY <1>2 DEF SelectPaperCandidate
  <2> HIDE DEF x
  <2>2. selections' \in Seq(S \cup {x})
    BY <1>1, <2>1
  <2>3. QED
    BY <2>2
<1>3. ASSUME NEW e, NEW reason, NEW t, RollbackPaperCandidate(e, reason, t)
      PROVE  \E T : selections' \in Seq(T)
  <2> DEFINE x == [result |-> Top(Front(StackOf(selections))), reason |-> reason, at |-> t]
  <2>1. selections' = Append(selections, x)
    BY <1>3 DEF RollbackPaperCandidate
  <2> HIDE DEF x
  <2>2. selections' \in Seq(S \cup {x})
    BY <1>1, <2>1
  <2>3. QED
    BY <2>2
<1>4. \/ selections' = selections
      \/ \E r \in Result : \E t : SelectPaperCandidate(r, CurrentEvent, t)
      \/ \E e, reason, t : RollbackPaperCandidate(e, reason, t)
  BY DEF LeaseNext, vars, registryVars, Acquire, Heartbeat, Release, PolicyRollback, Kill,
         Register, RegisterEvidence, ManualSelect, ManualRollback, Tick, SetBack
<1>5. QED
  BY <1>1, <1>2, <1>3, <1>4

-----------------------------------------------------------------------------
(* The invariant *)

LEMMA CurrentEventIsNat == ASSUME LeaseInv PROVE CurrentEvent \in Nat
  BY DEF LeaseInv, CurrentEvent

\* The rows the code writes are rows.
LEMMA RowTypes ==
  ASSUME LeaseInv
  PROVE  /\ \A p \in Process, a \in Account :
               /\ Granted(p, a) \in Row
               /\ Granted(p, a).owner = p /\ Granted(p, a).token = lease.token + 1
               /\ Granted(p, a).beat = now /\ Granted(p, a).expires = now + TTL
         /\ Renewed \in Row /\ Renewed.owner = lease.owner /\ Renewed.token = lease.token
         /\ Renewed.beat = now /\ Renewed.expires = now + TTL
         /\ Released(lease.token) \in Row /\ Released(lease.token).owner = NoOwner
         /\ Released(lease.token).token = lease.token
<1>1. /\ lease \in Row /\ lease.token \in Nat /\ now \in Nat /\ now + TTL \in Nat
      /\ CurrentEvent \in Nat
  BY CurrentEventIsNat, LeaseAssumption DEF LeaseInv, Row
<1>2. ASSUME NEW p \in Process, NEW a \in Account
      PROVE  /\ Granted(p, a) \in Row
             /\ Granted(p, a).owner = p /\ Granted(p, a).token = lease.token + 1
             /\ Granted(p, a).beat = now /\ Granted(p, a).expires = now + TTL
  BY <1>1 DEF Row, Granted
<1>3. /\ Renewed \in Row /\ Renewed.owner = lease.owner /\ Renewed.token = lease.token
      /\ Renewed.beat = now /\ Renewed.expires = now + TTL
  BY <1>1 DEF Row, Renewed
<1>4. /\ Released(lease.token) \in Row /\ Released(lease.token).owner = NoOwner
      /\ Released(lease.token).token = lease.token
  BY <1>1 DEF Row, Released
<1>5. QED
  BY <1>2, <1>3, <1>4

LEMMA InitLease == selections = <<>> /\ LeaseInit => LeaseInv
<1> SUFFICES ASSUME selections = <<>>, LeaseInit PROVE LeaseInv
  OBVIOUS
<1>1. lease \in Row /\ lease.owner = NoOwner /\ lease = Released(lease.token)
  BY DEF LeaseInit, Row, Released
<1>2. \E S : selections \in Seq(S)
  <2>1. <<>> \in Seq({})
    OBVIOUS
  <2>2. QED
    BY <2>1, Zenon
<1>3. QED
  BY <1>1, <1>2 DEF LeaseInit, LeaseInv

LEMMA LeaseStepKeeps ==
  ASSUME LeaseInv, LeaseStep, \E S : selections' \in Seq(S)
  PROVE  LeaseInv'
<1> USE LeaseAssumption
<1>1. lease \in Row /\ lease.token \in Nat /\ now \in Nat \ {0}
  BY DEF LeaseInv, Row
<1>2. \E S : selections' \in Seq(S)
  OBVIOUS
<1>3. ASSUME NEW p \in Process, Taken(p) PROVE LeaseInv'
  <2>1. PICK a \in Account : lease' = Granted(p, a)
    BY <1>3 DEF Taken
  <2>2. /\ lease' \in Row /\ lease'.owner = p /\ lease'.token = lease.token + 1
        /\ lease'.beat = now /\ lease'.expires = now + TTL /\ now' = now
        /\ \A q \in Process : claim'[q] = IF q = p THEN lease' ELSE claim[q]
        /\ DOMAIN claim' = Process
    BY <1>3, <2>1, RowTypes DEF Taken, LeaseInv
  <2>3. \A q \in Process : claim'[q] # NoClaim =>
           claim'[q] \in Row /\ claim'[q].owner = q /\ claim'[q].token <= lease'.token
    <3> SUFFICES ASSUME NEW q \in Process, claim'[q] # NoClaim
                 PROVE  claim'[q] \in Row /\ claim'[q].owner = q /\ claim'[q].token <= lease'.token
      OBVIOUS
    <3>1. CASE q = p
      BY <1>1, <2>2, <3>1
    <3>2. CASE q # p
      <4>1. claim[q].token \in Nat /\ claim[q].token <= lease.token
        BY <2>2, <3>2 DEF LeaseInv, Row
      <4>2. QED
        BY <1>1, <2>2, <3>2, <4>1 DEF LeaseInv
    <3>3. QED
      BY <3>1, <3>2
  <2>4. QED
    BY <1>1, <1>2, <2>2, <2>3 DEF LeaseInv
<1>4. ASSUME NEW p \in Process, Kept(p) PROVE LeaseInv'
  <2>1. /\ lease' \in Row /\ lease'.owner = lease.owner /\ lease'.token = lease.token
        /\ lease.owner = p /\ lease'.beat = now /\ lease'.expires = now + TTL /\ now' = now
        /\ \A q \in Process : claim'[q] = IF q = p THEN lease' ELSE claim[q]
        /\ DOMAIN claim' = Process
    BY <1>4, RowTypes DEF Kept, ValidClaim, HoldsLease, LeaseInv
  <2>2. \A q \in Process : claim'[q] # NoClaim =>
           claim'[q] \in Row /\ claim'[q].owner = q /\ claim'[q].token <= lease'.token
    <3> SUFFICES ASSUME NEW q \in Process, claim'[q] # NoClaim
                 PROVE  claim'[q] \in Row /\ claim'[q].owner = q /\ claim'[q].token <= lease'.token
      OBVIOUS
    <3>1. CASE q = p
      BY <1>1, <2>1, <3>1
    <3>2. CASE q # p
      BY <2>1, <3>2 DEF LeaseInv
    <3>3. QED
      BY <3>1, <3>2
  <2>3. QED
    BY <1>1, <1>2, <2>1, <2>2 DEF LeaseInv
<1>5. ASSUME NEW p \in Process, GivenUp(p) PROVE LeaseInv'
  <2>1. /\ lease' = Released(lease.token) /\ lease' \in Row
        /\ lease'.token = lease.token /\ lease'.owner = NoOwner /\ now' = now
        /\ \A q \in Process : claim'[q] = IF q = p THEN NoClaim ELSE claim[q]
        /\ DOMAIN claim' = Process
    BY <1>5, RowTypes DEF GivenUp, LeaseInv
  <2>2. QED
    BY <1>1, <1>2, <2>1 DEF LeaseInv
<1>6. CASE Untouched
  <2>1. /\ lease' = lease /\ now' \in Nat \ {0} /\ DOMAIN claim' = Process
        /\ \A q \in Process : \/ claim'[q] \in {claim[q], NoClaim}
                              \/ lease.owner = q /\ claim'[q] = lease
    BY <1>6 DEF Untouched, LeaseInv
  <2>2. QED
    BY <1>1, <1>2, <2>1 DEF LeaseInv
<1>7. QED
  BY <1>3, <1>4, <1>5, <1>6 DEF LeaseStep

LEMMA NextLease == LeaseInv /\ [LeaseNext]_vars => LeaseInv'
  BY StepKinds, SelectionsStaySequence, LeaseStepKeeps

THEOREM LeaseShape == LeaseSpec => []LeaseInv
<1>1. RunnerInit => LeaseInv
  BY InitLease DEF RunnerInit, RegistryInit
<1>2. QED
  BY <1>1, NextLease, PTL DEF LeaseSpec

-----------------------------------------------------------------------------
(* What follows *)

\* The state guard of migration 021 never aborts a write of the code.
LEMMA LeaseStepPassesGuard ==
  LeaseInv /\ LeaseStep => (lease' # lease => GuardAllows(lease, lease'))
<1> SUFFICES ASSUME LeaseInv, LeaseStep, lease' # lease
             PROVE  GuardAllows(lease, lease')
  OBVIOUS
<1>1. lease \in Row /\ now \in Nat \ {0} /\ TTL \in Nat \ {0} /\ NoOwner \notin Process
  BY LeaseAssumption DEF LeaseInv
<1>2. ASSUME NEW p \in Process, Taken(p) PROVE GuardAllows(lease, lease')
  <2>1. /\ lease'.owner = p /\ lease'.token = lease.token + 1
        /\ lease'.beat = now /\ lease'.expires = now + TTL
    BY <1>2, RowTypes DEF Taken
  <2>2. lease.token < MaxFence /\ (lease.owner # NoOwner => lease.beat <= now /\ lease.expires <= now)
    BY <1>2 DEF Taken, MayTake, IsHeld
  <2>3. QED
    BY <1>1, <2>1, <2>2 DEF GuardAllows, Row
<1>3. ASSUME NEW p \in Process, Kept(p) PROVE GuardAllows(lease, lease')
  <2>1. lease' = Renewed /\ lease.beat <= now /\ now < lease.expires /\ lease.owner = p
    BY <1>3 DEF Kept, ValidClaim, HoldsLease
  <2>2. /\ lease'.owner = lease.owner /\ lease'.token = lease.token
        /\ lease'.account = lease.account /\ lease'.selection = lease.selection
        /\ lease'.beat = now /\ lease'.expires = now + TTL
    BY <1>1, <2>1 DEF Renewed, Row
  <2>3. QED
    BY <1>1, <2>1, <2>2 DEF GuardAllows, Row
<1>4. ASSUME NEW p \in Process, GivenUp(p) PROVE GuardAllows(lease, lease')
  <2>1. lease' = Released(lease.token) /\ lease.owner = p
    BY <1>4 DEF GivenUp, LeaseInv
  <2>2. QED
    BY <1>1, <2>1 DEF GuardAllows
<1>5. QED
  BY <1>2, <1>3, <1>4 DEF LeaseStep, Untouched

THEOREM GuardNeverAborts == LeaseSpec => WritesPassGuard
<1>1. LeaseInv /\ [LeaseNext]_vars => [lease' # lease => GuardAllows(lease, lease')]_vars
  BY StepKinds, LeaseStepPassesGuard
<1>2. QED
  BY <1>1, LeaseShape, PTL DEF LeaseSpec, WritesPassGuard

\* Whoever lost the lease stays out, whatever is released, retaken or renewed
\* meanwhile and wherever the clock is put.
LEMMA LeaseStepKeepsLost ==
  LeaseInv /\ LeaseStep
  => \A p \in Process :
        claim[p] # NoClaim /\ claim[p] # lease /\ claim'[p] = claim[p]
        => ~(claim[p] = lease')
<1> SUFFICES ASSUME LeaseInv, LeaseStep, NEW p \in Process,
                    claim[p] # NoClaim, claim[p] # lease, claim'[p] = claim[p],
                    claim[p] = lease'
             PROVE  FALSE
  OBVIOUS
<1>1. /\ lease' = claim[p] /\ lease'.owner = p /\ lease' # lease
      /\ lease'.token <= lease.token /\ lease.token \in Nat
  BY DEF LeaseInv, Row
<1>2. ASSUME NEW q \in Process, Taken(q) PROVE FALSE
  BY <1>1, <1>2, RowTypes DEF Taken
<1>3. ASSUME NEW q \in Process, Kept(q) PROVE FALSE
  <2>1. claim[q] = lease /\ lease.owner = q /\ lease'.owner = q
    BY <1>3, RowTypes DEF Kept, ValidClaim, HoldsLease
  <2>2. QED
    BY <1>1, <2>1
<1>4. ASSUME NEW q \in Process, GivenUp(q) PROVE FALSE
  BY <1>1, <1>4, RowTypes, LeaseAssumption DEF GivenUp
<1>5. QED
  BY <1>1, <1>2, <1>3, <1>4 DEF LeaseStep, Untouched

THEOREM LostForGood == LeaseSpec => LostClaimStaysLost
<1>1. LeaseInv /\ [LeaseNext]_vars
      => [\A p \in Process :
             claim[p] # NoClaim /\ claim[p] # lease /\ claim'[p] = claim[p]
             => ~HoldsLease(p)']_vars
  BY StepKinds, LeaseStepKeepsLost DEF HoldsLease
<1>2. QED
  BY <1>1, LeaseShape, PTL DEF LeaseSpec, LostClaimStaysLost

\* A lease whose selection was replaced is never renewed.
THEOREM OutdatedNotRenewed == LeaseSpec => OutdatedLeaseNotRenewed
<1>1. LeaseInv /\ [LeaseNext]_vars
      => [IsHeld /\ lease.selection # CurrentEvent /\ lease' # lease
          => lease'.owner = NoOwner \/ lease'.token > lease.token]_vars
  <2> SUFFICES ASSUME LeaseInv, [LeaseNext]_vars,
                      lease.selection # CurrentEvent, lease' # lease
               PROVE  lease'.owner = NoOwner \/ lease'.token > lease.token
    OBVIOUS
  <2>1. ASSUME NEW p \in Process, Taken(p) PROVE lease'.token > lease.token
    BY <2>1, RowTypes DEF Taken, LeaseInv, Row
  <2>2. ASSUME NEW p \in Process, GivenUp(p) PROVE lease'.owner = NoOwner
    BY <2>2, RowTypes DEF GivenUp
  <2>3. QED
    BY <2>1, <2>2, StepKinds DEF LeaseStep, Kept, ValidClaim, Untouched
<1>2. QED
  BY <1>1, LeaseShape, PTL DEF LeaseSpec, OutdatedLeaseNotRenewed

\* The row implements the fenced lease.
LEMMA LeaseStepIsFenced == LeaseInv /\ LeaseStep => [Fenced!LeaseNext]_Fenced!leaseVars
<1> SUFFICES ASSUME LeaseInv, LeaseStep PROVE Fenced!LeaseNext
  OBVIOUS
<1>1. /\ lease.token \in Nat /\ lease.beat \in Nat /\ lease.expires \in Nat
      /\ now \in Nat /\ TTL \in Nat \ {0} /\ NoOwner \notin Process
  BY LeaseAssumption DEF LeaseInv, Row
<1>2. ASSUME NEW p \in Process, Taken(p) PROVE Fenced!Grant(p)
  <2>1. /\ lease'.owner = p /\ lease'.token = lease.token + 1
        /\ lease'.expires = now + TTL /\ now' = now
    BY <1>2, RowTypes DEF Taken
  <2>2. lease.owner # NoOwner => lease.expires <= now
    BY <1>2 DEF Taken, MayTake, IsHeld
  <2>3. QED
    BY <1>1, <2>1, <2>2 DEF Fenced!Grant, Fenced!IsLive
<1>3. ASSUME NEW p \in Process, Kept(p) PROVE Fenced!Renew
  <2>1. /\ lease'.owner = lease.owner /\ lease'.token = lease.token
        /\ lease'.expires = now + TTL /\ now' = now
        /\ lease.owner = p /\ lease.beat <= now /\ now < lease.expires
    BY <1>3, RowTypes DEF Kept, ValidClaim, HoldsLease
  <2>2. lease.expires = lease.beat + TTL
    BY <1>1, <2>1 DEF LeaseInv
  <2>3. QED
    BY <1>1, <2>1, <2>2 DEF Fenced!Renew, Fenced!IsLive
<1>4. ASSUME NEW p \in Process, GivenUp(p) PROVE Fenced!Drop
  BY <1>1, <1>4, RowTypes DEF GivenUp, Fenced!Drop
<1>5. CASE Untouched
  <2>1. lease' = lease /\ now' \in Nat
    BY <1>5 DEF Untouched
  <2>2. lease'.expires - now' \in Int
    BY <1>1, <2>1
  <2>3. lease'.owner = lease.owner /\ lease'.token = lease.token
    BY <2>1
  <2>4. QED
    BY <2>2, <2>3 DEF Fenced!TimePasses, Fenced!LeaseNext
<1>6. QED
  BY <1>2, <1>3, <1>4, <1>5 DEF LeaseStep, Fenced!LeaseNext

LEMMA InitIsFenced == LeaseInit => Fenced!LeaseInit
  BY DEF LeaseInit, Released, Fenced!LeaseInit

THEOREM RunnerLeaseImplementsLease == LeaseSpec => ImplementsFencedLease
<1>1. RunnerInit => Fenced!LeaseInit
  BY InitIsFenced DEF RunnerInit
<1>2. LeaseInv /\ [LeaseNext]_vars => [Fenced!LeaseNext]_Fenced!leaseVars
  BY StepKinds, LeaseStepIsFenced
<1>3. QED
  BY <1>1, <1>2, LeaseShape, PTL DEF LeaseSpec, ImplementsFencedLease, Fenced!LeaseSpec

-----------------------------------------------------------------------------
(* The runs: each process and its claim.                                     *)

\* The claim of p fits what p is doing: a run that has not asked for the lease
\* has none, a claim is for the account of the run and names a selection, and
\* only the loop waits.
Fits(p) ==
    /\ run[p].pc \in {"idle", "check", "acquire"} => claim[p] = NoClaim
    /\ claim[p] # NoClaim => claim[p].account = run[p].account /\ claim[p].selection > 0
    /\ run[p].pc = "idle" => run[p].kind = "none"
    /\ run[p].pc # "idle" => run[p].account \in Account
    /\ run[p].pc = "wait" => run[p].kind = "loop"

Owns(p) == claim[p] # NoClaim /\ claim[p] = lease

\* A one-shot run that owns the row has the claim to release it, until it ends.
Releases(p) ==
    p \in alive /\ run[p].kind # "loop" /\ lease.owner = p => Owns(p) /\ run[p].pc # "ended"

\* Inductive: the types, and both for every process.
ClaimsInv ==
    /\ LeaseInv
    /\ selections \in Seq(SelectionEvent)
    /\ run \in [Process -> RunState]
    /\ \A p \in Process : Fits(p) /\ Releases(p)

\* What a step of p leaves alone.
OthersKept(p) ==
    /\ \A q \in Process : q # p => run'[q] = run[q] /\ claim'[q] = claim[q]
    /\ lease' = lease \/ lease'.owner \in {p, NoOwner}
    /\ alive' \subseteq alive

Moved(p) ==
    /\ run' \in [Process -> RunState]
    /\ Fits(p)' /\ Releases(p)' /\ OthersKept(p)

LEMMA GotoIs ==
  ASSUME run \in [Process -> RunState], NEW p \in Process, NEW c \in Pc, Goto(p, c)
  PROVE  /\ run' \in [Process -> RunState]
         /\ run'[p].pc = c /\ run'[p].kind = run[p].kind
         /\ run'[p].account = run[p].account /\ run'[p].asOf = run[p].asOf
         /\ \A q \in Process : q # p => run'[q] = run[q]
  BY DEF Goto, RunState

LEMMA RenewalIs ==
  ASSUME LeaseInv, NEW p \in Process, ValidClaim(p), SetLease(p, Renewed)
  PROVE  /\ lease'.owner = p /\ lease'.account = lease.account
         /\ lease'.selection = lease.selection
         /\ claim'[p] # NoClaim /\ claim'[p] = lease'
         /\ \A q \in Process : q # p => claim'[q] = claim[q]
<1>1. /\ lease' = Renewed /\ claim' = [claim EXCEPT ![p] = Renewed]
      /\ lease.owner = p /\ lease \in Row /\ DOMAIN claim = Process
  BY DEF ValidClaim, HoldsLease, SetLease, LeaseInv
<1>2. Renewed # NoClaim /\ Renewed.owner = lease.owner
  BY RowTypes, NoClaimAssumption
<1>3. Renewed.account = lease.account /\ Renewed.selection = lease.selection
  BY <1>1 DEF Renewed, Row
<1>4. QED
  BY <1>1, <1>2, <1>3

\* A step that renews the row under p's valid claim.
LEMMA RenewalMoves ==
  ASSUME ClaimsInv, NEW p \in Process, ValidClaim(p), SetLease(p, Renewed), alive' = alive,
         NEW c \in Pc \ {"idle", "check", "acquire", "ended"}, Goto(p, c),
         c = "wait" => run[p].kind = "loop", run[p].pc # "idle"
  PROVE  Moved(p)
<1>1. /\ run \in [Process -> RunState] /\ LeaseInv /\ Fits(p)
  BY DEF ClaimsInv
<1>2. claim[p] # NoClaim /\ claim[p] = lease
  BY DEF ValidClaim, HoldsLease
<1>3. QED
  BY <1>1, <1>2, GotoIs, RenewalIs DEF Moved, Fits, Releases, Owns, OthersKept

\* A step of p that leaves the row and the claims alone.
LEMMA PlainMoves ==
  ASSUME ClaimsInv, NEW p \in Process, UNCHANGED <<lease, claim, alive>>,
         NEW c \in Pc \ {"idle"}, Goto(p, c), run[p].pc # "idle",
         c = "wait" => run[p].kind = "loop",
         c \in {"check", "acquire", "ended"} => claim[p] = NoClaim
  PROVE  Moved(p)
<1>1. /\ run \in [Process -> RunState] /\ Fits(p) /\ Releases(p)
  BY DEF ClaimsInv
<1>2. QED
  BY <1>1, GotoIs DEF Moved, Fits, Releases, Owns, OthersKept

LEMMA StageMoves ==
  ASSUME ClaimsInv, NEW p \in Process, StageC3(p) \/ StageD(p) \/ StageE(p)
  PROVE  Moved(p)
<1>1. ASSUME StageC3(p) PROVE Moved(p)
  <2>1. /\ run[p].pc = "C3" /\ ValidClaim(p)
        /\ \/ SetLease(p, Renewed) /\ alive' = alive /\ Goto(p, "beatD")
           \/ UNCHANGED <<lease, claim, alive>> /\ NotDue(p)
    BY <1>1 DEF StageC3, RenewInStage, leaseVars
  <2>2. CASE SetLease(p, Renewed) /\ alive' = alive /\ Goto(p, "beatD")
    BY <2>1, <2>2, RenewalMoves DEF Pc
  <2>3. CASE UNCHANGED <<lease, claim, alive>> /\ NotDue(p)
    <3>1. \E c \in {"wait", "release"} : Goto(p, c) /\ (c = "wait" => run[p].kind = "loop")
      BY <2>3 DEF NotDue
    <3>2. QED
      BY <2>1, <2>3, <3>1, PlainMoves DEF Pc
  <2>4. QED
    BY <2>1, <2>2, <2>3
<1>2. ASSUME StageD(p) PROVE Moved(p)
  <2>1. /\ run[p].pc = "D" /\ ValidClaim(p) /\ SetLease(p, Renewed) /\ alive' = alive
        /\ Goto(p, "beatE")
    BY <1>2 DEF StageD, RenewInStage
  <2>2. QED
    BY <2>1, RenewalMoves DEF Pc
<1>3. ASSUME StageE(p) PROVE Moved(p)
  <2>1. /\ run[p].pc = "E" /\ ValidClaim(p) /\ SetLease(p, Renewed) /\ alive' = alive
        /\ \E c \in {"wait", "release"} : Goto(p, c) /\ (c = "wait" => run[p].kind = "loop")
    BY <1>3 DEF StageE, RenewInStage, PolicyRollback
  <2>2. QED
    BY <2>1, RenewalMoves DEF Pc
<1>4. QED
  BY <1>1, <1>2, <1>3

LEMMA AcquireMoves ==
  ASSUME ClaimsInv, NEW p \in Process, AcquireForRun(p)
  PROVE  Moved(p)
<1> DEFINE a == run[p].account
<1>1. /\ run[p].pc = "acquire" /\ Acquire(p, a) /\ Goto(p, "due")
  BY DEF AcquireForRun
<1>2. a \in Account /\ run \in [Process -> RunState] /\ LeaseInv
  BY <1>1 DEF ClaimsInv, Fits
<1>3. CurrentEvent > 0
  <2>1. selections # <<>> /\ selections \in Seq(SelectionEvent)
    BY <1>1 DEF Acquire, CanAcquire, Selected, ClaimsInv
  <2>2. QED
    BY <2>1 DEF CurrentEvent
<1> HIDE DEF a
<1>4. /\ lease'.owner = p /\ lease'.account = a /\ lease'.selection > 0 /\ lease' \in Row
      /\ claim' = [claim EXCEPT ![p] = lease'] /\ alive' = alive
  <2>1. CASE MayRetry(p, a)
    BY <1>1, <1>2, <1>3, <2>1 DEF Acquire, SetLease, MayRetry, LeaseInv
  <2>2. CASE ~MayRetry(p, a)
    <3>1. lease' = Granted(p, a) /\ claim' = [claim EXCEPT ![p] = lease'] /\ alive' = alive
      BY <1>1, <2>2 DEF Acquire, SetLease
    <3>2. Granted(p, a).account = a /\ Granted(p, a).selection = CurrentEvent
      BY DEF Granted
    <3>3. QED
      BY <1>2, <1>3, <3>1, <3>2, RowTypes
  <2>3. QED
    BY <2>1, <2>2
<1>5. lease' # NoClaim /\ claim'[p] = lease' /\ \A q \in Process : q # p => claim'[q] = claim[q]
  BY <1>2, <1>4, NoClaimAssumption DEF LeaseInv
<1>6. /\ run' \in [Process -> RunState]
      /\ run'[p].pc = "due" /\ run'[p].account = a
      /\ \A q \in Process : q # p => run'[q] = run[q]
  BY <1>1, <1>2, GotoIs DEF Pc, a
<1>7. QED
  BY <1>2, <1>4, <1>5, <1>6 DEF Moved, Fits, Releases, Owns, OthersKept

LEMMA EndMoves ==
  ASSUME ClaimsInv, NEW p \in Process,
         LoopHeartbeatFails(p) \/ ReleaseRun(p) \/ KillRun(p)
  PROVE  Moved(p)
<1>1. /\ run \in [Process -> RunState] /\ Fits(p) /\ Releases(p)
      /\ DOMAIN claim = Process /\ lease \in Row
  BY DEF ClaimsInv, LeaseInv
<1>2. ASSUME LoopHeartbeatFails(p) PROVE Moved(p)
  <2>1. /\ run[p].pc = "wait" /\ Goto(p, "release") /\ claim' = [claim EXCEPT ![p] = NoClaim]
        /\ UNCHANGED <<lease, alive>>
    BY <1>2 DEF LoopHeartbeatFails
  <2>2. QED
    BY <1>1, <2>1, GotoIs DEF Moved, Fits, Releases, Owns, OthersKept, Pc
<1>3. ASSUME ReleaseRun(p) PROVE Moved(p)
  <2>1. /\ run[p].pc = "release" /\ Goto(p, "ended") /\ alive' = alive
        /\ claim' = [claim EXCEPT ![p] = NoClaim]
        /\ \/ lease' = Released(lease.token)
           \/ lease' = lease /\ ~Owns(p)
    BY <1>3 DEF ReleaseRun, Release, Owns
  <2>2. Released(lease.token).owner = NoOwner /\ NoOwner # p
    BY LeaseAssumption DEF Released
  <2>3. QED
    BY <1>1, <2>1, <2>2, GotoIs DEF Moved, Fits, Releases, OthersKept, Pc
<1>4. ASSUME KillRun(p) PROVE Moved(p)
  <2>1. /\ run[p].pc \notin {"idle", "ended"} /\ Goto(p, "ended") /\ alive' = alive \ {p}
        /\ claim' = [claim EXCEPT ![p] = NoClaim] /\ lease' = lease
    BY <1>4 DEF KillRun, Kill
  <2>2. QED
    BY <1>1, <2>1, GotoIs DEF Moved, Fits, Releases, OthersKept, Pc
<1>5. QED
  BY <1>2, <1>3, <1>4

LEMMA PrepareMoves ==
  ASSUME ClaimsInv, NEW p \in Process, Prepare(p), DueClose(run[p].account) \in Nat
  PROVE  Moved(p)
<1>1. run[p].pc = "due" /\ UNCHANGED <<lease, claim, alive>>
  BY DEF Prepare, vars, leaseVars
<1>2. CASE \E c \in {"wait", "release"} : Goto(p, c) /\ (c = "wait" => run[p].kind = "loop")
  BY <1>1, <1>2, PlainMoves DEF Pc
<1>3. CASE run' = [run EXCEPT ![p].pc = "beatC3", ![p].asOf = DueClose(run[p].account)]
  <2>1. run \in [Process -> RunState] /\ Fits(p) /\ Releases(p)
    BY DEF ClaimsInv
  <2>2. /\ run' \in [Process -> RunState]
        /\ run'[p].pc = "beatC3" /\ run'[p].kind = run[p].kind
        /\ run'[p].account = run[p].account
        /\ \A q \in Process : q # p => run'[q] = run[q]
    BY <1>3, <2>1 DEF RunState, Pc
  <2>3. QED
    BY <1>1, <2>1, <2>2 DEF Moved, Fits, Releases, Owns, OthersKept
<1>4. QED
  BY <1>2, <1>3 DEF Prepare, NotDue

LEMMA StartMoves ==
  ASSUME ClaimsInv, NEW p \in Process, NEW kind \in {"once", "loop"}, NEW a \in Account,
         Start(p, kind, a)
  PROVE  Moved(p)
<1>1. /\ run \in [Process -> RunState] /\ Fits(p) /\ Releases(p)
  BY DEF ClaimsInv
<1>2. /\ run[p].pc = "idle" /\ UNCHANGED <<lease, claim, alive>>
      /\ run' = [run EXCEPT ![p] =
           [Idle EXCEPT !.kind = kind, !.account = a,
                        !.pc = IF kind = "loop" THEN "acquire" ELSE "check"]]
  BY DEF Start, vars, leaseVars
<1>3. /\ run' \in [Process -> RunState]
      /\ run'[p].pc \in {"acquire", "check"} /\ run'[p].kind = kind /\ run'[p].account = a
      /\ \A q \in Process : q # p => run'[q] = run[q]
  BY <1>1, <1>2 DEF Idle, RunState, Pc
<1>4. QED
  BY <1>1, <1>2, <1>3 DEF Moved, Fits, Releases, Owns, OthersKept

LEMMA StepMoves ==
  ASSUME ClaimsInv, NEW p \in Process, RunStep(p), \A a \in Account : DueClose(a) \in Nat
  PROVE  Moved(p)
<1>1. CASE Check(p)
  <2>1. /\ run[p].pc = "check" /\ UNCHANGED <<lease, claim, alive>>
        /\ Goto(p, "acquire") \/ Goto(p, "ended")
    BY <1>1 DEF Check, vars, leaseVars
  <2>2. claim[p] = NoClaim
    BY <2>1 DEF ClaimsInv, Fits
  <2>3. QED
    BY <2>1, <2>2, PlainMoves DEF Pc
<1>2. CASE AcquireRefused(p)
  <2>1. /\ run[p].pc = "acquire" /\ UNCHANGED <<lease, claim, alive>>
        /\ Goto(p, "check") \/ Goto(p, "ended")
    BY <1>2 DEF AcquireRefused, vars, leaseVars
  <2>2. claim[p] = NoClaim
    BY <2>1 DEF ClaimsInv, Fits
  <2>3. QED
    BY <2>1, <2>2, PlainMoves DEF Pc
<1>3. CASE Prepare(p)
  <2>1. run[p].pc = "due"
    BY <1>3 DEF Prepare
  <2>2. DueClose(run[p].account) \in Nat
    BY <2>1 DEF ClaimsInv, Fits
  <2>3. QED
    BY <1>3, <2>2, PrepareMoves
<1>4. ASSUME NEW stage \in Stage, Beat(p, stage) PROVE Moved(p)
  <2>1. /\ run[p].pc = BeatBefore[stage] /\ ValidClaim(p) /\ SetLease(p, Renewed)
        /\ alive' = alive /\ Goto(p, stage)
    BY <1>4 DEF Beat, Heartbeat
  <2>2. BeatBefore[stage] # "idle" /\ stage \in Pc \ {"idle", "check", "acquire", "ended", "wait"}
    BY DEF BeatBefore, Stage, Pc
  <2>3. QED
    BY <2>1, <2>2, RenewalMoves
<1>5. CASE MarksIncomplete(p) \/ RunFails(p) \/ CancelWait(p)
  <2>1. /\ run[p].pc # "idle" /\ UNCHANGED <<lease, claim, alive>>
        /\ \E c \in {"wait", "release"} : Goto(p, c) /\ (c = "wait" => run[p].kind = "loop")
    BY <1>5 DEF MarksIncomplete, RunFails, CancelWait, NotDue, vars, leaseVars
  <2>2. QED
    BY <2>1, PlainMoves DEF Pc
<1>6. CASE LoopHeartbeat(p)
  <2>1. /\ run[p].pc = "wait" /\ ValidClaim(p) /\ SetLease(p, Renewed) /\ alive' = alive
        /\ Goto(p, "wait") \/ Goto(p, "due")
    BY <1>6 DEF LoopHeartbeat, Heartbeat
  <2>2. run[p].kind = "loop"
    BY <2>1 DEF ClaimsInv, Fits
  <2>3. QED
    BY <2>1, <2>2, RenewalMoves DEF Pc
<1>7. QED
  BY <1>1, <1>2, <1>3, <1>4, <1>5, <1>6, StageMoves, AcquireMoves, EndMoves DEF RunStep

-----------------------------------------------------------------------------
(* The evidence: valuations with their stages, and the events they cause.    *)

LEMMA LatestCloseIsNat ==
  ASSUME closes \subseteq Nat, now \in Nat
  PROVE  LatestClose \in Nat
<1> DEFINE known == {0} \cup {k \in closes : k <= now}
<1>1. known \subseteq 0..now /\ known # {} /\ known \subseteq Nat
  <2>1. 0 \in known
    OBVIOUS
  <2>2. \A k \in known : k \in 0..now /\ k \in Nat
    OBVIOUS
  <2> HIDE DEF known
  <2>3. QED
    BY <2>1, <2>2
<1> HIDE DEF known
<1>2. PICK m \in known : \A k \in known : k <= m
  BY <1>1, LargestNumber
<1>3. \A k \in known : m >= k
  BY <1>1, <1>2
<1>4. Max(known) \in known
  BY <1>3 DEF Max
<1>5. QED
  BY <1>1, <1>4 DEF LatestClose, known

LEMMA DueCloseIsNat ==
  ASSUME closes \subseteq Nat, now \in Nat, points \in [Account -> Seq(Point)], NEW a \in Account
  PROVE  /\ DueClose(a) \in Nat
         /\ IsUnfinished(a) => Newest(a).asOf \in Nat
<1>1. LatestClose \in Nat
  BY LatestCloseIsNat
<1>2. IsUnfinished(a) => Newest(a).asOf \in Nat
  <2>1. points[a] \in Seq(Point)
    OBVIOUS
  <2>2. points[a] # <<>> => Last(points[a]) \in Point
    BY <2>1 DEF Last
  <2>3. QED
    BY <2>2 DEF IsUnfinished, Newest, Point
<1>3. QED
  BY <1>1, <1>2 DEF DueClose

LEMMA EvaluateIs == \A samples, breach : Evaluate(samples, breach) \in Decision \ {"none"}
  BY DEF Evaluate, Decision

\* pt becomes the n-th and last valuation of account a.
Put(a, n, pt) ==
    /\ n \in Nat \ {0} /\ pt \in Point
    /\ points' \in [Account -> Seq(Point)]
    /\ Len(points'[a]) = n /\ points'[a][n] = pt
    /\ \A i \in 1..(n - 1) : points'[a][i] = points[a][i]
    /\ \A b \in Account : b # a => points'[b] = points[b]

LEMMA PutNew ==
  ASSUME points \in [Account -> Seq(Point)], NEW a \in Account, NEW pt \in Point,
         points' = [points EXCEPT ![a] = Append(@, pt)]
  PROVE  Put(a, Len(points[a]) + 1, pt)
<1>1. points[a] \in Seq(Point) /\ points'[a] = Append(points[a], pt)
  OBVIOUS
<1>2. Append(points[a], pt) \in Seq(Point)
  BY <1>1
<1>3. points' \in [Account -> Seq(Point)] /\ \A b \in Account : b # a => points'[b] = points[b]
  BY <1>2
<1>4. QED
  BY <1>1, <1>3 DEF Put

LEMMA PutLast ==
  ASSUME points \in [Account -> Seq(Point)], NEW a \in Account, NEW pt \in Point,
         points[a] # <<>>,
         points' = [points EXCEPT ![a] = [@ EXCEPT ![Len(points[a])] = pt]]
  PROVE  Put(a, Len(points[a]), pt)
<1> DEFINE n == Len(points[a])
<1>1. points[a] \in Seq(Point) /\ points'[a] = [points[a] EXCEPT ![n] = pt] /\ n \in Nat \ {0}
  OBVIOUS
<1>2. [points[a] EXCEPT ![n] = pt] \in Seq(Point) /\ Len([points[a] EXCEPT ![n] = pt]) = n
  BY <1>1
<1>3. points' \in [Account -> Seq(Point)] /\ \A b \in Account : b # a => points'[b] = points[b]
  BY <1>2
<1>4. /\ [points[a] EXCEPT ![n] = pt][n] = pt
      /\ \A i \in 1..(n - 1) : [points[a] EXCEPT ![n] = pt][i] = points[a][i]
  BY <1>1
<1>5. QED
  BY <1>1, <1>2, <1>3, <1>4 DEF Put

\* The steps that write evidence.  In each p's claim is the row and the row is
\* of the selection in force.
Writes(p) ==
    ValidClaim(p) /\ p \in alive /\ run[p].account \in Account

Valued(p) ==
    LET a == run[p].account
    IN  /\ Writes(p) /\ run[p].pc = "C3"
        /\ \A i \in DOMAIN points[a] : points[a][i].asOf < run[p].asOf
        /\ \E pt : /\ Put(a, Len(points[a]) + 1, pt)
                   /\ pt.selection = CurrentEvent /\ pt.stage = "C3" /\ pt.decision = "none"
        /\ UNCHANGED selections

\* pt is the valuation old at a later stage.
Follows(pt, old, stage) ==
    /\ pt.asOf = old.asOf /\ pt.selection = old.selection /\ pt.breach = old.breach
    /\ pt.stage = stage

Measured(p) ==
    LET a == run[p].account
        old == points[a][Len(points[a])]
    IN  /\ Writes(p) /\ points[a] # <<>>
        /\ old.selection = CurrentEvent /\ old.stage = "C3"
        /\ \E pt : /\ Put(a, Len(points[a]), pt) /\ Follows(pt, old, "D")
                   /\ pt.decision = old.decision
        /\ UNCHANGED selections

Decided(p) ==
    LET a == run[p].account
        old == points[a][Len(points[a])]
        d == DecisionAt(a, Len(points[a]))
    IN  /\ Writes(p) /\ points[a] # <<>>
        /\ old.selection = CurrentEvent /\ old.stage = "D" /\ IsSelect(CurrentEvent)
        /\ \E pt : /\ Put(a, Len(points[a]), pt) /\ Follows(pt, old, "E")
                   /\ pt.decision = d
        /\ IF d = "HALT_AND_ROLLBACK"
           THEN \E e : Appends(e) /\ e.reason = "automatic_performance_rollback"
           ELSE UNCHANGED selections

LEMMA StageC3Writes ==
  ASSUME ClaimsInv, points \in [Account -> Seq(Point)], NEW p \in Process, StageC3(p)
  PROVE  UNCHANGED <<points, selections>> \/ Valued(p)
<1> DEFINE a == run[p].account
           k == run[p].asOf
           pt(breach) == [asOf |-> k, selection |-> CurrentEvent, breach |-> breach,
                          stage |-> "C3", decision |-> "none"]
<1>1. run[p].pc = "C3" /\ ValidClaim(p) /\ p \in alive /\ selections' = selections
  BY DEF StageC3, registryVars
<1>2. a \in Account /\ k \in Nat /\ CurrentEvent \in Nat
  BY <1>1 DEF ClaimsInv, Fits, RunState, CurrentEvent
<1>3. SUFFICES ASSUME points' # points PROVE Valued(p)
  BY <1>1
<1>4. /\ \A i \in DOMAIN points[a] : points[a][i].asOf < k
      /\ \E breach \in BOOLEAN : points' = [points EXCEPT ![a] = Append(@, pt(breach))]
  BY <1>3 DEF StageC3
<1>5. PICK breach \in BOOLEAN : points' = [points EXCEPT ![a] = Append(@, pt(breach))]
  BY <1>4
<1>6. pt(breach) \in Point
  BY <1>2 DEF Point, Stage, Decision
<1>7. /\ pt(breach).selection = CurrentEvent /\ pt(breach).stage = "C3"
      /\ pt(breach).decision = "none"
  OBVIOUS
<1> HIDE DEF pt
<1>8. Put(a, Len(points[a]) + 1, pt(breach))
  BY <1>2, <1>5, <1>6, PutNew
<1>9. QED
  BY <1>1, <1>2, <1>4, <1>7, <1>8 DEF Valued, Writes

LEMMA StageDWrites ==
  ASSUME ClaimsInv, points \in [Account -> Seq(Point)], NEW p \in Process, StageD(p),
         points[run[p].account] # <<>>
  PROVE  UNCHANGED <<points, selections>> \/ Measured(p)
<1> DEFINE a == run[p].account
           n == Len(points[a])
           old == points[a][n]
           pt == [old EXCEPT !.stage = "D"]
<1>1. /\ run[p].pc = "D" /\ ValidClaim(p) /\ p \in alive /\ selections' = selections
      /\ old.selection = CurrentEvent
  BY DEF StageD, registryVars
<1>2. a \in Account
  BY <1>1 DEF ClaimsInv, Fits
<1>3. SUFFICES ASSUME points' # points PROVE Measured(p)
  BY <1>1
<1>4. /\ old.stage = "C3"
      /\ points' = [points EXCEPT ![a][n].stage = "D"]
  BY <1>3 DEF StageD
<1>5. points' = [points EXCEPT ![a] = [@ EXCEPT ![n] = pt]]
  BY <1>2, <1>4
<1>6. old \in Point
  BY <1>2
<1> HIDE DEF old
<1>7. /\ pt \in Point /\ Follows(pt, old, "D") /\ pt.decision = old.decision
  BY <1>6 DEF Point, Stage, Follows
<1> HIDE DEF pt
<1>8. Put(a, n, pt)
  BY <1>2, <1>5, <1>7, PutLast
<1>9. QED
  BY <1>1, <1>2, <1>4, <1>7, <1>8 DEF Measured, Writes, old

LEMMA StageEWrites ==
  ASSUME ClaimsInv, RegistryInv, points \in [Account -> Seq(Point)],
         NEW p \in Process, StageE(p), points[run[p].account] # <<>>
  PROVE  UNCHANGED <<points, selections>> \/ Decided(p)
<1> DEFINE a == run[p].account
           n == Len(points[a])
           old == points[a][n]
           d == DecisionAt(a, n)
           pt == [old EXCEPT !.stage = "E", !.decision = d]
<1>1. /\ run[p].pc = "E" /\ ValidClaim(p) /\ p \in alive
      /\ old.selection = CurrentEvent
  BY DEF StageE
<1>2. a \in Account /\ now \in Nat
  BY <1>1 DEF ClaimsInv, Fits, LeaseInv
<1>3. CASE old.stage = "E"
  BY <1>3 DEF StageE, registryVars
<1>4. CASE old.stage # "E"
  <2>1. /\ old.stage = "D" /\ IsSelect(CurrentEvent)
        /\ points' = [points EXCEPT ![a][n].stage = "E", ![a][n].decision = d]
        /\ IF d = "HALT_AND_ROLLBACK" THEN PolicyRollback(p) ELSE UNCHANGED selections
    BY <1>4 DEF StageE, MayDecide, registryVars
  <2> HIDE DEF d
  <2>2. points' = [points EXCEPT ![a] = [@ EXCEPT ![n] = pt]]
    BY <1>2, <2>1
  <2>3. old \in Point
    BY <1>2
  <2>4. d \in Decision
    BY EvaluateIs DEF DecisionAt, d
  <2> HIDE DEF old
  <2>5. pt \in Point /\ Follows(pt, old, "E") /\ pt.decision = d
    BY <2>3, <2>4 DEF Point, Stage, Follows
  <2> HIDE DEF pt
  <2>6. Put(a, n, pt)
    BY <1>2, <2>2, <2>5, PutLast
  <2>7. d = "HALT_AND_ROLLBACK"
        => \E e : Appends(e) /\ e.reason = "automatic_performance_rollback"
    <3> SUFFICES ASSUME d = "HALT_AND_ROLLBACK"
                 PROVE  \E e : Appends(e) /\ e.reason = "automatic_performance_rollback"
      OBVIOUS
    <3>1. RollbackPaperCandidate(lease.selection, "automatic_performance_rollback", now)
      BY <2>1 DEF PolicyRollback
    <3>2. QED
      BY <1>2, <3>1, RollbackAppends DEF RollbackReason
  <2>8. QED
    BY <1>1, <1>2, <2>1, <2>5, <2>6, <2>7 DEF Decided, Writes, old, d
<1>5. QED
  BY <1>3, <1>4

\* What holds of every run that is in a stage: behind C3 there is a valuation,
\* and before it the run aims at a close not behind the unfinished valuation of
\* the selection its row names, because nobody else writes while it holds the row.
RunFits(p) ==
    LET a == run[p].account
    IN  /\ run[p].pc \in {"beatD", "D", "beatE", "E"} => points[a] # <<>>
        /\ /\ run[p].pc \in {"beatC3", "C3"} /\ Owns(p)
           /\ IsUnfinished(a) /\ Newest(a).selection = lease.selection
           => run[p].asOf <= Newest(a).asOf

Halts(a, i) == points[a][i].decision = "HALT_AND_ROLLBACK"

EndedByPolicy(s) ==
    s < CurrentEvent /\ selections[s + 1].reason = "automatic_performance_rollback"

\* Every valuation names an event, and one that halts the event it ended.
PointsFit ==
    \A a \in Account : \A i \in DOMAIN points[a] :
        /\ points[a][i].selection \in 1..CurrentEvent
        /\ Halts(a, i) => IsComplete(points[a][i]) /\ EndedByPolicy(points[a][i].selection)

\* No event was ended by two valuations, and each automatic rollback has one.
HaltsFit ==
    /\ \A a, b \in Account : \A i \in DOMAIN points[a], j \in DOMAIN points[b] :
          Halts(a, i) /\ Halts(b, j) /\ points[a][i].selection = points[b][j].selection
          => a = b /\ i = j
    /\ \A s \in 1..CurrentEvent : EndedByPolicy(s) =>
          \E a \in Account : \E i \in DOMAIN points[a] :
              points[a][i].selection = s /\ Halts(a, i)

\* Inductive with ClaimsInv and RegistryInv.
EvidenceInv ==
    /\ evidence \subseteq Result /\ closes \subseteq Nat /\ armed \subseteq Account
    /\ alive \subseteq Process
    /\ points \in [Account -> Seq(Point)]
    /\ \A p \in Process : RunFits(p)
    /\ PointsFit /\ HaltsFit
    /\ LossNeverSkipped /\ DecisionsReplay

ManuallyChanged ==
    /\ UNCHANGED points
    /\ \E e : Appends(e) /\ e.reason # "automatic_performance_rollback"

\* What a step does to the evidence, and which process moves.
EvidenceStep ==
    \/ UNCHANGED <<points, selections>>
    \/ ManuallyChanged
    \/ \E p \in Process : Valued(p) \/ Measured(p) \/ Decided(p)

LEMMA EvidenceSteps ==
  ASSUME ClaimsInv, RegistryInv, EvidenceInv, [RunNext]_allVars
  PROVE  EvidenceStep /\ UNCHANGED evidence
<1>1. now \in Nat /\ points \in [Account -> Seq(Point)]
  BY DEF ClaimsInv, LeaseInv, EvidenceInv
<1>2. ASSUME NEW p \in Process, StageC3(p) \/ StageD(p) \/ StageE(p)
      PROVE  EvidenceStep /\ UNCHANGED evidence
  <2>1. evidence' = evidence
    BY <1>2 DEF StageC3, StageD, StageE, registryVars, PolicyRollback, RollbackPaperCandidate
  <2>2. run[p].pc \in {"D", "E"} => points[run[p].account] # <<>>
    BY DEF EvidenceInv, RunFits
  <2>3. StageD(p) \/ StageE(p) => run[p].pc \in {"D", "E"}
    BY DEF StageD, StageE
  <2>4. QED
    BY <1>1, <1>2, <2>1, <2>2, <2>3, StageC3Writes, StageDWrites, StageEWrites DEF EvidenceStep
<1>3. ASSUME NEW p \in Process, RunStep(p), ~(StageC3(p) \/ StageD(p) \/ StageE(p))
      PROVE  UNCHANGED <<points, selections, evidence>>
  BY <1>3 DEF RunStep, Check, AcquireForRun, Acquire, AcquireRefused, Prepare, Beat, Heartbeat,
         MarksIncomplete, RunFails, LoopHeartbeat, LoopHeartbeatFails, CancelWait, ReleaseRun,
         Release, vars, registryVars
<1>4. ASSUME NEW p \in Process, KillRun(p) PROVE UNCHANGED <<points, selections, evidence>>
  BY <1>4 DEF KillRun, Kill, registryVars
<1>5. ASSUME NEW p \in Process, NEW kind \in {"once", "loop"}, NEW a \in Account,
             Start(p, kind, a)
      PROVE  UNCHANGED <<points, selections, evidence>>
  BY <1>5 DEF Start, vars, registryVars
<1>6. ASSUME NEW r \in Result, Select(r) PROVE EvidenceStep /\ UNCHANGED evidence
  <2>1. SelectPaperCandidate(r, CurrentEvent, now) /\ points' = points
    BY <1>6 DEF Select, ManualSelect, policyVars
  <2>2. evidence' = evidence
    BY <2>1 DEF SelectPaperCandidate
  <2>3. \E e : Appends(e) /\ e.reason = "manual_selection"
    BY <1>1, <2>1, SelectAppends
  <2>4. QED
    BY <2>1, <2>2, <2>3 DEF EvidenceStep, ManuallyChanged
<1>7. ASSUME RollBack PROVE EvidenceStep /\ UNCHANGED evidence
  <2>1. RollbackPaperCandidate(CurrentEvent, "manual_rollback", now) /\ points' = points
    BY <1>7 DEF RollBack, ManualRollback
  <2>2. evidence' = evidence
    BY <2>1 DEF RollbackPaperCandidate
  <2>3. \E e : Appends(e) /\ e.reason = "manual_rollback"
    BY <1>1, <2>1, RollbackAppends DEF RollbackReason
  <2>4. QED
    BY <2>1, <2>2, <2>3 DEF EvidenceStep, ManuallyChanged
<1>8. CASE (\E a \in Account : ArmAccount(a)) \/ PublishClose \/ TimeMoves \/ UNCHANGED allVars
  BY <1>8 DEF ArmAccount, PublishClose, TimeMoves, Tick, SetBack, allVars, vars, registryVars,
          policyVars, EvidenceStep
<1>9. QED
  BY <1>2, <1>3, <1>4, <1>5, <1>6, <1>7, <1>8 DEF RunNext, EvidenceStep

\* A step adds an event to the history or leaves it; what is there stays.
LEMMA HistoryGrows ==
  ASSUME RegistryInv, EvidenceStep
  PROVE  /\ CurrentEvent \in Nat /\ CurrentEvent' \in Nat
         /\ CurrentEvent <= CurrentEvent'
         /\ \A s \in 1..CurrentEvent : selections'[s] = selections[s]
<1>1. selections \in Seq(SelectionEvent)
  BY DEF RegistryInv
<1>2. selections' = selections \/ \E e : Appends(e)
  BY DEF EvidenceStep, ManuallyChanged, Valued, Measured, Decided
<1>3. ASSUME NEW e, Appends(e)
      PROVE  /\ CurrentEvent \in Nat /\ CurrentEvent' \in Nat
             /\ CurrentEvent <= CurrentEvent'
             /\ \A s \in 1..CurrentEvent : selections'[s] = selections[s]
  BY <1>1, <1>3 DEF Appends, CurrentEvent
<1>4. QED
  BY <1>1, <1>2, <1>3 DEF CurrentEvent

-----------------------------------------------------------------------------
(* The invariants are kept: the claims.                                      *)

LEMMA RunStepKinds ==
  ASSUME ClaimsInv, [RunNext]_allVars
  PROVE  LeaseStep
<1>0. LeaseInv
  BY DEF ClaimsInv
<1>1. ASSUME NEW p \in Process, AcquireForRun(p) PROVE LeaseStep
  <2> DEFINE a == run[p].account
  <2>1. Acquire(p, a) /\ a \in Account
    BY <1>1 DEF AcquireForRun, ClaimsInv, Fits
  <2> HIDE DEF a
  <2>2. CASE MayRetry(p, a)
    BY <1>0, <2>1, <2>2 DEF Acquire, SetLease, MayRetry, Untouched, LeaseInv, LeaseStep
  <2>3. CASE ~MayRetry(p, a)
    BY <2>1, <2>3 DEF Acquire, SetLease, CanAcquire, Taken, LeaseStep
  <2>4. QED
    BY <2>2, <2>3
<1>2. ASSUME NEW p \in Process, ValidClaim(p), SetLease(p, Renewed), now' = now PROVE LeaseStep
  BY <1>2 DEF SetLease, Kept, LeaseStep
<1>3. ASSUME NEW p \in Process, UNCHANGED <<lease, now>>,
             claim' = claim \/ claim' = [claim EXCEPT ![p] = NoClaim]
      PROVE  LeaseStep
  BY <1>0, <1>3 DEF Untouched, LeaseInv, LeaseStep
<1>4. ASSUME NEW p \in Process, StageC3(p) \/ StageD(p) \/ StageE(p) PROVE LeaseStep
  <2>1. \/ ValidClaim(p) /\ SetLease(p, Renewed) /\ now' = now
        \/ UNCHANGED <<lease, now, claim>>
    BY <1>4 DEF StageC3, StageD, StageE, RenewInStage, PolicyRollback, leaseVars
  <2>2. QED
    BY <1>2, <1>3, <2>1
<1>5. ASSUME NEW p \in Process, ReleaseRun(p) PROVE LeaseStep
  <2>1. CASE claim[p] # NoClaim /\ claim[p] = lease
    BY <1>5, <2>1 DEF ReleaseRun, Release, GivenUp, LeaseStep
  <2>2. CASE ~(claim[p] # NoClaim /\ claim[p] = lease)
    BY <1>3, <1>5, <2>2 DEF ReleaseRun
  <2>3. QED
    BY <2>1, <2>2
<1>6. ASSUME NEW p \in Process, LoopHeartbeat(p) \/ \E stage \in Stage : Beat(p, stage)
      PROVE  LeaseStep
  BY <1>2, <1>6 DEF LoopHeartbeat, Beat, Heartbeat
<1>7. ASSUME NEW p \in Process, LoopHeartbeatFails(p) \/ KillRun(p) PROVE LeaseStep
  BY <1>3, <1>7 DEF LoopHeartbeatFails, KillRun, Kill
<1>8. ASSUME UNCHANGED <<lease, claim>>, now' \in Nat \ {0} PROVE LeaseStep
  BY <1>8 DEF Untouched, LeaseStep
<1>9. ASSUME UNCHANGED leaseVars PROVE LeaseStep
  BY <1>0, <1>8, <1>9 DEF leaseVars, LeaseInv
<1>10. ASSUME NEW p \in Process,
              Check(p) \/ AcquireRefused(p) \/ Prepare(p) \/ MarksIncomplete(p) \/ RunFails(p)
              \/ CancelWait(p)
       PROVE  LeaseStep
  BY <1>9, <1>10 DEF Check, AcquireRefused, Prepare, MarksIncomplete, RunFails, CancelWait, vars
<1>11. ASSUME NEW p \in Process, RunStep(p) PROVE LeaseStep
  BY <1>1, <1>4, <1>5, <1>6, <1>7, <1>10, <1>11 DEF RunStep
<1>12. ASSUME NEW p \in Process, NEW kind, NEW a, Start(p, kind, a) PROVE LeaseStep
  BY <1>9, <1>12 DEF Start, vars
<1>13. CASE \/ (\E r \in Result : Select(r)) \/ RollBack
            \/ (\E a \in Account : ArmAccount(a)) \/ PublishClose \/ UNCHANGED allVars
  BY <1>9, <1>13 DEF Select, ManualSelect, RollBack, ManualRollback, ArmAccount, PublishClose,
         allVars, vars
<1>14. CASE TimeMoves
  BY <1>0, <1>8, <1>14 DEF TimeMoves, Tick, SetBack, LeaseInv
<1>15. QED
  BY <1>7, <1>11, <1>12, <1>13, <1>14 DEF RunNext

Still == UNCHANGED <<run, claim, lease, alive>>

LEMMA RunMoves ==
  ASSUME ClaimsInv, EvidenceInv, [RunNext]_allVars
  PROVE  (\E p \in Process : Moved(p)) \/ Still
<1>1. \A a \in Account : DueClose(a) \in Nat
  BY DueCloseIsNat DEF ClaimsInv, LeaseInv, EvidenceInv
<1>2. ASSUME NEW p \in Process, RunStep(p) \/ KillRun(p) PROVE Moved(p)
  BY <1>1, <1>2, StepMoves, EndMoves
<1>3. ASSUME NEW p \in Process, NEW kind \in {"once", "loop"}, NEW a \in Account,
             Start(p, kind, a)
      PROVE  Moved(p)
  BY <1>3, StartMoves
<1>4. CASE \/ (\E r \in Result : Select(r)) \/ RollBack
           \/ (\E a \in Account : ArmAccount(a)) \/ PublishClose \/ TimeMoves
           \/ UNCHANGED allVars
  BY <1>4 DEF Select, ManualSelect, RollBack, ManualRollback, ArmAccount, PublishClose,
         TimeMoves, Tick, SetBack, allVars, vars, leaseVars, policyVars, Still
<1>5. QED
  BY <1>2, <1>3, <1>4 DEF RunNext

LEMMA NextClaims ==
  ASSUME ClaimsInv, RegistryInv', EvidenceInv, [RunNext]_allVars
  PROVE  ClaimsInv'
<1>1. selections' \in Seq(SelectionEvent)
  BY DEF RegistryInv
<1>2. LeaseInv'
  <2>1. \E S : selections' \in Seq(S)
    BY <1>1
  <2>2. LeaseStep /\ LeaseInv
    BY RunStepKinds DEF ClaimsInv
  <2>3. QED
    BY <2>1, <2>2, LeaseStepKeeps
<1>3. CASE Still
  BY <1>1, <1>2, <1>3 DEF ClaimsInv, Still, Fits, Releases, Owns
<1>4. ASSUME NEW p \in Process, Moved(p) PROVE ClaimsInv'
  <2>1. ASSUME NEW q \in Process, q # p PROVE Fits(q)' /\ Releases(q)'
    <3>1. /\ run'[q] = run[q] /\ claim'[q] = claim[q] /\ alive' \subseteq alive
          /\ lease' = lease \/ lease'.owner \in {p, NoOwner}
      BY <1>4, <2>1 DEF Moved, OthersKept
    <3>2. Fits(q) /\ Releases(q) /\ q # NoOwner
      BY LeaseAssumption DEF ClaimsInv
    <3>3. QED
      BY <2>1, <3>1, <3>2 DEF Fits, Releases, Owns
  <2>2. QED
    BY <1>1, <1>2, <1>4, <2>1 DEF ClaimsInv, Moved
<1>5. QED
  BY <1>3, <1>4, RunMoves

-----------------------------------------------------------------------------
(* The evidence is kept.                                                     *)

\* What is written stays, but for the stage and decision of an unfinished
\* valuation; and the account of the writer is the only one that changes.
LEMMA EvidenceStays ==
  ASSUME ClaimsInv, RegistryInv, EvidenceInv, EvidenceStep
  PROVE  /\ points' \in [Account -> Seq(Point)]
         /\ \A a \in Account : \A i \in DOMAIN points[a] :
               /\ i \in DOMAIN points'[a]
               /\ points'[a][i].asOf = points[a][i].asOf
               /\ points'[a][i].selection = points[a][i].selection
               /\ points'[a][i].breach = points[a][i].breach
               /\ IsComplete(points[a][i]) => points'[a][i] = points[a][i]
<1>1. points \in [Account -> Seq(Point)]
  BY DEF EvidenceInv
<1>2. CASE UNCHANGED points
  BY <1>1, <1>2
<1>3. ASSUME NEW p \in Process, Valued(p)
      PROVE  /\ points' \in [Account -> Seq(Point)]
             /\ \A b \in Account : \A i \in DOMAIN points[b] :
                   i \in DOMAIN points'[b] /\ points'[b][i] = points[b][i]
  <2> DEFINE a == run[p].account
             n == Len(points[a]) + 1
  <2>1. PICK pt : Put(a, n, pt)
    BY <1>3 DEF Valued
  <2>2. a \in Account
    BY <1>3 DEF Valued, Writes
  <2> HIDE DEF a
  <2>3. /\ points' \in [Account -> Seq(Point)] /\ Len(points'[a]) = n
        /\ \A i \in 1..(n - 1) : points'[a][i] = points[a][i]
        /\ \A b \in Account : b # a => points'[b] = points[b]
    BY <2>1 DEF Put
  <2>4. \A i \in DOMAIN points[a] : i \in 1..(n - 1) /\ i \in DOMAIN points'[a]
    BY <1>1, <2>2, <2>3
  <2>5. QED
    BY <2>3, <2>4
<1>4. ASSUME NEW p \in Process, Measured(p) \/ Decided(p)
      PROVE  /\ points' \in [Account -> Seq(Point)]
             /\ \A b \in Account : \A i \in DOMAIN points[b] :
                   /\ i \in DOMAIN points'[b]
                   /\ points'[b][i].asOf = points[b][i].asOf
                   /\ points'[b][i].selection = points[b][i].selection
                   /\ points'[b][i].breach = points[b][i].breach
                   /\ IsComplete(points[b][i]) => points'[b][i] = points[b][i]
  <2> DEFINE a == run[p].account
             n == Len(points[a])
             old == points[a][n]
  <2>1. PICK pt : /\ Put(a, n, pt) /\ pt.asOf = old.asOf /\ pt.selection = old.selection
                  /\ pt.breach = old.breach
    BY <1>4 DEF Measured, Decided, Follows
  <2>2. a \in Account /\ ~IsComplete(old)
    BY <1>4 DEF Measured, Decided, Writes, IsComplete
  <2> HIDE DEF a
  <2>3. /\ points' \in [Account -> Seq(Point)] /\ Len(points'[a]) = n /\ n \in Nat \ {0}
        /\ points'[a][n] = pt
        /\ \A i \in 1..(n - 1) : points'[a][i] = points[a][i]
        /\ \A b \in Account : b # a => points'[b] = points[b]
    BY <2>1 DEF Put
  <2>4. \A i \in DOMAIN points[a] : (i = n \/ i \in 1..(n - 1)) /\ i \in DOMAIN points'[a]
    BY <1>1, <2>2, <2>3
  <2>5. QED
    BY <2>1, <2>2, <2>3, <2>4
<1>5. QED
  BY <1>2, <1>3, <1>4 DEF EvidenceStep, ManuallyChanged

\* The window of a valuation is what it was when the valuation was stored.
LEMMA WindowStays ==
  ASSUME ClaimsInv, RegistryInv, EvidenceInv, EvidenceStep,
         NEW a \in Account, NEW i \in DOMAIN points[a]
  PROVE  Window(a, i)' = Window(a, i)
<1> DEFINE s == points[a][i].selection
<1>1. s \in 1..CurrentEvent /\ points'[a][i].selection = s
  BY EvidenceStays DEF EvidenceInv, PointsFit
<1>2. selections'[s] = selections[s]
  BY <1>1, HistoryGrows
<1>3. points[a] \in Seq(Point)
  BY DEF EvidenceInv
<1>4. \A j \in 1..i : j \in DOMAIN points[a]
  BY <1>3
<1>5. \A j \in 1..i : /\ points'[a][j].selection = points[a][j].selection
                      /\ points'[a][j].asOf = points[a][j].asOf
  BY <1>4, EvidenceStays
<1> HIDE DEF s
<1>6. {j \in 1..i : points'[a][j].selection = s /\ points'[a][j].asOf >= selections'[s].at}
      = {j \in 1..i : points[a][j].selection = s /\ points[a][j].asOf >= selections[s].at}
  BY <1>2, <1>5
<1>7. QED
  BY <1>1, <1>6 DEF Window, s

LEMMA WriterIsCurrent ==
  ASSUME ClaimsInv, NEW p \in Process, Writes(p)
  PROVE  /\ CurrentEvent \in Nat \ {0} /\ lease.selection = CurrentEvent
         /\ lease.owner = p /\ Owns(p) /\ lease.account = run[p].account
         /\ now < lease.expires
<1>1. /\ claim[p] # NoClaim /\ claim[p] = lease /\ lease.selection = CurrentEvent
      /\ lease.owner = p /\ now < lease.expires
  BY DEF Writes, ValidClaim, HoldsLease
<1>2. claim[p].selection > 0 /\ claim[p].account = run[p].account
  BY <1>1 DEF ClaimsInv, Fits
<1>3. CurrentEvent \in Nat
  BY DEF ClaimsInv, CurrentEvent
<1>4. QED
  BY <1>1, <1>2, <1>3 DEF Owns

\* What the i-th valuation of account a is after a step.
IsSame(a, i) == i \in DOMAIN points[a] /\ points'[a][i] = points[a][i]

IsNew(a, i) ==
    /\ i = Len(points[a]) + 1
    /\ points'[a][i].selection = CurrentEvent
    /\ points'[a][i].stage = "C3" /\ points'[a][i].decision = "none"
    /\ UNCHANGED selections
    /\ \E p \in Process : Valued(p) /\ run[p].account = a

IsMeasured(a, i) ==
    /\ i \in DOMAIN points[a] /\ ~IsComplete(points[a][i])
    /\ points'[a][i].selection = points[a][i].selection
    /\ points'[a][i].stage = "D" /\ points'[a][i].decision = points[a][i].decision
    /\ UNCHANGED selections

IsDecided(a, i) ==
    /\ i \in DOMAIN points[a] /\ ~IsComplete(points[a][i])
    /\ points[a][i].selection = CurrentEvent /\ points'[a][i].selection = CurrentEvent
    /\ points'[a][i].breach = points[a][i].breach
    /\ points'[a][i].stage = "E" /\ points'[a][i].decision = DecisionAt(a, i)
    /\ CurrentEvent \in Nat \ {0} /\ IsSelect(CurrentEvent)
    /\ IF DecisionAt(a, i) = "HALT_AND_ROLLBACK"
       THEN \E e : Appends(e) /\ e.reason = "automatic_performance_rollback"
       ELSE UNCHANGED selections
    /\ \A b \in Account : \A j \in DOMAIN points'[b] : IsSame(b, j) \/ (b = a /\ j = i)

LEMMA PutKinds ==
  ASSUME points \in [Account -> Seq(Point)], NEW a \in Account, NEW pt,
         NEW n \in {Len(points[a]), Len(points[a]) + 1}, Put(a, n, pt)
  PROVE  /\ points'[a][n] = pt
         /\ \A b \in Account : \A j \in DOMAIN points'[b] : IsSame(b, j) \/ (b = a /\ j = n)
<1>1. /\ points' \in [Account -> Seq(Point)] /\ Len(points'[a]) = n /\ points'[a][n] = pt
      /\ \A i \in 1..(n - 1) : points'[a][i] = points[a][i]
      /\ \A b \in Account : b # a => points'[b] = points[b]
      /\ n \in Nat \ {0}
  BY DEF Put
<1>2. points[a] \in Seq(Point) /\ points'[a] \in Seq(Point)
  BY <1>1
<1>3. \A j \in DOMAIN points'[a] : j = n \/ (j \in 1..(n - 1) /\ j \in DOMAIN points[a])
  BY <1>1, <1>2
<1>4. QED
  BY <1>1, <1>3 DEF IsSame

LEMMA WhatIsWritten ==
  ASSUME ClaimsInv, RegistryInv, EvidenceInv, EvidenceStep,
         NEW a \in Account, NEW i \in DOMAIN points'[a]
  PROVE  IsSame(a, i) \/ IsNew(a, i) \/ IsMeasured(a, i) \/ IsDecided(a, i)
<1>1. points \in [Account -> Seq(Point)]
  BY DEF EvidenceInv
<1>2. CASE UNCHANGED points
  BY <1>2 DEF IsSame
<1>3. ASSUME NEW p \in Process, Valued(p) PROVE IsSame(a, i) \/ IsNew(a, i)
  <2> DEFINE b == run[p].account
             n == Len(points[b]) + 1
  <2>1. PICK pt : /\ Put(b, n, pt)
                  /\ pt.selection = CurrentEvent /\ pt.stage = "C3" /\ pt.decision = "none"
    BY <1>3 DEF Valued
  <2>2. b \in Account /\ UNCHANGED selections
    BY <1>3 DEF Valued, Writes
  <2> HIDE DEF b
  <2>3. points'[b][n] = pt /\ (IsSame(a, i) \/ (a = b /\ i = n))
    BY <1>1, <2>1, <2>2, PutKinds
  <2>4. QED
    BY <1>3, <2>1, <2>2, <2>3 DEF IsNew, b
<1>4. ASSUME NEW p \in Process, Measured(p) PROVE IsSame(a, i) \/ IsMeasured(a, i)
  <2> DEFINE b == run[p].account
             n == Len(points[b])
  <2>1. PICK pt : Put(b, n, pt) /\ Follows(pt, points[b][n], "D")
                  /\ pt.decision = points[b][n].decision
    BY <1>4 DEF Measured
  <2>2. b \in Account /\ UNCHANGED selections /\ ~IsComplete(points[b][n]) /\ points[b] # <<>>
    BY <1>4 DEF Measured, Writes, IsComplete
  <2> HIDE DEF b
  <2>3. points'[b][n] = pt /\ (IsSame(a, i) \/ (a = b /\ i = n)) /\ n \in DOMAIN points[b]
    BY <1>1, <2>1, <2>2, PutKinds
  <2>4. QED
    BY <2>1, <2>2, <2>3 DEF IsMeasured, Follows
<1>5. ASSUME NEW p \in Process, Decided(p) PROVE IsSame(a, i) \/ IsDecided(a, i)
  <2> DEFINE b == run[p].account
             n == Len(points[b])
             d == DecisionAt(b, n)
  <2>1. PICK pt : Put(b, n, pt) /\ Follows(pt, points[b][n], "E") /\ pt.decision = d
    BY <1>5 DEF Decided
  <2>2. /\ b \in Account /\ points[b] # <<>> /\ ~IsComplete(points[b][n])
        /\ points[b][n].selection = CurrentEvent /\ IsSelect(CurrentEvent)
        /\ IF d = "HALT_AND_ROLLBACK"
           THEN \E e : Appends(e) /\ e.reason = "automatic_performance_rollback"
           ELSE UNCHANGED selections
    BY <1>5 DEF Decided, Writes, IsComplete
  <2>3. CurrentEvent \in Nat \ {0}
    BY <1>5, WriterIsCurrent DEF Decided
  <2> HIDE DEF b
  <2>4. /\ points'[b][n] = pt /\ n \in DOMAIN points[b]
        /\ \A c \in Account : \A j \in DOMAIN points'[c] : IsSame(c, j) \/ (c = b /\ j = n)
    BY <1>1, <2>1, <2>2, PutKinds
  <2>5. IsDecided(b, n)
    BY <2>1, <2>2, <2>3, <2>4 DEF IsDecided, Follows
  <2>6. QED
    BY <2>4, <2>5
<1>6. QED
  BY <1>2, <1>3, <1>4, <1>5 DEF EvidenceStep, ManuallyChanged

LEMMA EndedStays ==
  ASSUME RegistryInv, EvidenceStep, NEW s \in 1..CurrentEvent, EndedByPolicy(s)
  PROVE  EndedByPolicy(s)'
<1>1. s + 1 \in 1..CurrentEvent
  BY HistoryGrows DEF EndedByPolicy
<1>2. selections'[s + 1] = selections[s + 1]
  BY <1>1, HistoryGrows
<1>3. QED
  BY <1>2, HistoryGrows DEF EndedByPolicy

\* The rollback appended by a decision ends the event in force.
LEMMA EndedNow ==
  ASSUME RegistryInv, NEW e, Appends(e), NEW s, s = CurrentEvent
  PROVE  /\ CurrentEvent' = s + 1 /\ selections'[s + 1] = e /\ s \in Nat
         /\ e.reason = "automatic_performance_rollback" => EndedByPolicy(s)'
<1>1. selections \in Seq(SelectionEvent) /\ selections' = Append(selections, e)
  BY DEF RegistryInv, Appends
<1>2. CurrentEvent' = s + 1 /\ selections'[s + 1] = e /\ s \in Nat
  BY <1>1 DEF CurrentEvent
<1>3. QED
  BY <1>2 DEF EndedByPolicy

LEMMA PointsStayFit ==
  ASSUME ClaimsInv, RegistryInv, EvidenceInv, EvidenceStep
  PROVE  PointsFit'
<1>0. PointsFit /\ CurrentEvent \in Nat /\ CurrentEvent' \in Nat /\ CurrentEvent <= CurrentEvent'
  BY HistoryGrows DEF EvidenceInv
<1>1. ASSUME NEW a \in Account, NEW i \in DOMAIN points'[a],
             NEW s, s = points'[a][i].selection
      PROVE  /\ s \in 1..CurrentEvent'
             /\ points'[a][i].decision = "HALT_AND_ROLLBACK"
                => points'[a][i].stage = "E" /\ EndedByPolicy(s)'
  <2>1. CASE IsSame(a, i)
    <3>1. /\ points'[a][i] = points[a][i] /\ s \in 1..CurrentEvent
          /\ points[a][i].decision = "HALT_AND_ROLLBACK"
             => points[a][i].stage = "E" /\ EndedByPolicy(s)
      BY <1>0, <1>1, <2>1 DEF PointsFit, IsSame, Halts, IsComplete
    <3>2. EndedByPolicy(s) => EndedByPolicy(s)'
      BY <3>1, EndedStays
    <3>3. QED
      BY <1>0, <3>1, <3>2
  <2>2. CASE IsNew(a, i)
    <3>1. CurrentEvent \in Nat \ {0}
      BY <2>2, WriterIsCurrent DEF IsNew, Valued
    <3>2. QED
      BY <1>0, <1>1, <2>2, <3>1 DEF IsNew
  <2>3. CASE IsMeasured(a, i)
    <3>1. s \in 1..CurrentEvent /\ points[a][i].decision # "HALT_AND_ROLLBACK"
      BY <1>0, <1>1, <2>3 DEF PointsFit, IsMeasured, Halts
    <3>2. QED
      BY <1>0, <2>3, <3>1 DEF IsMeasured
  <2>4. CASE IsDecided(a, i)
    <3>1. s = CurrentEvent /\ s \in 1..CurrentEvent'
      BY <1>0, <1>1, <2>4 DEF IsDecided
    <3>2. CASE DecisionAt(a, i) = "HALT_AND_ROLLBACK"
      <4>1. PICK e : Appends(e) /\ e.reason = "automatic_performance_rollback"
        BY <2>4, <3>2 DEF IsDecided
      <4>2. EndedByPolicy(s)'
        BY <3>1, <4>1, EndedNow
      <4>3. QED
        BY <2>4, <3>1, <4>2 DEF IsDecided
    <3>3. CASE DecisionAt(a, i) # "HALT_AND_ROLLBACK"
      BY <2>4, <3>1, <3>3 DEF IsDecided
    <3>4. QED
      BY <3>2, <3>3
  <2>5. QED
    BY <2>1, <2>2, <2>3, <2>4, WhatIsWritten
<1>2. QED
  BY <1>1 DEF PointsFit, Halts, IsComplete, EndedByPolicy

\* A valuation that halts after a step did so before it, or is the one decided
\* now, for the event in force.
LEMMA HaltsAre ==
  ASSUME ClaimsInv, RegistryInv, EvidenceInv, EvidenceStep,
         NEW a \in Account, NEW i \in DOMAIN points'[a],
         points'[a][i].decision = "HALT_AND_ROLLBACK"
  PROVE  \/ /\ IsSame(a, i) /\ Halts(a, i)
            /\ points[a][i].selection < CurrentEvent
         \/ IsDecided(a, i) /\ points'[a][i].selection = CurrentEvent
<1>1. PointsFit
  BY DEF EvidenceInv
<1>2. ~IsNew(a, i)
  BY DEF IsNew
<1>3. ~IsMeasured(a, i)
  BY <1>1 DEF PointsFit, IsMeasured, Halts
<1>4. CASE IsSame(a, i)
  BY <1>1, <1>4 DEF PointsFit, IsSame, Halts, EndedByPolicy
<1>5. CASE IsDecided(a, i)
  BY <1>5 DEF IsDecided
<1>6. QED
  BY <1>2, <1>3, <1>4, <1>5, WhatIsWritten

LEMMA HaltsStayFit ==
  ASSUME ClaimsInv, RegistryInv, EvidenceInv, EvidenceStep
  PROVE  HaltsFit'
<1>0. /\ HaltsFit /\ PointsFit /\ CurrentEvent \in Nat /\ CurrentEvent' \in Nat
      /\ CurrentEvent <= CurrentEvent'
  BY HistoryGrows DEF EvidenceInv
<1>1. ASSUME NEW a \in Account, NEW b \in Account,
             NEW i \in DOMAIN points'[a], NEW j \in DOMAIN points'[b],
             points'[a][i].decision = "HALT_AND_ROLLBACK",
             points'[b][j].decision = "HALT_AND_ROLLBACK",
             points'[a][i].selection = points'[b][j].selection
      PROVE  a = b /\ i = j
  <2>1. CASE IsDecided(a, i)
    <3>1. points'[b][j].selection = CurrentEvent
      BY <1>1, <2>1 DEF IsDecided
    <3>2. ~IsSame(b, j) \/ ~(points[b][j].selection < CurrentEvent)
      BY <1>0, <3>1 DEF IsSame
    <3>3. IsDecided(b, j)
      BY <1>1, <3>2, HaltsAre
    <3>4. ~IsSame(b, j)
      BY <3>3 DEF IsSame, IsDecided, IsComplete
    <3>5. QED
      BY <2>1, <3>4 DEF IsDecided
  <2>2. CASE ~IsDecided(a, i)
    <3>1. IsSame(a, i) /\ Halts(a, i) /\ points[a][i].selection < CurrentEvent
      BY <1>1, <2>2, HaltsAre
    <3>2. points'[b][j].selection # CurrentEvent
      BY <1>0, <1>1, <3>1 DEF IsSame
    <3>3. IsSame(b, j) /\ Halts(b, j)
      BY <1>1, <3>2, HaltsAre
    <3>4. QED
      BY <1>0, <1>1, <3>1, <3>3 DEF HaltsFit, IsSame
  <2>3. QED
    BY <2>1, <2>2
<1>2. ASSUME NEW s \in 1..CurrentEvent', EndedByPolicy(s)'
      PROVE  \E a \in Account : \E i \in DOMAIN points'[a] :
                points'[a][i].selection = s /\ points'[a][i].decision = "HALT_AND_ROLLBACK"
  <2>1. CASE s < CurrentEvent
    <3>1. s \in 1..CurrentEvent /\ s + 1 \in 1..CurrentEvent
      BY <1>0, <2>1
    <3>2. selections'[s + 1] = selections[s + 1]
      BY <3>1, HistoryGrows
    <3>3. EndedByPolicy(s)
      BY <1>2, <2>1, <3>2 DEF EndedByPolicy
    <3>4. PICK a \in Account : \E i \in DOMAIN points[a] :
             points[a][i].selection = s /\ Halts(a, i)
      BY <1>0, <3>1, <3>3 DEF HaltsFit
    <3>5. PICK i \in DOMAIN points[a] : points[a][i].selection = s /\ Halts(a, i)
      BY <3>4
    <3>6. IsComplete(points[a][i])
      BY <1>0, <3>5 DEF PointsFit
    <3>7. i \in DOMAIN points'[a] /\ points'[a][i] = points[a][i]
      BY <3>6, EvidenceStays
    <3>8. QED
      BY <3>5, <3>7 DEF Halts
  <2>2. CASE ~(s < CurrentEvent)
    <3>1. s < CurrentEvent' /\ selections'[s + 1].reason = "automatic_performance_rollback"
      BY <1>2 DEF EndedByPolicy
    <3>2. CurrentEvent' # CurrentEvent
      BY <1>0, <2>2, <3>1
    <3>3. selections' # selections
      BY <3>2 DEF CurrentEvent
    <3>4. ASSUME NEW e, Appends(e) PROVE s = CurrentEvent /\ selections'[s + 1] = e
      <4>1. CurrentEvent' = CurrentEvent + 1 /\ selections'[CurrentEvent + 1] = e
        BY <3>4, EndedNow
      <4>2. QED
        BY <1>0, <2>2, <3>1, <4>1
    <3>5. ~ManuallyChanged
      BY <3>1, <3>4 DEF ManuallyChanged
    <3>6. PICK p \in Process : Decided(p)
      BY <3>3, <3>5 DEF EvidenceStep, Valued, Measured
    <3> DEFINE a == run[p].account
               n == Len(points[a])
               d == DecisionAt(a, n)
    <3>7. PICK pt : Put(a, n, pt) /\ Follows(pt, points[a][n], "E") /\ pt.decision = d
      BY <3>6 DEF Decided
    <3>8. /\ a \in Account /\ points[a][n].selection = CurrentEvent
          /\ d = "HALT_AND_ROLLBACK" /\ \E e : Appends(e)
      BY <3>3, <3>6 DEF Decided, Writes
    <3>9. s = CurrentEvent
      BY <3>4, <3>8
    <3> HIDE DEF a, d
    <3>10. points'[a][n] = pt /\ n \in DOMAIN points'[a]
      BY <3>7, <3>8 DEF Put
    <3>11. QED
      BY <3>7, <3>8, <3>9, <3>10 DEF Follows
  <2>3. QED
    BY <2>1, <2>2
<1>3. QED
  BY <1>1, <1>2 DEF HaltsFit, Halts, EndedByPolicy

LEMMA LossesStay ==
  ASSUME ClaimsInv, RegistryInv, EvidenceInv, EvidenceStep
  PROVE  LossNeverSkipped'
<1> SUFFICES ASSUME NEW a \in Account, NEW i \in 1..(Len(points'[a]) - 1),
                    points'[a][i].selection = points'[a][i + 1].selection
             PROVE  IsComplete(points'[a][i])
  BY DEF LossNeverSkipped, IsComplete
<1>1. points' \in [Account -> Seq(Point)] /\ points \in [Account -> Seq(Point)]
  BY EvidenceStays DEF EvidenceInv
<1>2. i \in DOMAIN points'[a] /\ i + 1 \in DOMAIN points'[a]
  BY <1>1
<1>3. CASE i + 1 \in DOMAIN points[a]
  <2>1. i \in DOMAIN points[a] /\ i \in 1..(Len(points[a]) - 1)
    BY <1>1, <1>3
  <2>2. /\ points'[a][i].selection = points[a][i].selection
        /\ points'[a][i + 1].selection = points[a][i + 1].selection
        /\ IsComplete(points[a][i]) => points'[a][i] = points[a][i]
    BY <1>3, <2>1, EvidenceStays
  <2>3. IsComplete(points[a][i])
    BY <2>1, <2>2 DEF EvidenceInv, LossNeverSkipped
  <2>4. QED
    BY <2>2, <2>3
<1>4. CASE i + 1 \notin DOMAIN points[a]
  <2>1. IsNew(a, i + 1)
    BY <1>2, <1>4, WhatIsWritten DEF IsSame, IsMeasured, IsDecided
  <2>2. PICK p \in Process : Valued(p) /\ run[p].account = a
    BY <2>1 DEF IsNew
  <2>3. i = Len(points[a]) /\ i \in DOMAIN points[a] /\ points[a] # <<>>
    BY <1>1, <2>1 DEF IsNew
  <2>4. Newest(a) = points[a][i] /\ points[a][i] \in Point
    BY <1>1, <2>3 DEF Newest, Last
  <2>5. /\ run[p].pc = "C3" /\ Writes(p) /\ points[a][i].asOf < run[p].asOf
    BY <2>2, <2>3 DEF Valued
  <2>6. Owns(p) /\ lease.selection = CurrentEvent
    BY <2>5, WriterIsCurrent
  <2>7. points[a][i].selection = CurrentEvent
    BY <2>1, <2>3, EvidenceStays DEF IsNew
  <2>8. IsComplete(points[a][i])
    <3> SUFFICES ASSUME ~IsComplete(points[a][i]) PROVE FALSE
      OBVIOUS
    <3>1. IsUnfinished(a)
      BY <2>3, <2>4 DEF IsUnfinished
    <3>2. run[p].asOf <= points[a][i].asOf
      BY <2>2, <2>4, <2>5, <2>6, <2>7, <3>1 DEF EvidenceInv, RunFits
    <3>3. run[p].asOf \in Nat /\ points[a][i].asOf \in Nat
      BY <2>4 DEF ClaimsInv, RunState, Point
    <3>4. QED
      BY <2>5, <3>2, <3>3
  <2>9. QED
    BY <2>3, <2>8, EvidenceStays
<1>5. QED
  BY <1>3, <1>4

\* A decided valuation stays decided, and so does the event it is about.
LEMMA DecisionKept ==
  ASSUME ClaimsInv, RegistryInv, EvidenceInv, EvidenceStep,
         NEW a \in Account, NEW i \in DOMAIN points'[a], IsSame(a, i), IsComplete(points[a][i])
  PROVE  DecisionReplays(a, i)'
<1>1. points'[a][i] = points[a][i] /\ Window(a, i)' = Window(a, i)
  BY WindowStays DEF IsSame
<1>2. points[a][i].selection \in 1..CurrentEvent
  BY DEF IsSame, EvidenceInv, PointsFit
<1>3. PICK s \in 1..CurrentEvent : s = points[a][i].selection
  BY <1>2
<1>4. /\ IsSelect(s)
      /\ points[a][i].decision = Evaluate(Cardinality(Window(a, i)), points[a][i].breach)
      /\ Halts(a, i) => HaltPops(s)
  BY <1>3 DEF IsSame, EvidenceInv, DecisionsReplay, DecisionReplays, Halts
<1>5. s \in 1..CurrentEvent /\ CurrentEvent \in Nat /\ CurrentEvent' \in Nat
      /\ CurrentEvent <= CurrentEvent'
  BY <1>3, HistoryGrows
<1>6. IsSelect(s)'
  BY <1>4, <1>5, HistoryGrows DEF IsSelect
<1>7. Halts(a, i) => HaltPops(s)'
  <2> SUFFICES ASSUME HaltPops(s) PROVE HaltPops(s)'
    BY <1>4
  <2>1. s + 1 \in 1..CurrentEvent /\ (s # 1 => s - 1 \in 1..CurrentEvent)
    BY <1>5 DEF HaltPops
  <2>2. selections'[s + 1] = selections[s + 1]
    BY <2>1, HistoryGrows
  <2>3. PreviousResult(s)' = PreviousResult(s)
    BY <2>1, HistoryGrows DEF PreviousResult
  <2>4. s < CurrentEvent'
    BY <1>5 DEF HaltPops
  <2>5. QED
    BY <2>2, <2>3, <2>4 DEF HaltPops
<1>8. QED
  BY <1>1, <1>3, <1>4, <1>6, <1>7 DEF DecisionReplays, Halts, Evaluate

\* What is decided now is about the SELECT in force, and the rollback of a loss
\* is the next event.
LEMMA DecisionNew ==
  ASSUME ClaimsInv, RegistryInv, EvidenceInv, EvidenceStep,
         NEW a \in Account, NEW i \in DOMAIN points'[a], IsDecided(a, i)
  PROVE  DecisionReplays(a, i)'
<1> DEFINE s == CurrentEvent
           d == DecisionAt(a, i)
<1>1. /\ s \in Nat \ {0} /\ IsSelect(s) /\ points'[a][i].selection = s
      /\ points'[a][i].decision = d /\ points'[a][i].breach = points[a][i].breach
  BY DEF IsDecided
<1>2. d = Evaluate(Cardinality(Window(a, i)'), points'[a][i].breach)
  BY <1>1, WindowStays DEF IsDecided, DecisionAt
<1>3. selections'[s].reason \in SelectReason /\ \A j \in 1..s : selections'[j] = selections[j]
  BY <1>1, HistoryGrows DEF IsSelect
<1>4. ASSUME d = "HALT_AND_ROLLBACK"
      PROVE  /\ s < CurrentEvent'
             /\ selections'[s + 1].reason = "automatic_performance_rollback"
             /\ selections'[s + 1].result = IF s = 1 THEN NoStrategy ELSE selections'[s - 1].result
  <2>1. PICK e : Appends(e) /\ e.reason = "automatic_performance_rollback"
    BY <1>4 DEF IsDecided
  <2>2. CurrentEvent' = s + 1 /\ selections'[s + 1] = e
    BY <2>1, EndedNow
  <2>3. selections # <<>>
    BY <1>1 DEF CurrentEvent
  <2>4. e.result = PreviousResult(s)
    BY <1>1, <2>1, <2>3, RollbackPops DEF RollbackReason
  <2>5. s # 1 => selections'[s - 1] = selections[s - 1]
    BY <1>1, <1>3
  <2>6. QED
    BY <1>1, <2>1, <2>2, <2>4, <2>5 DEF PreviousResult
<1> HIDE DEF s, d
<1>5. QED
  BY <1>1, <1>2, <1>3, <1>4 DEF DecisionReplays, IsSelect, HaltPops, PreviousResult, Evaluate

LEMMA DecisionsStay ==
  ASSUME ClaimsInv, RegistryInv, EvidenceInv, EvidenceStep
  PROVE  DecisionsReplay'
<1> SUFFICES ASSUME NEW a \in Account, NEW i \in DOMAIN points'[a]
             PROVE  DecisionReplays(a, i)'
  BY DEF DecisionsReplay
<1>1. CASE points'[a][i].stage # "E"
  BY <1>1 DEF DecisionReplays, IsComplete
<1>2. CASE points'[a][i].stage = "E"
  <2>1. IsSame(a, i) \/ IsDecided(a, i)
    BY <1>2, WhatIsWritten DEF IsNew, IsMeasured
  <2>2. IsSame(a, i) => IsComplete(points[a][i])
    BY <1>2 DEF IsSame, IsComplete
  <2>3. QED
    BY <2>1, <2>2, DecisionKept, DecisionNew
<1>3. QED
  BY <1>1, <1>2

-----------------------------------------------------------------------------
(* The runs still fit the evidence.                                          *)

\* A process that does not move: it lost the row for good or nobody else wrote.
LEMMA OthersStayFit ==
  ASSUME ClaimsInv, RegistryInv, EvidenceInv, EvidenceStep, LeaseStep, NEW q \in Process,
         run'[q] = run[q], claim'[q] = claim[q], UNCHANGED points \/ ~Owns(q)
  PROVE  RunFits(q)'
<1> DEFINE a == run[q].account
<1>0. RunFits(q)
  BY DEF EvidenceInv
<1>1. ASSUME run[q].pc \in {"beatD", "D", "beatE", "E"} PROVE points'[a] # <<>>
  <2>1. a \in Account /\ points[a] # <<>>
    BY <1>0, <1>1 DEF RunFits, ClaimsInv, Fits
  <2> HIDE DEF a
  <2>2. points[a] \in Seq(Point)
    BY <2>1 DEF EvidenceInv
  <2>3. 1 \in DOMAIN points[a]
    BY <2>1, <2>2
  <2>4. 1 \in DOMAIN points'[a]
    BY <2>1, <2>3, EvidenceStays
  <2>5. QED
    BY <2>4
<1>2. ASSUME Owns(q)' PROVE Owns(q) /\ lease' = lease /\ UNCHANGED points
  <2>1. claim[q] # NoClaim /\ claim[q] = lease'
    BY <1>2 DEF Owns
  <2>2. claim[q] = lease
    BY <2>1, LeaseStepKeepsLost DEF ClaimsInv
  <2>3. QED
    BY <2>1, <2>2 DEF Owns
<1>3. QED
  BY <1>0, <1>1, <1>2 DEF RunFits, IsUnfinished, Newest

LEMMA MoverFits ==
  ASSUME ClaimsInv, RegistryInv, EvidenceInv, EvidenceStep, NEW p \in Process, RunStep(p)
  PROVE  RunFits(p)'
<1>0. /\ run \in [Process -> RunState] /\ RunFits(p) /\ Fits(p) /\ LeaseInv
      /\ points \in [Account -> Seq(Point)] /\ closes \subseteq Nat /\ now \in Nat
  BY DEF ClaimsInv, EvidenceInv, LeaseInv
<1>1. ASSUME NEW c \in {"check", "acquire", "due", "wait", "release", "ended"}, Goto(p, c)
      PROVE  RunFits(p)'
  <2>1. run'[p].pc = c
    BY <1>0, <1>1, GotoIs DEF Pc
  <2>2. QED
    BY <2>1 DEF RunFits
<1>2. CASE \/ Check(p) \/ AcquireForRun(p) \/ AcquireRefused(p) \/ MarksIncomplete(p)
           \/ RunFails(p) \/ LoopHeartbeat(p) \/ LoopHeartbeatFails(p) \/ CancelWait(p)
           \/ ReleaseRun(p) \/ StageE(p)
  BY <1>1, <1>2 DEF Check, AcquireForRun, AcquireRefused, MarksIncomplete, NotDue, RunFails,
         LoopHeartbeat, LoopHeartbeatFails, CancelWait, ReleaseRun, StageE
<1>3. CASE Prepare(p)
  <2> DEFINE a == run[p].account
  <2>1. run[p].pc = "due" /\ UNCHANGED <<lease, claim, points>> /\ a \in Account
    BY <1>0, <1>3 DEF Prepare, vars, leaseVars, Fits
  <2>2. CASE \E c \in {"wait", "release"} : Goto(p, c)
    BY <1>1, <2>2
  <2>3. CASE /\ ValidClaim(p)
             /\ run' = [run EXCEPT ![p].pc = "beatC3", ![p].asOf = DueClose(a)]
    <3>1. /\ run'[p].pc = "beatC3" /\ run'[p].account = a /\ run'[p].asOf = DueClose(a)
      BY <1>0, <2>3 DEF RunState
    <3>2. lease.selection = CurrentEvent
      BY <2>3 DEF ValidClaim
    <3>3. IsUnfinished(a) /\ Newest(a).selection = CurrentEvent
          => DueClose(a) <= Newest(a).asOf
      <4>1. LatestClose \in Nat /\ (IsUnfinished(a) => Newest(a).asOf \in Nat)
        BY <1>0, <2>1, LatestCloseIsNat, DueCloseIsNat
      <4>2. QED
        BY <4>1 DEF DueClose
    <3>4. UNCHANGED <<lease, points>>
      BY <2>1
    <3>5. QED
      BY <3>1, <3>2, <3>3, <3>4 DEF RunFits, IsUnfinished, Newest
  <2>4. QED
    BY <1>3, <2>2, <2>3 DEF Prepare, NotDue
<1>4. ASSUME NEW stage \in Stage, Beat(p, stage) PROVE RunFits(p)'
  <2>1. /\ run[p].pc = BeatBefore[stage] /\ ValidClaim(p) /\ SetLease(p, Renewed)
        /\ Goto(p, stage) /\ UNCHANGED points
    BY <1>4 DEF Beat, Heartbeat
  <2>2. /\ run'[p].pc = stage /\ run'[p].account = run[p].account /\ run'[p].asOf = run[p].asOf
    BY <1>0, <2>1, GotoIs DEF Stage, Pc
  <2>3. lease'.selection = lease.selection /\ Owns(p)
    BY <1>0, <2>1, RenewalIs DEF ValidClaim, HoldsLease, Owns
  <2>4. \/ stage = "C3" /\ run[p].pc = "beatC3"
        \/ stage = "D" /\ run[p].pc = "beatD"
        \/ stage = "E" /\ run[p].pc = "beatE"
    BY <2>1 DEF Stage, BeatBefore
  <2>5. QED
    BY <1>0, <2>1, <2>2, <2>3, <2>4 DEF RunFits, IsUnfinished, Newest
<1>5. CASE StageC3(p)
  <2> DEFINE a == run[p].account
  <2>1. CASE \E c \in {"wait", "release"} : Goto(p, c)
    BY <1>1, <2>1
  <2>2. CASE /\ Goto(p, "beatD")
             /\ \/ PointAt(a, run[p].asOf) # {} /\ UNCHANGED points
                \/ \E pt : points' = [points EXCEPT ![a] = Append(@, pt)]
    <3>1. run'[p].pc = "beatD" /\ run'[p].account = a
      BY <1>0, <2>2, GotoIs DEF Pc
    <3>2. a \in Account /\ points[a] \in Seq(Point)
      BY <1>0, <1>5 DEF StageC3, Fits
    <3>3. points'[a] # <<>>
      <4>1. CASE PointAt(a, run[p].asOf) # {} /\ UNCHANGED points
        BY <4>1 DEF PointAt
      <4>2. CASE \E pt : points' = [points EXCEPT ![a] = Append(@, pt)]
        <5>1. PICK pt : points' = [points EXCEPT ![a] = Append(@, pt)]
          BY <4>2
        <5>2. points'[a] = Append(points[a], pt)
          BY <1>0, <3>2, <5>1
        <5>3. QED
          BY <3>2, <5>2
      <4>3. QED
        BY <2>2, <4>1, <4>2
    <3>4. QED
      BY <3>1, <3>3 DEF RunFits
  <2>3. QED
    BY <1>5, <2>1, <2>2 DEF StageC3, NotDue
<1>6. CASE StageD(p)
  <2> DEFINE a == run[p].account
  <2>1. run[p].pc = "D" /\ Goto(p, "beatE")
    BY <1>6 DEF StageD
  <2>2. run'[p].pc = "beatE" /\ run'[p].account = a
    BY <1>0, <2>1, GotoIs DEF Pc
  <2>3. a \in Account /\ points[a] # <<>> /\ points[a] \in Seq(Point)
    BY <1>0, <2>1 DEF RunFits, Fits
  <2> HIDE DEF a
  <2>4. 1 \in DOMAIN points[a]
    BY <2>3
  <2>5. 1 \in DOMAIN points'[a]
    BY <2>3, <2>4, EvidenceStays
  <2>6. QED
    BY <2>2, <2>5 DEF RunFits
<1>7. QED
  BY <1>2, <1>3, <1>4, <1>5, <1>6 DEF RunStep

LEMMA RunsStayFit ==
  ASSUME ClaimsInv, RegistryInv, EvidenceInv, [RunNext]_allVars
  PROVE  \A q \in Process : RunFits(q)'
<1>1. EvidenceStep /\ LeaseStep
  BY EvidenceSteps, RunStepKinds
<1>2. ASSUME NEW p \in Process, RunStep(p) \/ KillRun(p), NEW q \in Process, q # p
      PROVE  RunFits(q)'
  <2>1. Moved(p)
    BY <1>2, DueCloseIsNat, StepMoves, EndMoves DEF ClaimsInv, LeaseInv, EvidenceInv
  <2>2. run'[q] = run[q] /\ claim'[q] = claim[q]
    BY <1>2, <2>1 DEF Moved, OthersKept
  <2>3. UNCHANGED points \/ ~Owns(q)
    <3>1. CASE StageC3(p) \/ StageD(p) \/ StageE(p)
      <4>1. lease.owner = p
        BY <3>1 DEF StageC3, StageD, StageE, ValidClaim, HoldsLease
      <4>2. claim[q] # NoClaim => claim[q].owner = q
        BY DEF ClaimsInv, LeaseInv
      <4>3. QED
        BY <1>2, <4>1, <4>2 DEF Owns
    <3>2. CASE ~(StageC3(p) \/ StageD(p) \/ StageE(p))
      BY <1>2, <3>2 DEF RunStep, Check, AcquireForRun, AcquireRefused, Prepare, Beat,
         MarksIncomplete, RunFails, LoopHeartbeat, LoopHeartbeatFails, CancelWait, ReleaseRun,
         KillRun
    <3>3. QED
      BY <3>1, <3>2
  <2>4. QED
    BY <1>1, <2>2, <2>3, OthersStayFit
<1>3. ASSUME NEW p \in Process, RunStep(p) PROVE RunFits(p)'
  BY <1>1, <1>3, MoverFits
<1>4. ASSUME NEW p \in Process, KillRun(p) PROVE RunFits(p)'
  <2>1. run'[p].pc = "ended"
    BY <1>4, GotoIs DEF KillRun, ClaimsInv, Pc
  <2>2. QED
    BY <2>1 DEF RunFits
<1>5. ASSUME NEW p \in Process, NEW kind \in {"once", "loop"}, NEW a \in Account,
             Start(p, kind, a), NEW q \in Process
      PROVE  RunFits(q)'
  <2>1. /\ UNCHANGED <<claim, points>> /\ run \in [Process -> RunState]
        /\ run' = [run EXCEPT ![p] =
             [Idle EXCEPT !.kind = kind, !.account = a,
                          !.pc = IF kind = "loop" THEN "acquire" ELSE "check"]]
    BY <1>5 DEF Start, vars, leaseVars, ClaimsInv
  <2>2. run'[p].pc \in {"acquire", "check"}
    BY <2>1 DEF Idle
  <2>3. CASE q = p
    BY <2>2, <2>3 DEF RunFits
  <2>4. CASE q # p
    <3>1. run'[q] = run[q] /\ claim'[q] = claim[q]
      BY <2>1, <2>4
    <3>2. QED
      BY <1>1, <2>1, <3>1, OthersStayFit
  <2>5. QED
    BY <2>3, <2>4
<1>6. CASE \/ (\E r \in Result : Select(r)) \/ RollBack
           \/ (\E a \in Account : ArmAccount(a)) \/ PublishClose \/ TimeMoves
           \/ UNCHANGED allVars
  <2>1. UNCHANGED <<run, claim, points>>
    BY <1>6 DEF Select, ManualSelect, RollBack, ManualRollback, ArmAccount, PublishClose,
         TimeMoves, Tick, SetBack, allVars, vars, leaseVars, policyVars
  <2>2. QED
    BY <1>1, <2>1, OthersStayFit
<1>7. QED
  BY <1>2, <1>3, <1>4, <1>5, <1>6 DEF RunNext
-----------------------------------------------------------------------------
(* The invariant of the runs, and what follows.                              *)

ClaimTypeOK == claim \in [Process -> Row \cup {NoClaim}]

RunsInv == ClaimsInv /\ RegistryInv /\ EvidenceInv /\ ClaimTypeOK

LEMMA InitRuns == RunInit => RunsInv
<1> SUFFICES ASSUME RunInit PROVE RunsInv
  OBVIOUS
<1>1. /\ selections = <<>> /\ evidence = Result /\ LeaseInit /\ closes = {} /\ armed = {}
      /\ points = [a \in Account |-> <<>>] /\ run = [p \in Process |-> Idle]
  BY DEF RunInit
<1>2. selections \in Seq(SelectionEvent) /\ Len(selections) = 0
  BY <1>1
<1>3. ClaimsInv
  <2>1. LeaseInv
    BY <1>1, InitLease
  <2>2. run \in [Process -> RunState]
    BY <1>1 DEF Idle, RunState, Pc
  <2>3. ASSUME NEW p \in Process PROVE Fits(p) /\ Releases(p)
    <3>1. /\ claim[p] = NoClaim /\ run[p].pc = "idle" /\ run[p].kind = "none"
          /\ lease.owner = NoOwner
      BY <1>1 DEF LeaseInit, Released, Idle
    <3>2. QED
      BY <3>1, LeaseAssumption DEF Fits, Releases
  <2>4. QED
    BY <1>2, <2>1, <2>2, <2>3 DEF ClaimsInv
<1>4. RegistryInv
  BY <1>1, InitRegistry
<1>5. EvidenceInv
  <2>1. <<>> \in Seq(Point) /\ DOMAIN <<>> = {} /\ Len(<<>>) = 0
    OBVIOUS
  <2>2. \A a \in Account : points[a] = <<>>
    BY <1>1
  <2>3. points \in [Account -> Seq(Point)]
    BY <1>1, <2>1
  <2>4. \A p \in Process : RunFits(p)
    <3>1. \A p \in Process : run[p].pc = "idle"
      BY <1>1 DEF Idle
    <3>2. QED
      BY <3>1 DEF RunFits
  <2>5. PointsFit /\ HaltsFit
    <3>1. CurrentEvent = 0
      BY <1>2 DEF CurrentEvent
    <3>2. QED
      BY <2>1, <2>2, <3>1 DEF PointsFit, HaltsFit
  <2>6. LossNeverSkipped /\ DecisionsReplay
    BY <2>1, <2>2 DEF LossNeverSkipped, DecisionsReplay
  <2>7. evidence \subseteq Result /\ closes \subseteq Nat /\ armed \subseteq Account
        /\ alive \subseteq Process
    BY <1>1 DEF LeaseInit
  <2>8. QED
    BY <2>3, <2>4, <2>5, <2>6, <2>7 DEF EvidenceInv
<1>6. ClaimTypeOK
  BY <1>1 DEF LeaseInit, ClaimTypeOK
<1>7. QED
  BY <1>3, <1>4, <1>5, <1>6 DEF RunsInv

LEMMA NextRegistry ==
  ASSUME RunsInv, [RunNext]_allVars
  PROVE  RegistryInv'
<1>1. EvidenceStep /\ UNCHANGED evidence /\ RegistryInv
  BY EvidenceSteps DEF RunsInv
<1>2. ASSUME NEW e, Appends(e) PROVE RegistryInv'
  BY <1>1, <1>2, AppendKeepsRegistry
<1>3. ASSUME UNCHANGED selections PROVE RegistryInv'
  <2>1. RegistryInv /\ selections' = selections /\ evidence' = evidence
    BY <1>1, <1>3
  <2>2. QED
    BY ONLY <2>1, Zenon DEF RegistryInv, RegistryReplays, Selected
<1>4. UNCHANGED selections \/ \E e : Appends(e)
  BY <1>1 DEF EvidenceStep, ManuallyChanged, Valued, Measured, Decided
<1>5. QED
  BY <1>2, <1>3, <1>4

\* The sets that only the types speak of.
LEMMA SetsStayTyped ==
  ASSUME RunsInv, [RunNext]_allVars
  PROVE  closes' \subseteq Nat /\ armed' \subseteq Account /\ alive' \subseteq Process
<1>1. /\ closes \subseteq Nat /\ armed \subseteq Account /\ alive \subseteq Process
      /\ now \in Nat
  BY DEF RunsInv, EvidenceInv, ClaimsInv, LeaseInv
<1>2. alive' \subseteq alive
  BY RunMoves DEF RunsInv, Moved, OthersKept, Still
<1>3. closes' \in {closes, closes \cup {now}}
  BY DEF RunNext, RunStep, Check, AcquireForRun, AcquireRefused, Prepare, Beat, StageC3,
         MarksIncomplete, StageD, StageE, RunFails, LoopHeartbeat, LoopHeartbeatFails,
         CancelWait, ReleaseRun, KillRun, Start, Select, RollBack, ArmAccount, PublishClose,
         TimeMoves, allVars, policyVars
<1>4. armed' \in {armed, {}} \/ \E a \in Account : armed' = armed \cup {a}
  BY DEF RunNext, RunStep, Check, AcquireForRun, AcquireRefused, Prepare, Beat, StageC3,
         MarksIncomplete, StageD, StageE, RunFails, LoopHeartbeat, LoopHeartbeatFails,
         CancelWait, ReleaseRun, KillRun, Start, Select, RollBack, ArmAccount, PublishClose,
         TimeMoves, allVars, policyVars
<1>5. QED
  BY <1>1, <1>2, <1>3, <1>4

LEMMA ClaimStaysTyped ==
  ASSUME LeaseInv, LeaseInv', LeaseStep, ClaimTypeOK
  PROVE  ClaimTypeOK'
<1>1. \/ claim' = claim
      \/ \E p \in Process : \E c : claim' = [claim EXCEPT ![p] = c]
  BY DEF LeaseStep, Taken, Kept, GivenUp, Untouched
<1>2. ASSUME NEW p \in Process, NEW c, claim' = [claim EXCEPT ![p] = c] PROVE ClaimTypeOK'
  <2>1. claim'[p] = c
    BY <1>2 DEF ClaimTypeOK
  <2>2. c \in Row \cup {NoClaim}
    BY <2>1 DEF LeaseInv
  <2>3. QED
    BY <1>2, <2>2 DEF ClaimTypeOK
<1>3. QED
  BY <1>1, <1>2 DEF ClaimTypeOK

LEMMA NextRuns == RunsInv /\ [RunNext]_allVars => RunsInv'
<1> SUFFICES ASSUME RunsInv, [RunNext]_allVars PROVE RunsInv'
  OBVIOUS
<1>1. ClaimsInv /\ RegistryInv /\ EvidenceInv /\ EvidenceStep /\ UNCHANGED evidence
  BY EvidenceSteps DEF RunsInv
<1>2. RegistryInv'
  BY NextRegistry
<1>3. ClaimsInv'
  BY <1>1, <1>2, NextClaims
<1>4. points' \in [Account -> Seq(Point)]
  BY <1>1, EvidenceStays
<1>5. PointsFit' /\ HaltsFit' /\ LossNeverSkipped' /\ DecisionsReplay'
  BY <1>1, PointsStayFit, HaltsStayFit, LossesStay, DecisionsStay
<1>6. \A q \in Process : RunFits(q)'
  BY <1>1, RunsStayFit
<1>7. /\ closes' \subseteq Nat /\ armed' \subseteq Account /\ alive' \subseteq Process
      /\ evidence' \subseteq Result
  BY <1>1, SetsStayTyped DEF EvidenceInv
<1>8. EvidenceInv'
  BY <1>4, <1>5, <1>6, <1>7 DEF EvidenceInv
<1>9. ClaimTypeOK'
  BY <1>3, RunStepKinds, ClaimStaysTyped DEF RunsInv, ClaimsInv
<1>10. QED
  BY <1>2, <1>3, <1>8, <1>9 DEF RunsInv

\* The claims, the history of selections and the evidence keep the shape that
\* every proof below starts from.
THEOREM RunsShape == RunSpec => []RunsInv
  BY InitRuns, NextRuns, PTL DEF RunSpec

\* What the runs store passes the replays that every later operation begins
\* with, whatever was killed, refused, rolled back or done by hand in between.
THEOREM EvidenceAlwaysReplays == RunSpec => []EvidenceReplays
<1>1. RunsInv => EvidenceReplays
  <2> SUFFICES ASSUME RunsInv PROVE EvidenceReplays
    OBVIOUS
  <2>1. ClaimsInv /\ RegistryInv /\ EvidenceInv /\ LeaseInv
    BY DEF RunsInv, ClaimsInv
  <2>2. ClaimTypeOK
    BY DEF RunsInv
  <2>3. RunTypeOK
    BY <2>1, <2>2 DEF ClaimTypeOK, RunTypeOK, LeaseTypeOK, RegistryTypeOK, ClaimsInv, LeaseInv, EvidenceInv
  <2>4. QED
    BY <2>1, <2>3 DEF EvidenceReplays, RegistryInv, EvidenceInv
<1>2. QED
  BY <1>1, RunsShape, PTL

\* No loss hides behind a later close.
THEOREM LossesDecided == RunSpec => []LossNeverSkipped
<1>1. RunsInv => LossNeverSkipped
  BY DEF RunsInv, EvidenceInv
<1>2. QED
  BY <1>1, RunsShape, PTL

\* A one-shot run that ends by itself holds no row.
THEOREM OneShotsRelease == RunSpec => []OneShotReleases
<1>1. RunsInv => OneShotReleases
  BY DEF RunsInv, ClaimsInv, EvidenceInv, Releases, OneShotReleases
<1>2. QED
  BY <1>1, RunsShape, PTL

\* A selection is taken back by its policy once, by one valuation.
THEOREM RollbackOnce == RunSpec => []OneRollbackPerSelection
<1>1. RunsInv => OneRollbackPerSelection
  <2> SUFFICES ASSUME RunsInv, NEW s \in 1..Len(selections)
               PROVE  LET halts == {x \in UNION {{a} \X DOMAIN points[a] : a \in Account} :
                                       /\ points[x[1]][x[2]].selection = s
                                       /\ points[x[1]][x[2]].decision = "HALT_AND_ROLLBACK"}
                      IN  /\ Cardinality(halts) <= 1
                          /\ halts # {} <=> /\ s < Len(selections)
                                            /\ selections[s + 1].reason
                                               = "automatic_performance_rollback"
    BY DEF OneRollbackPerSelection
  <2> DEFINE halts == {x \in UNION {{a} \X DOMAIN points[a] : a \in Account} :
                          /\ points[x[1]][x[2]].selection = s
                          /\ points[x[1]][x[2]].decision = "HALT_AND_ROLLBACK"}
  <2>1. PointsFit /\ HaltsFit
    BY DEF RunsInv, EvidenceInv
  <2>2. ASSUME NEW x \in halts
        PROVE  \E a \in Account : \E i \in DOMAIN points[a] :
                   x = <<a, i>> /\ points[a][i].selection = s /\ Halts(a, i)
    <3>1. PICK a \in Account : x \in {a} \X DOMAIN points[a]
      OBVIOUS
    <3>2. PICK i \in DOMAIN points[a] : x = <<a, i>>
      BY <3>1
    <3>3. QED
      BY <3>2 DEF Halts
  <2>3. ASSUME NEW a \in Account, NEW i \in DOMAIN points[a],
               points[a][i].selection = s, Halts(a, i)
        PROVE  <<a, i>> \in halts
    BY <2>3 DEF Halts
  <2> HIDE DEF halts
  <2>4. \A x, y \in halts : x = y
    BY <2>1, <2>2 DEF HaltsFit
  <2>5. Cardinality(halts) <= 1
    <3>1. CASE halts = {}
      BY <3>1, FS_EmptySet
    <3>2. CASE halts # {}
      <4>1. PICK x \in halts : TRUE
        BY <3>2
      <4>2. halts = {x}
        BY <2>4
      <4>3. Cardinality({x}) = 1
        BY FS_Singleton
      <4>4. QED
        BY <4>2, <4>3
    <3>3. QED
      BY <3>1, <3>2
  <2>6. halts # {} => EndedByPolicy(s)
    BY <2>1, <2>2 DEF PointsFit
  <2>7. EndedByPolicy(s) => halts # {}
    BY <2>1, <2>3 DEF HaltsFit, CurrentEvent
  <2>8. QED
    BY <2>5, <2>6, <2>7 DEF EndedByPolicy, CurrentEvent, halts
<1>2. QED
  BY <1>1, RunsShape, PTL

\* Evidence is written under the live lease of its account and selection, and
\* never over a decided valuation.
THEOREM EvidenceFenced == RunSpec => EvidenceIsFenced
<1>1. RunsInv /\ [RunNext]_allVars
      => [\A a \in Account : points'[a] # points[a] =>
             /\ lease.account = a /\ now < lease.expires
             /\ Last(points'[a]).selection = lease.selection
             /\ \A i \in DOMAIN points[a] :
                   IsComplete(points[a][i]) => points'[a][i] = points[a][i]]_allVars
  <2> SUFFICES ASSUME RunsInv, [RunNext]_allVars, NEW a \in Account, points'[a] # points[a]
               PROVE  /\ lease.account = a /\ now < lease.expires
                      /\ Last(points'[a]).selection = lease.selection
                      /\ \A i \in DOMAIN points[a] :
                            IsComplete(points[a][i]) => points'[a][i] = points[a][i]
    OBVIOUS
  <2>1. ClaimsInv /\ RegistryInv /\ EvidenceInv /\ EvidenceStep
    BY EvidenceSteps DEF RunsInv
  <2>2. PICK p \in Process : Valued(p) \/ Measured(p) \/ Decided(p)
    BY <2>1 DEF EvidenceStep, ManuallyChanged
  <2> DEFINE b == run[p].account
  <2>3. Writes(p) /\ \E n, pt : Put(b, n, pt) /\ pt.selection = CurrentEvent
    BY <2>2 DEF Valued, Measured, Decided, Follows
  <2>4. PICK n, pt : Put(b, n, pt) /\ pt.selection = CurrentEvent
    BY <2>3
  <2>5. b = a
    BY <2>4 DEF Put
  <2>6. lease.account = b /\ lease.selection = CurrentEvent /\ now < lease.expires
    BY <2>1, <2>3, WriterIsCurrent
  <2>7. Last(points'[a]).selection = CurrentEvent
    BY <2>4, <2>5 DEF Put, Last
  <2>8. QED
    BY <2>1, <2>5, <2>6, <2>7, EvidenceStays
<1>2. QED
  BY <1>1, RunsShape, PTL DEF RunSpec, EvidenceIsFenced

\* The state guard of migration 021 aborts no write of a run.
THEOREM RunsPassGuard == RunSpec => WritesPassGuard
<1>1. RunsInv /\ [RunNext]_allVars => [lease' # lease => GuardAllows(lease, lease')]_vars
  BY RunStepKinds, LeaseStepPassesGuard DEF RunsInv, ClaimsInv
<1>2. QED
  BY <1>1, RunsShape, PTL DEF RunSpec, WritesPassGuard

\* A process that lost the row stays out, with runs around the lease too.
THEOREM RunsLoseForGood == RunSpec => LostClaimStaysLost
<1>1. RunsInv /\ [RunNext]_allVars
      => [\A p \in Process :
             claim[p] # NoClaim /\ claim[p] # lease /\ claim'[p] = claim[p]
             => ~HoldsLease(p)']_vars
  BY RunStepKinds, LeaseStepKeepsLost DEF HoldsLease, RunsInv, ClaimsInv
<1>2. QED
  BY <1>1, RunsShape, PTL DEF RunSpec, LostClaimStaysLost

\* Under the runs too the row implements the fenced lease.
THEOREM RunsImplementLease == RunSpec => ImplementsFencedLease
<1>1. RunInit => Fenced!LeaseInit
  BY InitIsFenced DEF RunInit
<1>2. RunsInv /\ [RunNext]_allVars => [Fenced!LeaseNext]_Fenced!leaseVars
  BY RunStepKinds, LeaseStepIsFenced DEF RunsInv, ClaimsInv
<1>3. QED
  BY <1>1, <1>2, RunsShape, PTL DEF RunSpec, ImplementsFencedLease, Fenced!LeaseSpec
=============================================================================

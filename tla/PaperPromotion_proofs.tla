----------------------- MODULE PaperPromotion_proofs -----------------------
(***************************************************************************)
(* Proofs about automatic promotions: about the gates of the comparison,   *)
(* for any strategies, metrics and number of windows; about the attempts,  *)
(* for any processes, results, trades, signals and bounds, with the clock  *)
(* free to be set back; and about the folds that the comparison scores,    *)
(* for any bars, lengths, costs and delay.                                 *)
(***************************************************************************)
EXTENDS PaperPromotion, PromotionPolicy, ResearchFold,
        TLAPS, FiniteSetTheorems, WellFoundedInduction

-----------------------------------------------------------------------------
(* The registry: what is appended to a history that replays leaves one that  *)
(* replays.  The function that replays a history exists and is unique: the   *)
(* least position where it would not be cannot be.                           *)

\* A set of numbers that is not empty has a least one.
LEMMA LeastNumber ==
  ASSUME NEW M, M \subseteq Nat, M # {}
  PROVE  \E i \in M : \A j \in M : i <= j
<1> DEFINE Less == {pair \in Nat \X Nat : pair[1] < pair[2]}
<1>1. IsWellFoundedOn(Less, Nat)
  BY NatLessThanWellFounded, Zenon DEF OpToRel
<1>2. \A i, j \in Nat : j < i => <<j, i>> \in Less
  OBVIOUS
<1> HIDE DEF Less
<1>3. PICK i \in M : \A j \in M : <<j, i>> \notin Less
  BY <1>1, WFMin
<1>4. ASSUME NEW j \in M PROVE i <= j
  <2>1. i \in Nat /\ j \in Nat /\ <<j, i>> \notin Less
    BY <1>3
  <2>2. ~(j < i)
    BY <1>2, <2>1
  <2>3. QED
    BY <2>1, <2>2
<1>5. QED
  BY <1>4

\* `stacks' are the stacks that the first n events of h lead through.
IsStacks(h, n, stacks) ==
    /\ stacks \in [0..n -> Seq(Result \cup {NoStrategy})]
    /\ stacks[0] = <<>>
    /\ \A k \in 1..n :
          stacks[k] = Applied(stacks[k - 1], h[k])

LEMMA StackTypes ==
  ASSUME NEW h, NEW n, NEW stacks, IsStacks(h, n, stacks)
  PROVE  \A k \in 0..n : stacks[k] \in Seq(Result \cup {NoStrategy})
  BY Zenon DEF IsStacks

LEMMA AppliedType ==
  ASSUME NEW stack \in Seq(Result \cup {NoStrategy}), NEW e \in SelectionEvent
  PROVE  Applied(stack, e) \in Seq(Result \cup {NoStrategy})
<1>1. e.result \in Result \cup {NoStrategy}
  BY DEF SelectionEvent
<1>2. Front(stack) \in Seq(Result \cup {NoStrategy})
  BY DEF Front
<1>3. QED
  BY <1>1, <1>2 DEF Applied

\* There are such stacks for every history.
LEMMA StacksExist ==
  ASSUME NEW h \in Seq(SelectionEvent)
  PROVE  \E stacks : IsStacks(h, Len(h), stacks)
<1> DEFINE T == Result \cup {NoStrategy}
           Without == {n \in 0..Len(h) : ~\E stacks : IsStacks(h, n, stacks)}
<1>1. SUFFICES ASSUME Without # {} PROVE FALSE
  <2>1. Len(h) \in 0..Len(h)
    OBVIOUS
  <2>2. QED
    BY <1>1, <2>1
<1>2. Without \subseteq Nat
  OBVIOUS
<1>3. PICK n \in Without : \A m \in Without : n <= m
  <2> HIDE DEF Without
  <2>1. QED
    BY <1>1, <1>2, LeastNumber
<1>4. n # 0
  <2> SUFFICES ASSUME n = 0 PROVE FALSE
    OBVIOUS
  <2>1. [k \in 0..0 |-> <<>>] \in [0..0 -> Seq(T)]
    OBVIOUS
  <2>2. IsStacks(h, 0, [k \in 0..0 |-> <<>>])
    BY <2>1 DEF IsStacks
  <2>3. QED
    BY <1>3, <2>2
<1>5. n \in 1..Len(h) /\ n - 1 \in 0..Len(h) /\ n - 1 \notin Without
  BY <1>3, <1>4
<1>6. PICK stacks : IsStacks(h, n - 1, stacks)
  BY <1>5
<1> DEFINE next == Applied(stacks[n - 1], h[n])
           longer == [k \in 0..n |-> IF k < n THEN stacks[k] ELSE next]
<1>7. next \in Seq(T)
  <2>1. n - 1 \in 0..(n - 1) /\ h[n] \in SelectionEvent
    BY <1>5
  <2>2. stacks[n - 1] \in Seq(T)
    BY <1>6, <2>1, StackTypes
  <2>3. QED
    BY <2>1, <2>2, AppliedType
<1>8. IsStacks(h, n, longer)
  <2> HIDE DEF next
  <2>1. longer \in [0..n -> Seq(T)] /\ longer[0] = <<>>
    BY <1>5, <1>6, <1>7 DEF IsStacks
  <2>2. \A k \in 0..(n - 1) : longer[k] = stacks[k]
    BY <1>5
  <2>3. longer[n] = next
    BY <1>5
  <2> HIDE DEF longer
  <2>4. ASSUME NEW k \in 1..n
        PROVE  longer[k] = Applied(longer[k - 1], h[k])
    <3>1. CASE k = n
      <4>1. longer[k - 1] = stacks[n - 1]
        BY <1>5, <2>2, <3>1
      <4>2. QED
        BY <2>3, <3>1, <4>1 DEF next
    <3>2. CASE k # n
      <4>1. k \in 1..(n - 1) /\ k - 1 \in 0..(n - 1) /\ k \in 0..(n - 1)
        BY <1>5, <2>4, <3>2
      <4>2. longer[k] = stacks[k] /\ longer[k - 1] = stacks[k - 1]
        BY <2>2, <4>1
      <4>3. QED
        BY <1>6, <4>1, <4>2 DEF IsStacks
    <3>3. QED
      BY <3>1, <3>2
  <2>5. QED
    BY <2>1, <2>4 DEF IsStacks
<1>9. QED
  BY <1>3, <1>8

\* The replay of h is the end of its stacks.
LEMMA StackIs ==
  ASSUME NEW h \in Seq(SelectionEvent), NEW stacks, IsStacks(h, Len(h), stacks)
  PROVE  StackOf(h) = stacks[Len(h)]
<1> DEFINE f == CHOOSE stack : stack = [n \in 0..Len(h) |->
                  IF n = 0 THEN <<>> ELSE Applied(stack[n - 1], h[n])]
<1>1. stacks = [n \in 0..Len(h) |->
                  IF n = 0 THEN <<>> ELSE Applied(stacks[n - 1], h[n])]
  BY DEF IsStacks
<1>2. f = [n \in 0..Len(h) |->
             IF n = 0 THEN <<>> ELSE Applied(f[n - 1], h[n])]
  BY <1>1
<1>3. StackOf(h) = f[Len(h)]
  BY DEF StackOf
<1> HIDE DEF f
<1> DEFINE Differ == {k \in 0..Len(h) : f[k] # stacks[k]}
<1>4. SUFFICES ASSUME Differ # {} PROVE FALSE
  BY <1>3
<1>5. PICK k \in Differ : \A j \in Differ : k <= j
  <2>1. Differ \subseteq Nat
    OBVIOUS
  <2> HIDE DEF Differ
  <2>2. QED
    BY <1>4, <2>1, LeastNumber
<1>6. k # 0
  BY <1>1, <1>2, <1>5
<1>7. k \in 1..Len(h) /\ k - 1 \in 0..Len(h) /\ k - 1 \notin Differ
  BY <1>5, <1>6
<1>8. f[k - 1] = stacks[k - 1]
  BY <1>7
<1>9. f[k] = stacks[k]
  <2>1. f[k] = Applied(f[k - 1], h[k])
    BY <1>2, <1>7
  <2>2. stacks[k] = Applied(stacks[k - 1], h[k])
    BY <1>7 DEF IsStacks
  <2>3. QED
    BY <1>8, <2>1, <2>2
<1>10. QED
  BY <1>5, <1>9

\* One more event is one step of the stack.
LEMMA StackGrows ==
  ASSUME NEW h \in Seq(SelectionEvent), NEW e \in SelectionEvent
  PROVE  /\ StackOf(h) \in Seq(Result \cup {NoStrategy})
         /\ StackOf(Append(h, e)) = Applied(StackOf(h), e)
<1> DEFINE n == Len(h)
           g == Append(h, e)
<1>1. n \in Nat /\ g \in Seq(SelectionEvent) /\ Len(g) = n + 1 /\ g[n + 1] = e
      /\ \A k \in 1..n : g[k] = h[k]
  OBVIOUS
<1> HIDE DEF g
<1>2. PICK stacks : IsStacks(g, n + 1, stacks)
  BY <1>1, StacksExist
<1> DEFINE short == [k \in 0..n |-> stacks[k]]
<1>3. \A k \in 0..n : short[k] = stacks[k]
  OBVIOUS
<1>4. IsStacks(h, n, short)
  <2>1. short \in [0..n -> Seq(Result \cup {NoStrategy})] /\ short[0] = <<>>
    BY <1>1, <1>2 DEF IsStacks
  <2> HIDE DEF short
  <2>2. ASSUME NEW k \in 1..n
        PROVE  short[k] = Applied(short[k - 1], h[k])
    <3>1. k \in 1..(n + 1) /\ k \in 0..n /\ k - 1 \in 0..n
      BY <1>1
    <3>2. short[k] = stacks[k] /\ short[k - 1] = stacks[k - 1] /\ g[k] = h[k]
      BY <1>1, <1>3, <3>1
    <3>3. stacks[k] = Applied(stacks[k - 1], g[k])
      BY <1>2, <3>1 DEF IsStacks
    <3>4. QED
      BY <3>2, <3>3
  <2>3. QED
    BY <2>1, <2>2 DEF IsStacks
<1>5. StackOf(h) = stacks[n] /\ stacks[n] \in Seq(Result \cup {NoStrategy})
  <2>1. StackOf(h) = short[n] /\ n \in 0..n
    BY <1>1, <1>4, StackIs
  <2>2. n \in 0..(n + 1)
    BY <1>1
  <2>3. stacks[n] \in Seq(Result \cup {NoStrategy})
    BY <1>2, <2>2, StackTypes
  <2>4. QED
    BY <1>3, <2>1, <2>3
<1>6. StackOf(g) = stacks[n + 1]
  BY <1>1, <1>2, StackIs
<1>7. stacks[n + 1] = Applied(stacks[n], e)
  <2>1. n + 1 \in 1..(n + 1) /\ (n + 1) - 1 = n
    BY <1>1
  <2>2. QED
    BY <1>1, <1>2, <2>1 DEF IsStacks
<1>8. QED
  BY <1>5, <1>6, <1>7 DEF g

\* Inductive: the history passes its replay, and the strategy it names is the
\* top of the stack.
RegistryInv ==
    /\ selections \in Seq(SelectionEvent)
    /\ RegistryReplays
    /\ Selected = Top(StackOf(selections))

LEMMA InitRegistry == selections = <<>> => RegistryInv
<1> SUFFICES ASSUME selections = <<>> PROVE RegistryInv
  OBVIOUS
<1>1. <<>> \in Seq(SelectionEvent) /\ Len(<<>>) = 0 /\ DOMAIN <<>> = {}
  OBVIOUS
<1>2. StackOf(<<>>) = <<>>
  <2> DEFINE none == [k \in 0..0 |-> <<>>]
  <2>1. none \in [0..0 -> Seq(Result \cup {NoStrategy})] /\ none[0] = <<>>
    OBVIOUS
  <2> HIDE DEF none
  <2>2. IsStacks(<<>>, 0, none)
    BY <2>1 DEF IsStacks
  <2>3. QED
    BY <1>1, <2>1, <2>2, StackIs
<1>3. QED
  BY <1>1, <1>2 DEF RegistryInv, RegistryReplays, Selected, Top

\* The events that the registry appends: one that selects a strategy, and one
\* that goes back.
Appends(e) ==
    /\ e \in SelectionEvent
    /\ selections' = Append(selections, e)
    /\ \/ /\ e.reason \in SelectReason
          /\ e.result \in evidence \cap PaperCandidate
          /\ e.result # Selected
       \/ /\ e.reason \in RollbackReason
          /\ StackOf(selections) # <<>>
          /\ e.result = Top(Front(StackOf(selections)))

LEMMA SelectAppends ==
  ASSUME RegistryInv, NEW r \in Result, NEW t \in Nat, NEW x, SelectPaperCandidate(r, x, t)
  PROVE  \E e : Appends(e) /\ e.reason = "manual_selection"
<1> DEFINE e == [result |-> r, reason |-> "manual_selection", at |-> t]
<1>1. selections' = Append(selections, e) /\ r \in evidence \cap PaperCandidate /\ Selected # r
  BY DEF SelectPaperCandidate
<1>2. e \in SelectionEvent /\ e.reason = "manual_selection" /\ e.result = r
  BY DEF SelectionEvent, SelectReason
<1> HIDE DEF e
<1>3. QED
  BY <1>1, <1>2 DEF Appends, SelectReason

LEMMA RollbackAppends ==
  ASSUME RegistryInv, NEW reason \in RollbackReason, NEW t \in Nat, NEW x,
         RollbackPaperCandidate(x, reason, t)
  PROVE  \E e : Appends(e) /\ e.reason = reason
<1> DEFINE back == Top(Front(StackOf(selections)))
           e == [result |-> back, reason |-> reason, at |-> t]
<1>1. selections' = Append(selections, e) /\ StackOf(selections) # <<>>
  BY DEF RollbackPaperCandidate
<1>2. back \in Result \cup {NoStrategy}
  <2>1. PICK any \in SelectionEvent : TRUE
    <3>1. [result |-> NoStrategy, reason |-> reason, at |-> t] \in SelectionEvent
      BY DEF SelectionEvent
    <3>2. QED
      BY <3>1
  <2> DEFINE under == Front(StackOf(selections))
  <2>2. StackOf(selections) \in Seq(Result \cup {NoStrategy})
    BY <2>1, StackGrows DEF RegistryInv
  <2>3. under \in Seq(Result \cup {NoStrategy})
    BY <2>2 DEF Front
  <2> HIDE DEF under
  <2>4. Top(under) \in Result \cup {NoStrategy}
    BY <2>3 DEF Top, Last
  <2>5. QED
    BY <2>4 DEF under
<1> HIDE DEF back
<1>3. e \in SelectionEvent /\ e.reason = reason /\ e.result = back
  BY <1>2 DEF SelectionEvent
<1> HIDE DEF e
<1>4. QED
  BY <1>1, <1>3 DEF Appends, back

LEMMA AppendKeepsRegistry ==
  ASSUME RegistryInv, NEW e, Appends(e), UNCHANGED evidence
  PROVE  RegistryInv'
<1> DEFINE h == selections
           g == Append(selections, e)
           n == Len(selections)
<1>1. /\ h \in Seq(SelectionEvent) /\ e \in SelectionEvent /\ n \in Nat
      /\ selections' = g
  BY DEF RegistryInv, Appends
<1>2. /\ g \in Seq(SelectionEvent) /\ Len(g) = n + 1 /\ DOMAIN g = 1..(n + 1)
      /\ g[n + 1] = e /\ g # <<>> /\ DOMAIN h = 1..n
      /\ \A i \in 1..n : g[i] = h[i]
  BY <1>1
<1>3. Selected' = e.result
  BY <1>1, <1>2 DEF Selected, Last
<1>4. /\ StackOf(h) \in Seq(Result \cup {NoStrategy})
      /\ StackOf(g) = Applied(StackOf(h), e)
  BY <1>1, StackGrows
<1>5. Top(Applied(StackOf(h), e)) = e.result
  <2> DEFINE stack == StackOf(h)
  <2> HIDE DEF stack
  <2>1. CASE e.reason \in SelectReason
    <3>1. stack \in Seq(Result \cup {NoStrategy}) /\ Applied(stack, e) = Append(stack, e.result)
      BY <1>4, <2>1 DEF stack, Applied
    <3>2. e.result \in Result \cup {NoStrategy}
      BY <1>1 DEF SelectionEvent
    <3>3. QED
      BY <3>1, <3>2 DEF Top, Last, stack
  <2>2. CASE ~(e.reason \in SelectReason)
    BY <2>2 DEF Applied, Appends
  <2>3. QED
    BY <2>1, <2>2
<1>6. \A i \in 1..n : SubSeq(g, 1, i - 1) = SubSeq(h, 1, i - 1)
  BY <1>1, <1>2
<1>7. SubSeq(g, 1, (n + 1) - 1) = h
  BY <1>1, <1>2
<1> HIDE DEF g
<1>8. RegistryReplays'
  <2> SUFFICES ASSUME NEW i \in 1..(n + 1)
               PROVE  IF g[i].reason \in SelectReason
                      THEN /\ g[i].result \in evidence \cap PaperCandidate
                           /\ g[i].result # Top(StackOf(SubSeq(g, 1, i - 1)))
                      ELSE /\ StackOf(SubSeq(g, 1, i - 1)) # <<>>
                           /\ g[i].result = Top(Front(StackOf(SubSeq(g, 1, i - 1))))
    BY <1>1, <1>2 DEF RegistryReplays
  <2>1. CASE i \in 1..n
    <3>1. g[i] = h[i] /\ SubSeq(g, 1, i - 1) = SubSeq(h, 1, i - 1)
      BY <1>2, <1>6, <2>1
    <3>2. i \in DOMAIN h
      BY <1>2, <2>1
    <3>3. QED
      BY <3>1, <3>2 DEF RegistryInv, RegistryReplays
  <2>2. CASE i = n + 1
    <3>1. g[i] = e /\ SubSeq(g, 1, i - 1) = h
      BY <1>2, <1>7, <2>2
    <3>2. Selected = Top(StackOf(h))
      BY DEF RegistryInv
    <3>3. ~(e.reason \in SelectReason /\ e.reason \in RollbackReason)
      BY DEF SelectReason, RollbackReason
    <3> HIDE DEF h, n
    <3>4. QED
      BY <3>1, <3>2, <3>3 DEF Appends, h
  <2>3. QED
    BY <1>1, <2>1, <2>2
<1>9. QED
  BY <1>1, <1>2, <1>3, <1>4, <1>5, <1>8 DEF RegistryInv

-----------------------------------------------------------------------------
(* The gates *)

\* Windows are appended up to their number; each has the metrics of all.
THEOREM PolicyTyped == PolicySpec => []PolicyTypeOK
<1>1. PolicyInit => PolicyTypeOK
  BY PolicyAssumption DEF PolicyInit, PolicyTypeOK
<1>2. PolicyTypeOK /\ [PolicyNext]_windows => PolicyTypeOK'
  <2>1. ASSUME PolicyTypeOK, NEW of \in [Strategy -> Metrics], NEW reference \in HoldReturn,
               ScoreWindow(of, reference)
        PROVE  PolicyTypeOK'
    <3>1. [of |-> of, hold |-> reference] \in Window
      BY DEF Window
    <3>2. windows' \in Seq(Window) /\ Len(windows') = Len(windows) + 1
      BY <2>1, <3>1 DEF PolicyTypeOK, ScoreWindow
    <3>3. QED
      BY <2>1, <3>2, PolicyAssumption DEF PolicyTypeOK, ScoreWindow
  <2>2. ASSUME PolicyTypeOK, UNCHANGED windows PROVE PolicyTypeOK'
    BY <2>2 DEF PolicyTypeOK
  <2>3. QED
    BY <2>1, <2>2 DEF PolicyNext
<1>3. QED
  BY <1>1, <1>2, PTL DEF PolicySpec

\* In a full comparison every metric is a number.
LEMMA MetricsAreNumbers ==
    ASSUME PolicyTypeOK, Len(windows) = NumWindows,
           NEW w \in 1..NumWindows, NEW s \in Strategy
    PROVE  /\ windows[w].hold \in Int
           /\ windows[w].of[s] \in [trades: Nat, return: Int, drawdown: Nat, turnover: Nat]
<1>1. windows[w] \in Window
  BY DEF PolicyTypeOK
<1>2. QED
  BY <1>1, PolicyAssumption DEF Window

\* No two strategies beat each other.
LEMMA Strict == PolicyTypeOK => PromotionIsStrict
<1>1. SUFFICES ASSUME PolicyTypeOK, NEW a \in Strategy, NEW b \in Strategy,
                      Beats(a, b), Beats(b, a)
               PROVE  FALSE
  BY DEF PromotionIsStrict
<1>2. NumWindows \in 1..NumWindows
  BY PolicyAssumption
<1>3. /\ windows[NumWindows].of[a].return \in Int
      /\ windows[NumWindows].of[b].return \in Int
  BY <1>1, <1>2, MetricsAreNumbers DEF Beats
<1>4. QED
  BY <1>1, <1>3 DEF Beats, BeatsHoldout

\* Beating is transitive: window by window, and in the holdout.
LEMMA Transitive == PolicyTypeOK => PromotionIsTransitive
<1>1. SUFFICES ASSUME PolicyTypeOK, NEW a \in Strategy, NEW b \in Strategy, NEW c \in Strategy,
                      Beats(a, b), Beats(b, c)
               PROVE  Beats(a, c)
  BY DEF PromotionIsTransitive
<1>2. ASSUME NEW w \in 1..NumWindows
      PROVE  PassesWindow(windows[w].of[a], windows[w].of[c])
  <2>1. \A s \in {a, b, c} :
          windows[w].of[s] \in [trades: Nat, return: Int, drawdown: Nat, turnover: Nat]
    BY <1>1, <1>2, MetricsAreNumbers DEF Beats
  <2>2. PassesWindow(windows[w].of[a], windows[w].of[b]) /\ PassesWindow(windows[w].of[b], windows[w].of[c])
    BY <1>1, <1>2 DEF Beats
  <2>3. QED
    BY <2>1, <2>2 DEF PassesWindow
<1>3. BeatsHoldout(windows[NumWindows].of[a], windows[NumWindows].of[c], windows[NumWindows].hold)
  <2>1. NumWindows \in 1..NumWindows
    BY PolicyAssumption
  <2>2. \A s \in {a, b, c} : windows[NumWindows].of[s].return \in Int
    BY <1>1, <2>1, MetricsAreNumbers DEF Beats
  <2>3. QED
    BY <1>1, <2>2 DEF Beats, BeatsHoldout
<1>4. QED
  BY <1>1, <1>2, <1>3 DEF Beats

\* After a promotion the way back is closed until the bars have changed.
THEOREM PromotionsStrict == PolicySpec => []PromotionIsStrict
  BY PolicyTyped, Strict, PTL

\* A row of promotions on the same bars has no cycle.
THEOREM PromotionsTransitive == PolicySpec => []PromotionIsTransitive
  BY PolicyTyped, Transitive, PTL
-----------------------------------------------------------------------------
(* The attempts: the invariant *)

\* What a claim counted is there, and it kept what it started from.
ClaimFits(c) ==
    /\ c.candidate \in Result
    /\ c.expected \in 1..CurrentEvent
    /\ c.orders \in 0..Len(journal)
    /\ c.research \in 0..Len(research)
    /\ c.start \in Nat /\ c.end \in Nat /\ c.at \in Nat
    /\ c.score \in Score
    /\ c.state.selection = c.expected /\ c.state.research = c.research

\* Claims are in the order of their times, although the clock is set back.
ClaimsInOrder ==
    \A i, j \in DOMAIN claims : i <= j => claims[i].at <= claims[j].at

\* Inductive.  RecoveryHolds alone is not: that a row appended later is not
\* counted by an older claim has to be known of all claims, not of the newest,
\* to which requirePaperPromotionAppendTime compares it.
PromotionInv ==
    /\ PromotionTypeOK
    /\ RegistryInv
    /\ now \in Nat \ {0} /\ newest \in Nat
    /\ signals \in Seq([selection: Nat, asOf: Nat])
    /\ \E S : claims \in Seq(S)
    /\ \A i \in DOMAIN claims : ClaimFits(claims[i])
    /\ ClaimsInOrder
    /\ \A i \in DOMAIN signals : signals[i].selection \in 1..CurrentEvent
    /\ RecoveryHolds
    /\ SignalsReplay

LEMMA InitPromotion == Init => PromotionInv
<1> SUFFICES ASSUME Init PROVE PromotionInv
  OBVIOUS
<1>1. /\ evidence = {} /\ selections = <<>> /\ research = <<>> /\ journal = <<>>
      /\ signals = <<>> /\ claims = <<>> /\ decisions = <<>>
      /\ authority = [events |-> 0, armed |-> FALSE]
      /\ runner = [fence |-> 0, held |-> FALSE, expires |-> 0, unfinished |-> FALSE]
      /\ proc = [p \in Process |-> 0]
      /\ now = 1 /\ newest = 1
  BY DEF Init, RegistryInit
<1>2. \A S : <<>> \in Seq(S)
  OBVIOUS
<1>3. Len(<<>>) = 0 /\ DOMAIN <<>> = {}
  OBVIOUS
<1>4. RegistryInv
  BY <1>1, InitRegistry
<1>5. PromotionTypeOK
  BY <1>1, <1>2, <1>3 DEF PromotionTypeOK, RegistryTypeOK
<1>6. RecoveryHolds /\ SignalsReplay /\ ClaimsInOrder
  BY <1>1, <1>3 DEF RecoveryHolds, SignalsReplay, ClaimsInOrder
<1>7. QED
  BY <1>1, <1>2, <1>3, <1>4, <1>5, <1>6 DEF PromotionInv

-----------------------------------------------------------------------------
(* Rows that are appended beside the attempts *)

Longer(t, s) == Len(s) <= Len(t) /\ \A k \in 1..Len(s) : t[k] = s[k]

\* The rows a claim reads are only appended to, those with a time after the
\* newest claim.
HistoriesGrow ==
    /\ selections' \in Seq(SelectionEvent) /\ Longer(selections', selections)
    /\ journal' \in Seq(Trade) /\ Longer(journal', journal)
    /\ research' \in Seq(Research) /\ Longer(research', research)
    /\ \A k \in DOMAIN journal' \ DOMAIN journal : MayAppend /\ journal'[k].at = now
    /\ \A k \in DOMAIN research' \ DOMAIN research : MayAppend /\ research'[k].at = now

\* A row that may be appended is later than every claim.
LEMMA AfterAllClaims ==
  ASSUME PromotionInv, MayAppend, NEW i \in DOMAIN claims
  PROVE  claims[i].at < now
<1>1. PICK S : claims \in Seq(S)
  BY DEF PromotionInv
<1>2. claims # <<>> /\ Len(claims) \in DOMAIN claims /\ i <= Len(claims)
  BY <1>1
<1>3. claims[i].at <= claims[Len(claims)].at
  BY <1>2 DEF PromotionInv, ClaimsInOrder
<1>4. claims[Len(claims)].at < now
  BY <1>2 DEF MayAppend
<1>5. claims[i].at \in Nat /\ claims[Len(claims)].at \in Nat /\ now \in Nat
  BY <1>2 DEF PromotionInv, ClaimFits
<1>6. QED
  BY <1>3, <1>4, <1>5

LEMMA ClaimStays ==
  ASSUME PromotionInv, HistoriesGrow, NEW i \in DOMAIN claims, NEW c, c = claims[i],
         \A j \in 1..i : claims'[j] = claims[j]
  PROVE  ClaimFits(c)' /\ ClaimReplays(c, i)'
<1>1. ClaimFits(c) /\ ClaimReplays(c, i)
  BY DEF PromotionInv, RecoveryHolds
<1>2. /\ journal \in Seq(Trade) /\ research \in Seq(Research) /\ selections \in Seq(SelectionEvent)
      /\ i \in Nat \ {0}
  <2>1. PICK S : claims \in Seq(S)
    BY DEF PromotionInv
  <2>2. QED
    BY <2>1 DEF PromotionInv, PromotionTypeOK, RegistryTypeOK
<1>3. /\ c.expected \in 1..Len(selections) /\ c.orders \in 0..Len(journal)
      /\ c.research \in 0..Len(research) /\ c.at \in Nat
  BY <1>1 DEF ClaimFits, CurrentEvent
<1>4. /\ selections'[c.expected] = selections[c.expected]
      /\ c.expected \in 1..Len(selections')
  BY <1>2, <1>3 DEF HistoriesGrow, Longer
<1>5. /\ \A k \in 1..Len(journal) : journal'[k] = journal[k]
      /\ \A k \in 1..Len(research) : research'[k] = research[k]
      /\ Len(journal) <= Len(journal') /\ Len(research) <= Len(research')
      /\ journal' \in Seq(Trade) /\ research' \in Seq(Research)
  BY DEF HistoriesGrow, Longer
<1>6. ClaimFits(c)'
  BY <1>1, <1>2, <1>3, <1>4, <1>5 DEF ClaimFits, CurrentEvent
<1>7. CutoffsMatch(c)'
  <2>1. ASSUME NEW k \in DOMAIN journal' PROVE k <= c.orders <=> journal'[k].at <= c.at
    <3>1. CASE k \in DOMAIN journal
      <4>1. journal'[k] = journal[k]
        <5>1. k \in 1..Len(journal)
          BY <1>2, <3>1
        <5>2. QED
          BY ONLY <1>5, <5>1
      <4>2. QED
        BY <1>1, <3>1, <4>1 DEF ClaimReplays, CutoffsMatch
    <3>2. CASE k \notin DOMAIN journal
      <4>1. MayAppend /\ journal'[k].at = now
        BY <2>1, <3>2 DEF HistoriesGrow
      <4>2. c.at < now /\ now \in Nat
        BY <4>1, AfterAllClaims DEF PromotionInv
      <4>3. k \in Nat /\ Len(journal) \in Nat /\ ~(k <= Len(journal)) /\ c.orders <= Len(journal)
            /\ c.orders \in Nat
        BY <1>2, <1>3, <1>5, <2>1, <3>2
      <4>4. QED
        BY <1>3, <4>1, <4>2, <4>3
    <3>3. QED
      BY <3>1, <3>2
  <2>2. ASSUME NEW k \in DOMAIN research' PROVE k <= c.research <=> research'[k].at <= c.at
    <3>1. CASE k \in DOMAIN research
      <4>1. research'[k] = research[k]
        <5>1. k \in 1..Len(research)
          BY <1>2, <3>1
        <5>2. QED
          BY ONLY <1>5, <5>1
      <4>2. QED
        BY <1>1, <3>1, <4>1 DEF ClaimReplays, CutoffsMatch
    <3>2. CASE k \notin DOMAIN research
      <4>1. MayAppend /\ research'[k].at = now
        BY <2>2, <3>2 DEF HistoriesGrow
      <4>2. c.at < now /\ now \in Nat
        BY <4>1, AfterAllClaims DEF PromotionInv
      <4>3. k \in Nat /\ Len(research) \in Nat /\ ~(k <= Len(research)) /\ c.research <= Len(research)
            /\ c.research \in Nat
        BY <1>2, <1>3, <1>5, <2>2, <3>2
      <4>4. QED
        BY <1>3, <4>1, <4>2, <4>3
    <3>3. QED
      BY <3>1, <3>2
  <2>3. QED
    BY <2>1, <2>2 DEF CutoffsMatch
<1>8. {research'[r].result : r \in 1..c.research} = {research[r].result : r \in 1..c.research}
  <2>1. \A r \in 1..c.research : research'[r] = research[r]
    BY <1>2, <1>3, <1>5
  <2>2. QED
    BY <2>1
<1>9. SubSeq(journal', 1, c.orders) = SubSeq(journal, 1, c.orders)
  BY <1>2, <1>3, <1>5
<1>10. \A k \in 1..c.orders : journal'[k].close <= c.at
  <2>1. \A k \in 1..c.orders : journal'[k] = journal[k]
    BY <1>2, <1>3, <1>5
  <2>2. QED
    BY <1>1, <2>1 DEF ClaimReplays
<1>11. IsFresh(c, i)'
  <2>1. \A r \in 1..c.research : research'[r] = research[r]
    BY <1>2, <1>3, <1>5
  <2>2. \A j \in 1..(i - 1) : claims'[j] = claims[j]
    BY <1>2
  <2>3. QED
    BY <1>1, <2>1, <2>2 DEF ClaimReplays, IsFresh
<1>12. QED
  BY <1>1, <1>4, <1>6, <1>7, <1>8, <1>9, <1>10, <1>11 DEF ClaimReplays, Prefix

\* A decision that is replayed reads its claim and its selection only.
LEMMA DecisionStays ==
  ASSUME PromotionInv, NEW i \in DOMAIN decisions, DecisionReplays(i),
         selections' \in Seq(SelectionEvent), Longer(selections', selections),
         claims'[i] = claims[i], decisions'[i] = decisions[i]
  PROVE  DecisionReplays(i)'
<1>1. i \in DOMAIN claims
  <2>1. PICK S : claims \in Seq(S)
    BY DEF PromotionInv
  <2>2. QED
    BY <2>1 DEF PromotionInv, PromotionTypeOK
<1>2. claims[i].expected \in 1..Len(selections)
  BY <1>1 DEF PromotionInv, ClaimFits, CurrentEvent
<1>3. decisions[i].decision = "PROMOTE"
      => selections'[decisions[i].event] = selections[decisions[i].event]
  <2>1. SUFFICES ASSUME decisions[i].decision = "PROMOTE"
                 PROVE  decisions[i].event \in 1..Len(selections)
    BY DEF Longer
  <2>2. decisions[i].event \in {decisions[j].event : j \in DOMAIN decisions} \ {0}
    BY <1>2, <2>1 DEF DecisionReplays
  <2>3. {s \in DOMAIN selections : selections[s].reason = "auto_comparison"}
          = {decisions[j].event : j \in DOMAIN decisions} \ {0}
    BY DEF PromotionInv, RecoveryHolds
  <2>4. selections \in Seq(SelectionEvent)
    BY DEF PromotionInv, RegistryInv
  <2>5. decisions[i].event \in {s \in DOMAIN selections : selections[s].reason = "auto_comparison"}
    BY <2>2, <2>3, Zenon
  <2>6. decisions[i].event \in DOMAIN selections
    BY <2>5, Zenon
  <2>7. DOMAIN selections = 1..Len(selections)
    BY <2>4
  <2>8. QED
    BY <2>6, <2>7, Zenon
<1>4. QED
  BY <1>3 DEF DecisionReplays

\* What was promoted up to an event does not change when later ones come.
LEMMA CutoffStays ==
  ASSUME PromotionInv, NEW r, NEW s \in 0..CurrentEvent,
         selections' \in Seq(SelectionEvent), Longer(selections', selections),
         \A i \in DOMAIN decisions : claims'[i] = claims[i] /\ decisions'[i] = decisions[i],
         DOMAIN decisions \subseteq DOMAIN decisions',
         \A i \in DOMAIN decisions' \ DOMAIN decisions : decisions'[i].event \notin 1..CurrentEvent
  PROVE  SignalCutoff(r, s)' = SignalCutoff(r, s)
<1> DEFINE ofPast == {i \in DOMAIN decisions : decisions[i].event \in 1..s
                                               /\ selections[decisions[i].event].result = r}
           ofNow == {i \in DOMAIN decisions' : decisions'[i].event \in 1..s
                                               /\ selections'[decisions'[i].event].result = r}
<1>1. s \in Nat /\ s <= Len(selections) /\ Len(selections) \in Nat
  BY DEF CurrentEvent, PromotionInv, RegistryInv
<1>2. \A e \in 1..s : selections'[e] = selections[e] /\ e \in 1..CurrentEvent
  BY <1>1 DEF Longer, CurrentEvent
<1>3. ofNow = ofPast
  BY <1>2
<1>4. {claims'[i].end : i \in ofNow} = {claims[i].end : i \in ofPast}
  <2>1. \A i \in ofPast : claims'[i] = claims[i]
    OBVIOUS
  <2> HIDE DEF ofNow, ofPast
  <2>2. QED
    BY <1>3, <2>1
<1>5. SignalCutoff(r, s) = Max({0} \cup {claims[i].end : i \in ofPast})
  BY Zenon DEF SignalCutoff
<1>6. SignalCutoff(r, s)' = Max({0} \cup {claims'[i].end : i \in ofNow})
  BY Zenon DEF SignalCutoff
<1> HIDE DEF ofNow, ofPast
<1>7. QED
  BY <1>4, <1>5, <1>6

\* Signals of the past stay acceptable.
LEMMA SignalsStay ==
  ASSUME PromotionInv, UNCHANGED signals,
         selections' \in Seq(SelectionEvent), Longer(selections', selections),
         \A i \in DOMAIN decisions : claims'[i] = claims[i] /\ decisions'[i] = decisions[i],
         DOMAIN decisions \subseteq DOMAIN decisions',
         \A i \in DOMAIN decisions' \ DOMAIN decisions : decisions'[i].event \notin 1..CurrentEvent
  PROVE  /\ SignalsReplay'
         /\ \A i \in DOMAIN signals' : signals'[i].selection \in 1..CurrentEvent'
<1>1. ASSUME NEW i \in DOMAIN signals
      PROVE  /\ signals[i].selection \in 1..CurrentEvent'
             /\ (SignalCutoff(selections[signals[i].selection].result, signals[i].selection)
                  < signals[i].asOf)'
  <2>1. PICK s, r, a : /\ s = signals[i].selection /\ r = selections[s].result
                       /\ a = signals[i].asOf
    OBVIOUS
  <2>2. s \in 1..CurrentEvent /\ s \in 0..CurrentEvent
    BY <1>1, <2>1 DEF PromotionInv
  <2>3. Len(selections) \in Nat /\ Len(selections') \in Nat
    BY DEF PromotionInv, RegistryInv
  <2>4. selections'[s].result = r /\ s \in 1..CurrentEvent'
    BY <2>1, <2>2, <2>3 DEF Longer, CurrentEvent
  <2>5. SignalCutoff(r, s) < a
    BY <1>1, <2>1 DEF PromotionInv, SignalsReplay
  <2>6. SignalCutoff(r, s)' = SignalCutoff(r, s)
    BY <2>2, CutoffStays
  <2>7. SignalCutoff(r, s)' < a
    BY <2>5, <2>6
  <2>8. signals'[i].selection = s /\ signals'[i].asOf = a
    BY <2>1
  <2>9. QED
    BY <2>1, <2>4, <2>7, <2>8 DEF SignalCutoff
<1>2. QED
  BY <1>1 DEF SignalsReplay

-----------------------------------------------------------------------------
(* What goes on beside the attempts *)

\* The types of what no claim reads by its position.
RestTyped ==
    /\ authority \in [events: Nat, armed: BOOLEAN]
    /\ runner \in [fence: Nat, held: BOOLEAN, expires: Nat, unfinished: BOOLEAN]
    /\ now \in Nat \ {0} /\ newest \in Nat

\* A step of the world: claims and decisions stay, and an event it appends is
\* none of a comparison.
WorldStep ==
    /\ HistoriesGrow /\ RestTyped'
    /\ RegistryInv' /\ evidence' \subseteq Result
    /\ selections' = selections
       \/ \E e : selections' = Append(selections, e) /\ e.reason # "auto_comparison"
    /\ UNCHANGED <<claims, decisions>>
    /\ proc' \in [Process -> 0..Len(claims)]

LEMMA WorldKeepsRecovery ==
  ASSUME PromotionInv, WorldStep
  PROVE  RecoveryHolds' /\ \A i \in DOMAIN claims' : ClaimFits(claims[i])'
<1>1. UNCHANGED <<claims, decisions>>
  BY DEF WorldStep
<1>2. ASSUME NEW i \in DOMAIN claims
      PROVE  ClaimFits(claims[i])' /\ ClaimReplays(claims[i], i)'
  <2>1. PICK c : c = claims[i]
    OBVIOUS
  <2>2. ClaimFits(c)' /\ ClaimReplays(c, i)'
    BY <1>1, <2>1, ClaimStays DEF WorldStep
  <2>3. claims'[i] = c
    BY <1>1, <2>1
  <2>4. QED
    BY <2>2, <2>3 DEF ClaimFits, ClaimReplays, IsFresh, CutoffsMatch, Prefix
<1>3. ASSUME NEW i \in DOMAIN decisions PROVE DecisionReplays(i)'
  <2>1. DecisionReplays(i)
    BY DEF PromotionInv, RecoveryHolds
  <2>2. QED
    BY <1>1, <2>1, DecisionStays DEF WorldStep, HistoriesGrow
<1>4. \A i \in DOMAIN decisions : i < Len(claims) => decisions[i].at <= claims[i + 1].at
  BY DEF PromotionInv, RecoveryHolds
<1>5. {s \in DOMAIN selections' : selections'[s].reason = "auto_comparison"}
        = {s \in DOMAIN selections : selections[s].reason = "auto_comparison"}
  <2>1. selections \in Seq(SelectionEvent)
    BY DEF PromotionInv, RegistryInv
  <2>2. CASE selections' = selections
    BY <2>2
  <2>3. CASE \E e : selections' = Append(selections, e) /\ e.reason # "auto_comparison"
    <3>1. PICK e : selections' = Append(selections, e) /\ e.reason # "auto_comparison"
      BY <2>3
    <3>2. /\ DOMAIN selections' = DOMAIN selections \cup {Len(selections) + 1}
          /\ Len(selections) + 1 \notin DOMAIN selections
          /\ selections'[Len(selections) + 1] = e
          /\ \A s \in DOMAIN selections : selections'[s] = selections[s]
      BY <2>1, <3>1
    <3>3. QED
      BY <3>1, <3>2
  <2>4. QED
    BY <2>2, <2>3 DEF WorldStep
<1>6. {s \in DOMAIN selections : selections[s].reason = "auto_comparison"}
        = {decisions[i].event : i \in DOMAIN decisions} \ {0}
  BY DEF PromotionInv, RecoveryHolds
<1>7. RecoveryHolds'
  BY <1>1, <1>2, <1>3, <1>4, <1>5, <1>6 DEF RecoveryHolds
<1>8. QED
  BY <1>1, <1>2, <1>7

LEMMA WorldKeepsTypes ==
  ASSUME PromotionInv, WorldStep
  PROVE  PromotionTypeOK'
  BY DEF WorldStep, HistoriesGrow, RestTyped, PromotionInv, PromotionTypeOK, RegistryTypeOK,
         RegistryInv

LEMMA WorldKeeps ==
  ASSUME PromotionInv, WorldStep,
         SignalsReplay' /\ \A i \in DOMAIN signals' : signals'[i].selection \in 1..CurrentEvent',
         signals' \in Seq([selection: Nat, asOf: Nat])
  PROVE  PromotionInv'
<1>1. UNCHANGED claims
  BY DEF WorldStep
<1>2. /\ \E S : claims' \in Seq(S)
      /\ ClaimsInOrder'
  BY <1>1 DEF PromotionInv, ClaimsInOrder
<1>3. RegistryInv' /\ now' \in Nat \ {0} /\ newest' \in Nat
  BY DEF WorldStep, RestTyped
<1>4. QED
  BY <1>2, <1>3, WorldKeepsTypes, WorldKeepsRecovery DEF PromotionInv

LEMMA QuietWorldKeeps ==
  ASSUME PromotionInv, WorldStep, UNCHANGED signals
  PROVE  PromotionInv'
<1>1. SignalsReplay' /\ \A i \in DOMAIN signals' : signals'[i].selection \in 1..CurrentEvent'
  BY SignalsStay DEF WorldStep, HistoriesGrow
<1>2. QED
  BY <1>1, WorldKeeps DEF PromotionInv

\* Nothing is appended.
LEMMA NothingGrows ==
  ASSUME PromotionInv, UNCHANGED <<selections, journal, research>>
  PROVE  HistoriesGrow
  BY DEF PromotionInv, PromotionTypeOK, RegistryTypeOK, HistoriesGrow, Longer

LEMMA RegistryUnchanged ==
  ASSUME PromotionInv, UNCHANGED registryVars
  PROVE  RegistryInv' /\ evidence' \subseteq Result
<1>1. UNCHANGED <<evidence, selections>>
  BY DEF registryVars
<1>2. QED
  BY <1>1 DEF PromotionInv, RegistryInv, RegistryReplays, Selected, PromotionTypeOK, RegistryTypeOK

LEMMA RegisterStep ==
  ASSUME PromotionInv, NEW r \in Result, NEW last \in 0..now, Register(r, last)
  PROVE  PromotionInv'
<1> DEFINE row == [result |-> r, last |-> last, at |-> now]
<1>1. /\ MayAppend /\ evidence' = evidence \cup {r} /\ research' = Append(research, row)
      /\ UNCHANGED <<selections, journal, authority, runner, signals, newest, claims, decisions, proc, now>>
  BY DEF Register, RegisterEvidence
<1>2. row \in Research /\ row.at = now /\ research \in Seq(Research) /\ journal \in Seq(Trade)
      /\ selections \in Seq(SelectionEvent) /\ evidence \subseteq Result
  BY DEF Research, PromotionInv, PromotionTypeOK, RegistryTypeOK
<1> HIDE DEF row
<1>3. HistoriesGrow
  <2>1. /\ research' \in Seq(Research) /\ Longer(research', research)
        /\ \A k \in DOMAIN research' \ DOMAIN research : research'[k] = row
    BY <1>1, <1>2 DEF Longer
  <2>2. Longer(journal', journal) /\ Longer(selections', selections)
    BY <1>1, <1>2 DEF Longer
  <2>3. QED
    BY <1>1, <1>2, <2>1, <2>2 DEF HistoriesGrow
<1>4. RegistryInv'
  BY <1>1 DEF PromotionInv, RegistryInv, RegistryReplays, Selected
<1>5. QED
  BY <1>1, <1>2, <1>3, <1>4, QuietWorldKeeps
     DEF WorldStep, RestTyped, PromotionInv, PromotionTypeOK

LEMMA FillStep ==
  ASSUME PromotionInv, NEW close \in 1..newest, FillTrade(close)
  PROVE  PromotionInv'
<1> DEFINE row == [kind |-> IF IsFlat(journal) THEN "buy" ELSE "sell", close |-> close, at |-> now]
<1>1. /\ MayAppend /\ journal' = Append(journal, row)
      /\ UNCHANGED <<evidence, selections, research, authority, runner, signals, newest, claims,
                     decisions, proc, now>>
  BY DEF FillTrade, registryVars
<1>2. row \in Trade /\ row.at = now /\ research \in Seq(Research) /\ journal \in Seq(Trade)
      /\ selections \in Seq(SelectionEvent)
  BY DEF Trade, PromotionInv, PromotionTypeOK, RegistryTypeOK
<1> HIDE DEF row
<1>3. HistoriesGrow
  <2>1. /\ journal' \in Seq(Trade) /\ Longer(journal', journal)
        /\ \A k \in DOMAIN journal' \ DOMAIN journal : journal'[k] = row
    BY <1>1, <1>2 DEF Longer
  <2>2. Longer(research', research) /\ Longer(selections', selections)
    BY <1>1, <1>2 DEF Longer
  <2>3. QED
    BY <1>1, <1>2, <2>1, <2>2 DEF HistoriesGrow
<1>4. RegistryInv' /\ evidence' \subseteq Result
  BY <1>1, RegistryUnchanged DEF registryVars
<1>5. QED
  BY <1>1, <1>3, <1>4, QuietWorldKeeps
     DEF WorldStep, RestTyped, PromotionInv, PromotionTypeOK

\* An event that a manual change or the policy appends.
LEMMA EventStep ==
  ASSUME PromotionInv, NEW e, Appends(e), e.reason # "auto_comparison", RestTyped',
         UNCHANGED <<evidence, research, journal, signals, claims, decisions, proc>>
  PROVE  PromotionInv'
<1>1. /\ selections \in Seq(SelectionEvent) /\ e \in SelectionEvent
      /\ selections' = Append(selections, e)
  BY DEF PromotionInv, RegistryInv, Appends
<1>2. selections' \in Seq(SelectionEvent) /\ Longer(selections', selections)
  BY <1>1 DEF Longer
<1>3. HistoriesGrow
  BY <1>2 DEF HistoriesGrow, Longer, PromotionInv, PromotionTypeOK
<1>4. RegistryInv'
  BY AppendKeepsRegistry DEF PromotionInv
<1>5. evidence' \subseteq Result /\ proc' \in [Process -> 0..Len(claims)]
  BY DEF PromotionInv, PromotionTypeOK, RegistryTypeOK
<1>6. QED
  BY <1>1, <1>3, <1>4, <1>5, QuietWorldKeeps DEF WorldStep

\* Steps that touch none of the rows a claim reads.
LEMMA AsideStep ==
  ASSUME PromotionInv, RestTyped', proc' \in [Process -> 0..Len(claims)],
         UNCHANGED <<evidence, selections, research, journal, signals, claims, decisions>>
  PROVE  PromotionInv'
<1>1. RegistryInv' /\ evidence' \subseteq Result
  BY RegistryUnchanged DEF registryVars
<1>2. HistoriesGrow
  BY NothingGrows
<1>3. QED
  BY <1>1, <1>2, QuietWorldKeeps DEF WorldStep

LEMMA RunnerStep ==
  ASSUME PromotionInv, RunnerWorks
  PROVE  PromotionInv'
<1>1. /\ UNCHANGED <<research, journal, signals, newest, claims, decisions, proc, now>>
      /\ authority \in [events: Nat, armed: BOOLEAN]
      /\ runner \in [fence: Nat, held: BOOLEAN, expires: Nat, unfinished: BOOLEAN]
      /\ now \in Nat \ {0} /\ newest \in Nat /\ proc \in [Process -> 0..Len(claims)]
  BY DEF RunnerWorks, PromotionInv, PromotionTypeOK
<1>2. CASE /\ runner' \in {[runner EXCEPT !.unfinished = ~@], [runner EXCEPT !.held = FALSE, !.expires = 0]}
           /\ UNCHANGED <<registryVars, authority>>
  <2>1. runner' \in [fence: Nat, held: BOOLEAN, expires: Nat, unfinished: BOOLEAN]
    <3>1. runner.fence \in Nat /\ runner.expires \in Nat
      BY <1>1
    <3>2. \/ runner' = [fence |-> runner.fence, held |-> runner.held, expires |-> runner.expires,
                        unfinished |-> ~runner.unfinished]
          \/ runner' = [fence |-> runner.fence, held |-> FALSE, expires |-> 0,
                        unfinished |-> runner.unfinished]
      BY <1>1, <1>2
    <3>3. runner.held \in BOOLEAN /\ runner.unfinished \in BOOLEAN
      BY <1>1
    <3>4. 0 \in Nat /\ (~runner.unfinished) \in BOOLEAN /\ FALSE \in BOOLEAN
      OBVIOUS
    <3>5. CASE runner' = [fence |-> runner.fence, held |-> runner.held, expires |-> runner.expires,
                          unfinished |-> ~runner.unfinished]
      BY ONLY <3>1, <3>3, <3>4, <3>5, Zenon
    <3>6. CASE runner' = [fence |-> runner.fence, held |-> FALSE, expires |-> 0,
                          unfinished |-> runner.unfinished]
      BY ONLY <3>1, <3>3, <3>4, <3>6, Zenon
    <3>7. QED
      BY ONLY <3>2, <3>5, <3>6, Zenon
  <2>2. RestTyped'
    BY <1>1, <1>2, <2>1 DEF RestTyped
  <2>3. QED
    BY <1>1, <1>2, <2>2, AsideStep DEF registryVars
<1>3. CASE /\ RollbackPaperCandidate(CurrentEvent, "automatic_performance_rollback", now)
           /\ authority' = IF authority.armed THEN [events |-> authority.events + 1, armed |-> FALSE]
                                              ELSE authority
           /\ runner' = [runner EXCEPT !.unfinished = FALSE]
  <2>1. RestTyped'
    <3>1. runner' \in [fence: Nat, held: BOOLEAN, expires: Nat, unfinished: BOOLEAN]
      BY <1>1, <1>3
    <3>2. authority' \in [events: Nat, armed: BOOLEAN]
      BY <1>1, <1>3
    <3>3. QED
      BY <1>1, <3>1, <3>2 DEF RestTyped
  <2>2. PICK e : Appends(e) /\ e.reason = "automatic_performance_rollback"
    BY <1>1, <1>3, RollbackAppends DEF RollbackReason, PromotionInv
  <2>3. UNCHANGED evidence
    BY <1>3 DEF RollbackPaperCandidate
  <2>4. QED
    BY <1>1, <2>1, <2>2, <2>3, EventStep
<1>4. QED
  BY <1>2, <1>3 DEF RunnerWorks

LEMMA ManualStep ==
  ASSUME PromotionInv, ManualChange
  PROVE  PromotionInv'
<1>1. /\ UNCHANGED <<research, journal, runner, signals, newest, claims, decisions, proc, now>>
      /\ authority \in [events: Nat, armed: BOOLEAN]
      /\ runner \in [fence: Nat, held: BOOLEAN, expires: Nat, unfinished: BOOLEAN]
      /\ now \in Nat \ {0} /\ newest \in Nat
  BY DEF ManualChange, PromotionInv, PromotionTypeOK
<1>2. ASSUME NEW r \in Result, SelectPaperCandidate(r, CurrentEvent, now), UNCHANGED authority
      PROVE  PromotionInv'
  <2>1. RestTyped'
    BY <1>1, <1>2 DEF RestTyped
  <2>2. PICK e : Appends(e) /\ e.reason = "manual_selection"
    BY <1>1, <1>2, SelectAppends DEF PromotionInv
  <2>3. UNCHANGED evidence
    BY <1>2 DEF SelectPaperCandidate
  <2>4. QED
    BY <1>1, <2>1, <2>2, <2>3, EventStep
<1>3. CASE /\ RollbackPaperCandidate(CurrentEvent, "manual_rollback", now)
           /\ authority' = IF authority.armed THEN [events |-> authority.events + 1, armed |-> FALSE]
                                              ELSE authority
  <2>1. RestTyped'
    BY <1>1, <1>3 DEF RestTyped
  <2>2. PICK e : Appends(e) /\ e.reason = "manual_rollback"
    BY <1>1, <1>3, RollbackAppends DEF RollbackReason, PromotionInv
  <2>3. UNCHANGED evidence
    BY <1>3 DEF RollbackPaperCandidate
  <2>4. QED
    BY <1>1, <2>1, <2>2, <2>3, EventStep
<1>4. QED
  BY <1>2, <1>3 DEF ManualChange

LEMMA SignalStep ==
  ASSUME PromotionInv, NEW asOf \in 1..newest, RecordSignal(asOf)
  PROVE  PromotionInv'
<1> DEFINE row == [selection |-> CurrentEvent, asOf |-> asOf]
           n == Len(signals)
<1>1. /\ signals' = Append(signals, row) /\ Selected # NoStrategy
      /\ SignalCutoff(Selected, CurrentEvent) < asOf
      /\ UNCHANGED <<evidence, selections, research, journal, authority, runner, newest, claims,
                     decisions, proc, now>>
  BY DEF RecordSignal, registryVars
<1>2. /\ signals \in Seq([selection: Nat, asOf: Nat]) /\ selections \in Seq(SelectionEvent)
      /\ newest \in Nat
  BY DEF PromotionInv, RegistryInv
<1>3. CurrentEvent \in 1..CurrentEvent /\ Selected = selections[CurrentEvent].result
  BY <1>1, <1>2 DEF CurrentEvent, Selected, Last
<1>4. row \in [selection: Nat, asOf: Nat] /\ row.selection = CurrentEvent /\ row.asOf = asOf
  BY <1>2 DEF CurrentEvent
<1> HIDE DEF row
<1>5. /\ signals' \in Seq([selection: Nat, asOf: Nat]) /\ DOMAIN signals' = 1..(n + 1)
      /\ signals'[n + 1] = row /\ \A i \in 1..n : signals'[i] = signals[i]
      /\ DOMAIN signals = 1..n /\ n \in Nat
  BY <1>1, <1>2, <1>4
<1>6. ASSUME NEW i \in 1..(n + 1)
      PROVE  /\ signals'[i].selection \in 1..CurrentEvent'
             /\ (SignalCutoff(selections[signals[i].selection].result, signals[i].selection)
                   < signals[i].asOf)'
  <2>1. PICK s, r, a : /\ s = signals'[i].selection /\ r = selections[s].result
                       /\ a = signals'[i].asOf
    OBVIOUS
  <2>2. s \in 1..CurrentEvent /\ SignalCutoff(r, s) < a
    <3>1. CASE i \in 1..n
      <4>1. s = signals[i].selection /\ a = signals[i].asOf
        BY <1>5, <2>1, <3>1
      <4>2. QED
        BY <1>5, <2>1, <3>1, <4>1 DEF PromotionInv, SignalsReplay
    <3>2. CASE i = n + 1
      <4>1. s = CurrentEvent /\ a = asOf /\ r = Selected
        BY <1>3, <1>4, <1>5, <2>1, <3>2
      <4>2. QED
        BY <1>1, <1>3, <4>1
    <3>3. QED
      BY <1>5, <3>1, <3>2
  <2>3. SignalCutoff(r, s)' = SignalCutoff(r, s)
    BY <1>1 DEF SignalCutoff
  <2>4. s \in 1..CurrentEvent'
    BY <1>1, <2>2 DEF CurrentEvent
  <2>5. SignalCutoff(r, s)' < a
    BY <2>2, <2>3
  <2>6. selections'[s].result = r
    BY <1>1, <2>1
  <2>7. QED
    BY <2>1, <2>4, <2>5, <2>6 DEF SignalCutoff
<1>7. SignalsReplay' /\ \A i \in DOMAIN signals' : signals'[i].selection \in 1..CurrentEvent'
  BY <1>5, <1>6 DEF SignalsReplay
<1>8. RegistryInv' /\ evidence' \subseteq Result
  BY <1>1, RegistryUnchanged DEF registryVars
<1>9. HistoriesGrow
  BY <1>1, NothingGrows
<1>10. WorldStep
  BY <1>1, <1>8, <1>9 DEF WorldStep, RestTyped, PromotionInv, PromotionTypeOK
<1>11. QED
  BY <1>5, <1>7, <1>10, WorldKeeps

-----------------------------------------------------------------------------
(* The attempts: a claim *)

LEMMA ClaimStep ==
  ASSUME PromotionInv, NEW p \in Process, NEW candidate \in evidence,
         NEW start \in 1..now, NEW end \in 1..now, NEW score \in Score,
         Claim(p, candidate, CurrentEvent, start, end, score)
  PROVE  PromotionInv'
<1> DEFINE n == Len(claims)
<1>1. PICK c :
        /\ c = [candidate |-> candidate, incumbent |-> Selected, expected |-> CurrentEvent,
                start |-> start, end |-> end, orders |-> Len(journal), research |-> Len(research),
                cash |-> Cash(journal), state |-> State, score |-> score, at |-> now]
        /\ ClaimReplays(c, n + 1)
        /\ claims' = Append(claims, c)
        /\ proc' = [proc EXCEPT ![p] = n + 1]
        /\ ~IsPending /\ Selected # NoStrategy
        /\ claims # <<>> => decisions[n].at <= now
        /\ UNCHANGED <<worldVars, decisions, now>>
  BY DEF Claim
<1>2. /\ selections \in Seq(SelectionEvent) /\ journal \in Seq(Trade) /\ research \in Seq(Research)
      /\ evidence \subseteq Result /\ decisions \in Seq(Decision) /\ now \in Nat \ {0}
      /\ proc \in [Process -> 0..n]
  BY DEF PromotionInv, PromotionTypeOK, RegistryTypeOK
<1>3. CurrentEvent \in 1..CurrentEvent
  BY <1>1, <1>2 DEF CurrentEvent, Selected
<1>4. /\ State.selection = CurrentEvent /\ State.research = Len(research)
  BY DEF State
<1>5. /\ ClaimFits(c) /\ c.at = now
      /\ c.at \in Nat
  BY <1>1, <1>2, <1>3, <1>4 DEF ClaimFits
<1>6. PICK S : claims \in Seq(S)
  BY DEF PromotionInv
<1>7. /\ claims' \in Seq(S \cup {c}) /\ Len(claims') = n + 1 /\ n \in Nat
      /\ DOMAIN claims = 1..n /\ DOMAIN claims' = 1..(n + 1)
      /\ claims'[n + 1] = c /\ \A i \in 1..n : claims'[i] = claims[i]
  BY <1>1, <1>6
<1>8. Len(decisions) = n /\ DOMAIN decisions = 1..n
  BY <1>1, <1>2, <1>7 DEF IsPending, PromotionInv, PromotionTypeOK
<1>9. UNCHANGED <<evidence, selections, research, journal, authority, runner, signals, newest>>
  BY <1>1 DEF worldVars, registryVars
<1>10. HistoriesGrow
  BY <1>9, NothingGrows
<1>11. ASSUME NEW i \in 1..n PROVE claims[i].at <= now /\ claims[i].at \in Nat
  <2>0. n \in 1..n /\ i <= n
    BY <1>7
  <2>1. claims[i].at <= claims[n].at /\ claims[i].at \in Nat /\ claims[n].at \in Nat
    <3>1. ClaimFits(claims[i]) /\ ClaimFits(claims[n])
      BY <1>7, <2>0 DEF PromotionInv
    <3>2. claims[i].at <= claims[n].at
      BY <1>7, <2>0 DEF PromotionInv, ClaimsInOrder
    <3>3. QED
      BY <3>1, <3>2 DEF ClaimFits
  <2>2. claims[n].at <= decisions[n].at
    <3>1. DecisionReplays(n)
      BY <1>8, <2>0 DEF PromotionInv, RecoveryHolds
    <3>2. decisions[n].at >= claims[n].at
      BY <3>1 DEF DecisionReplays
    <3>3. decisions[n] \in Decision
      BY <1>2, <1>8, <2>0
    <3>4. QED
      BY <2>1, <3>2, <3>3 DEF Decision
  <2>3. decisions[n].at <= now /\ decisions[n].at \in Nat
    <3>1. claims # <<>> /\ n \in DOMAIN decisions
      BY <1>6, <1>7, <1>8
    <3>2. decisions[n] \in Decision
      BY <1>2, <3>1
    <3>3. QED
      BY <1>1, <3>1, <3>2 DEF Decision
  <2>4. QED
    <3>1. now \in Nat
      BY <1>2
    <3> HIDE DEF n
    <3>2. QED
      BY <2>1, <2>2, <2>3, <3>1
<1>12. ClaimsInOrder'
  <2>1. ASSUME NEW i \in 1..(n + 1), NEW j \in 1..(n + 1), i <= j
        PROVE  claims'[i].at <= claims'[j].at
    <3>1. CASE j \in 1..n
      <4>1. i \in 1..n
        BY <1>7, <2>1, <3>1
      <4>2. QED
        BY <1>7, <2>1, <3>1, <4>1 DEF PromotionInv, ClaimsInOrder
    <3>2. CASE j = n + 1
      <4>1. CASE i = n + 1
        BY <1>2, <1>5, <1>7, <3>2, <4>1
      <4>2. CASE i \in 1..n
        BY <1>5, <1>7, <1>11, <3>2, <4>2
      <4>3. QED
        BY <1>7, <4>1, <4>2
    <3>3. QED
      BY <1>7, <3>1, <3>2
  <2>2. QED
    BY <1>7, <2>1 DEF ClaimsInOrder
<1>13. ASSUME NEW i \in 1..(n + 1) PROVE ClaimFits(claims[i])' /\ ClaimReplays(claims[i], i)'
  <2>1. PICK b : b = claims'[i]
    OBVIOUS
  <2>2. ClaimFits(b)' /\ ClaimReplays(b, i)'
    <3>1. CASE i \in 1..n
      <4>1. \A j \in 1..i : claims'[j] = claims[j]
        BY <1>7, <3>1
      <4>2. b = claims[i] /\ i \in DOMAIN claims
        BY <1>7, <2>1, <3>1
      <4>3. QED
        BY <1>10, <4>1, <4>2, ClaimStays
    <3>2. CASE i = n + 1
      <4>1. b = c
        BY <1>7, <2>1, <3>2
      <4>2. ClaimReplays(c, n + 1)
        BY <1>1
      <4>3. \A j \in 1..((n + 1) - 1) : claims'[j] = claims[j]
        BY <1>7
      <4>4. ClaimReplays(b, i)'
        <5>1. ClaimReplays(b, i)
          BY <3>2, <4>1, <4>2
        <5>2. \A j \in 1..(i - 1) : claims'[j] = claims[j]
          BY <3>2, <4>3
        <5>3. IsFresh(b, i)'
          BY <1>9, <5>1, <5>2 DEF ClaimReplays, IsFresh
        <5>4. QED
          BY <1>9, <5>1, <5>3 DEF ClaimReplays, CutoffsMatch, Prefix
      <4>5. ClaimFits(b)'
        BY <1>5, <1>9, <4>1 DEF ClaimFits, CurrentEvent
      <4>6. QED
        BY <4>4, <4>5
    <3>3. QED
      BY <1>7, <3>1, <3>2
  <2>3. QED
    BY <2>1, <2>2 DEF ClaimFits, ClaimReplays, IsFresh, CutoffsMatch, Prefix
<1>14. ASSUME NEW i \in DOMAIN decisions
       PROVE  /\ DecisionReplays(i)'
              /\ i < n + 1 => decisions[i].at <= claims'[i + 1].at
  <2>1. i \in 1..n /\ claims'[i] = claims[i]
    BY <1>7, <1>8
  <2>2. DecisionReplays(i)'
    <3>1. DecisionReplays(i)
      BY DEF PromotionInv, RecoveryHolds
    <3>2. Longer(selections', selections) /\ selections' \in Seq(SelectionEvent)
      BY <1>10 DEF HistoriesGrow
    <3>3. QED
      BY <1>1, <2>1, <3>1, <3>2, DecisionStays
  <2>3. CASE i < n
    <3>1. claims'[i + 1] = claims[i + 1]
      BY <1>7, <2>1, <2>3
    <3>2. QED
      BY <2>2, <2>3, <3>1 DEF PromotionInv, RecoveryHolds
  <2>4. CASE i = n
    <3>1. claims'[i + 1] = c /\ claims # <<>>
      BY <1>6, <1>7, <2>1, <2>4
    <3>2. QED
      BY <1>1, <1>5, <2>2, <2>4, <3>1
  <2>5. QED
    BY <1>7, <2>1, <2>3, <2>4
<1>15. RecoveryHolds'
  <2>1. {s \in DOMAIN selections : selections[s].reason = "auto_comparison"}
          = {decisions[i].event : i \in DOMAIN decisions} \ {0}
    BY DEF PromotionInv, RecoveryHolds
  <2> HIDE DEF n
  <2>2. DOMAIN claims' = 1..(n + 1) /\ Len(claims') = n + 1 /\ decisions' = decisions
        /\ selections' = selections
    BY <1>1, <1>7, <1>9
  <2>3. QED
    BY <1>13, <1>14, <2>1, <2>2 DEF RecoveryHolds
<1>16. SignalsReplay' /\ \A i \in DOMAIN signals' : signals'[i].selection \in 1..CurrentEvent'
  BY <1>1, <1>7, <1>8, <1>9, <1>10, SignalsStay DEF HistoriesGrow
<1>17. PromotionTypeOK'
  <2>1. proc' \in [Process -> 0..(n + 1)]
    BY <1>1, <1>2, <1>7
  <2>2. QED
    BY <1>1, <1>2, <1>7, <1>8, <1>9, <2>1 DEF PromotionInv, PromotionTypeOK, RegistryTypeOK
<1>18. RegistryInv'
  BY <1>9, RegistryUnchanged DEF registryVars
<1>19. \A i \in DOMAIN claims' : ClaimFits(claims[i])'
  BY <1>7, <1>13
<1>20. signals' \in Seq([selection: Nat, asOf: Nat]) /\ now' \in Nat \ {0} /\ newest' \in Nat
  BY <1>1, <1>9 DEF PromotionInv
<1>21. QED
  BY <1>7, <1>12, <1>15, <1>16, <1>17, <1>18, <1>19, <1>20 DEF PromotionInv

-----------------------------------------------------------------------------
(* The attempts: a decision *)

\* What an outcome must be to be written for claim c.
MayDecide(c, outcome) ==
    /\ outcome \in Score \cup {"STALE", "ERROR", "ABORTED"}
    /\ outcome \in Score => outcome = c.score

LEMMA OutcomeMayBeDecided ==
  ASSUME NEW c, c.score \in Score, NEW late \in BOOLEAN
  PROVE  MayDecide(c, Outcome(c, late))
  BY DEF MayDecide, Outcome, Score

LEMMA DecideStep ==
  ASSUME PromotionInv, NEW i \in 1..Len(claims), NEW outcome, MayDecide(claims[i], outcome),
         Decide(i, outcome), proc' \in [Process -> 0..Len(claims)],
         UNCHANGED <<research, journal, authority, runner, signals, newest, claims, now>>
  PROVE  PromotionInv'
<1> DEFINE n == Len(decisions)
           m == Len(selections)
<1>1. /\ selections \in Seq(SelectionEvent) /\ journal \in Seq(Trade) /\ research \in Seq(Research)
      /\ evidence \subseteq Result /\ decisions \in Seq(Decision) /\ now \in Nat \ {0}
      /\ n \in Nat /\ m \in Nat /\ Len(claims) <= n + 1 /\ n <= Len(claims)
  BY DEF PromotionInv, PromotionTypeOK, RegistryTypeOK
<1>2. PICK d : /\ d = [decision |-> outcome, at |-> now,
                       event |-> IF outcome = "PROMOTE" THEN m + 1 ELSE 0]
               /\ decisions' = Append(decisions, d)
  BY DEF Decide, CurrentEvent
<1>3. /\ i = n + 1 /\ claims[i].at <= now
      /\ IF outcome = "PROMOTE"
         THEN SelectByComparison(claims[i].candidate, claims[i].expected, now)
         ELSE UNCHANGED registryVars
  BY DEF Decide
<1>4. PICK c : c = claims[i]
  OBVIOUS
<1>5. PICK S : claims \in Seq(S)
  BY DEF PromotionInv
<1>6. i \in DOMAIN claims /\ Len(claims) = n + 1 /\ DOMAIN claims = 1..(n + 1)
  BY <1>1, <1>3, <1>5
<1>7. ClaimFits(c) /\ ClaimReplays(c, i)
  BY <1>4, <1>6 DEF PromotionInv, RecoveryHolds
<1>8. d \in Decision
  BY <1>1, <1>2 DEF Decision, MayDecide
<1>9. /\ decisions' \in Seq(Decision) /\ Len(decisions') = n + 1
      /\ DOMAIN decisions' = 1..(n + 1) /\ DOMAIN decisions = 1..n
      /\ decisions'[n + 1] = d /\ \A j \in 1..n : decisions'[j] = decisions[j]
  BY <1>1, <1>2, <1>8
<1>e. {decisions'[j].event : j \in DOMAIN decisions'}
         = {decisions[j].event : j \in DOMAIN decisions} \cup {d.event}
  <2>1. PICK f, g : f = decisions /\ g = decisions'
    BY Zenon
  <2>2. PICK k : k = n
    BY Zenon
  <2>3. /\ k \in Nat /\ DOMAIN f = 1..k /\ DOMAIN g = 1..(k + 1)
        /\ \A j \in 1..k : g[j] = f[j]
        /\ g[k + 1].event = d.event
    BY <1>1, <1>9, <2>1, <2>2, Zenon
  <2>4. {g[j].event : j \in DOMAIN g} = {f[j].event : j \in DOMAIN f} \cup {d.event}
    <3>1. DOMAIN g = DOMAIN f \cup {k + 1} /\ k + 1 \notin DOMAIN f
      BY <2>3
    <3>2. \A j \in DOMAIN f : g[j] = f[j]
      BY <2>3, Zenon
    <3>3. QED
      BY <2>3, <3>1, <3>2, Zenon
  <2>5. QED
    BY <2>1, <2>4, Zenon
<1>10. /\ RegistryInv' /\ evidence' \subseteq Result
       /\ selections' \in Seq(SelectionEvent) /\ Longer(selections', selections)
       /\ d.event \notin 1..m
       /\ DecisionReplays(i)'
       /\ {s \in DOMAIN selections' : selections'[s].reason = "auto_comparison"}
            = {decisions'[j].event : j \in DOMAIN decisions'} \ {0}
  <2>1. CASE outcome = "PROMOTE"
    <3> DEFINE e == [result |-> c.candidate, reason |-> "auto_comparison", at |-> now]
    <3>1. /\ m = c.expected /\ c.candidate \in evidence \cap PaperCandidate
          /\ selections' = Append(selections, e) /\ evidence' = evidence
      BY <1>3, <1>4, <2>1 DEF SelectByComparison, CurrentEvent
    <3>2. e \in SelectionEvent /\ e.reason = "auto_comparison" /\ e.result = c.candidate
      BY <1>1, <3>1 DEF SelectionEvent, SelectReason
    <3> HIDE DEF e
    <3>3. c.candidate # Selected
      <4>1. selections[c.expected].result = c.incumbent /\ c.candidate # c.incumbent
        BY <1>7 DEF ClaimReplays
      <4>2. m # 0
        BY <1>7, <3>1 DEF ClaimFits
      <4>3. Selected = selections[m].result
        BY <1>1, <4>2 DEF Selected, Last
      <4>4. QED
        BY <3>1, <4>1, <4>3
    <3>4. Appends(e)
      BY <3>1, <3>2, <3>3 DEF Appends, SelectReason
    <3>5. RegistryInv' /\ evidence' \subseteq Result
      BY <1>1, <3>1, <3>4, AppendKeepsRegistry DEF PromotionInv
    <3>6. /\ selections' \in Seq(SelectionEvent) /\ Longer(selections', selections)
          /\ DOMAIN selections' = 1..(m + 1) /\ DOMAIN selections = 1..m
          /\ selections'[m + 1] = e /\ \A s \in 1..m : selections'[s] = selections[s]
      BY <1>1, <3>1, <3>2 DEF Longer
    <3>7. d.decision = "PROMOTE" /\ d.event = m + 1 /\ d.at = now
      BY <1>2, <2>1
    <3>8. DecisionReplays(i)'
      <4>1. claims'[i] = c /\ decisions'[i] = d
        BY <1>3, <1>4, <1>9
      <4>2. c.at <= now /\ c.score = "PROMOTE"
        BY <1>3, <1>4, <2>1 DEF MayDecide, Score
      <4>3. selections'[d.event] = e
        BY <3>6, <3>7
      <4>4. d.at >= c.at
        BY <1>1, <1>7, <3>7, <4>2 DEF ClaimFits
      <4>5. d.event = c.expected + 1
        BY <3>1, <3>7
      <4>6. e = [result |-> c.candidate, reason |-> "auto_comparison", at |-> d.at]
        BY <3>7 DEF e
      <4>7. QED
        BY <3>7, <4>1, <4>2, <4>3, <4>4, <4>5, <4>6 DEF DecisionReplays
    <3>9. {s \in DOMAIN selections' : selections'[s].reason = "auto_comparison"}
            = {decisions'[j].event : j \in DOMAIN decisions'} \ {0}
      <4>1. {s \in DOMAIN selections : selections[s].reason = "auto_comparison"}
              = {decisions[j].event : j \in DOMAIN decisions} \ {0}
        BY DEF PromotionInv, RecoveryHolds
      <4>2. {s \in DOMAIN selections' : selections'[s].reason = "auto_comparison"}
              = {s \in DOMAIN selections : selections[s].reason = "auto_comparison"} \cup {m + 1}
        BY <1>1, <3>2, <3>6
      <4>3. {decisions'[j].event : j \in DOMAIN decisions'}
              = {decisions[j].event : j \in DOMAIN decisions} \cup {m + 1}
        BY <1>e, <3>7, Zenon
      <4>4. m + 1 # 0
        BY <1>1
      <4>5. QED
        BY <4>1, <4>2, <4>3, <4>4
    <3>10. d.event \notin 1..m
      BY <1>1, <3>7
    <3>11. QED
      BY <3>5, <3>6, <3>8, <3>9, <3>10
  <2>2. CASE outcome # "PROMOTE"
    <3>1. UNCHANGED <<evidence, selections>> /\ d.event = 0 /\ d.decision = outcome /\ d.at = now
      BY <1>2, <1>3, <2>2 DEF registryVars
    <3>2. RegistryInv' /\ evidence' \subseteq Result
      BY <3>1, RegistryUnchanged DEF registryVars
    <3>3. selections' \in Seq(SelectionEvent) /\ Longer(selections', selections)
      BY <1>1, <3>1 DEF Longer
    <3>4. DecisionReplays(i)'
      <4>1. claims'[i] = c /\ decisions'[i] = d
        BY <1>3, <1>4, <1>9
      <4>2. d.at >= c.at
        BY <1>1, <1>3, <1>4, <1>7, <3>1 DEF ClaimFits
      <4>3. d.decision \in Score => d.decision = c.score
        BY <1>4, <3>1 DEF MayDecide
      <4>4. QED
        BY <2>2, <3>1, <4>1, <4>2, <4>3 DEF DecisionReplays
    <3>5. {decisions'[j].event : j \in DOMAIN decisions'}
            = {decisions[j].event : j \in DOMAIN decisions} \cup {0}
      BY <1>e, <3>1, Zenon
    <3>6. {s \in DOMAIN selections : selections[s].reason = "auto_comparison"}
            = {decisions[j].event : j \in DOMAIN decisions} \ {0}
      BY DEF PromotionInv, RecoveryHolds
    <3>7. {s \in DOMAIN selections' : selections'[s].reason = "auto_comparison"}
            = {s \in DOMAIN selections : selections[s].reason = "auto_comparison"}
      BY <3>1
    <3>8. d.event \notin 1..m
      BY <1>1, <3>1
    <3>9. {s \in DOMAIN selections' : selections'[s].reason = "auto_comparison"}
            = {decisions'[j].event : j \in DOMAIN decisions'} \ {0}
      BY <3>5, <3>6, <3>7
    <3>10. QED
      BY <3>2, <3>3, <3>4, <3>8, <3>9
  <2>3. QED
    BY <2>1, <2>2
<1>11. HistoriesGrow
  BY <1>1, <1>10 DEF HistoriesGrow, Longer
<1>12. ASSUME NEW k \in DOMAIN claims PROVE ClaimFits(claims[k])' /\ ClaimReplays(claims[k], k)'
  <2>1. PICK b : b = claims[k]
    OBVIOUS
  <2>2. ClaimFits(b)' /\ ClaimReplays(b, k)'
    BY <1>11, <2>1, ClaimStays
  <2>3. claims'[k] = b
    BY <2>1
  <2>4. QED
    BY <2>2, <2>3 DEF ClaimFits, ClaimReplays, IsFresh, CutoffsMatch, Prefix
<1>13. ASSUME NEW k \in DOMAIN decisions'
       PROVE  /\ DecisionReplays(k)'
              /\ k < Len(claims') => decisions'[k].at <= claims'[k + 1].at
  <2>1. CASE k \in 1..n
    <3>1. DecisionReplays(k) /\ (k < Len(claims) => decisions[k].at <= claims[k + 1].at)
      BY <1>9, <2>1 DEF PromotionInv, RecoveryHolds
    <3>2. decisions'[k] = decisions[k] /\ k \in DOMAIN decisions
      BY <1>9, <2>1
    <3>3. QED
      BY <1>10, <3>1, <3>2, DecisionStays
  <2>2. CASE k = n + 1
    <3>1. k = i /\ ~(k < Len(claims'))
      BY <1>1, <1>3, <1>6, <2>2
    <3>2. QED
      BY <1>10, <3>1
  <2>3. QED
    BY <1>1, <1>9, <2>1, <2>2
<1>14. RecoveryHolds'
  BY <1>10, <1>12, <1>13 DEF RecoveryHolds
<1>15. SignalsReplay' /\ \A k \in DOMAIN signals' : signals'[k].selection \in 1..CurrentEvent'
  <2>1. \A k \in DOMAIN decisions' \ DOMAIN decisions : decisions'[k].event \notin 1..CurrentEvent
    BY <1>1, <1>9, <1>10 DEF CurrentEvent
  <2>2. DOMAIN decisions \subseteq DOMAIN decisions'
        /\ \A k \in DOMAIN decisions : claims'[k] = claims[k] /\ decisions'[k] = decisions[k]
    BY <1>1, <1>9
  <2>3. QED
    BY <1>10, <2>1, <2>2, SignalsStay
<1>16. PromotionTypeOK'
  BY <1>1, <1>6, <1>9, <1>10 DEF PromotionInv, PromotionTypeOK, RegistryTypeOK
<1>17. ClaimsInOrder' /\ \E T : claims' \in Seq(T)
  BY DEF PromotionInv, ClaimsInOrder
<1>18. QED
  BY <1>10, <1>12, <1>14, <1>15, <1>16, <1>17 DEF PromotionInv

-----------------------------------------------------------------------------
(* Every step *)

LEMMA FinishStep ==
  ASSUME PromotionInv, NEW p \in Process, Finish(p)
  PROVE  PromotionInv'
<1>1. /\ proc[p] # 0 /\ proc' = [proc EXCEPT ![p] = 0]
      /\ UNCHANGED <<research, journal, authority, runner, signals, newest, claims, now>>
  BY DEF Finish
<1>2. proc \in [Process -> 0..Len(claims)] /\ Len(claims) \in Nat
  <2>1. PICK S : claims \in Seq(S)
    BY DEF PromotionInv
  <2>2. QED
    BY <2>1 DEF PromotionInv, PromotionTypeOK
<1>3. proc[p] \in 1..Len(claims) /\ proc' \in [Process -> 0..Len(claims)]
  BY <1>1, <1>2
<1>4. ASSUME NEW late \in BOOLEAN, Decide(proc[p], Outcome(claims[proc[p]], late))
      PROVE  PromotionInv'
  <2>1. PICK i \in 1..Len(claims) : i = proc[p]
    BY <1>3
  <2>2. i \in DOMAIN claims
    <3>1. PICK S : claims \in Seq(S)
      BY DEF PromotionInv
    <3>2. QED
      BY <2>1, <3>1
  <2>3. PICK c : c = claims[i]
    OBVIOUS
  <2>4. c.score \in Score
    BY <2>2, <2>3 DEF PromotionInv, ClaimFits
  <2>5. PICK outcome : outcome = Outcome(c, late)
    OBVIOUS
  <2>6. MayDecide(claims[i], outcome)
    BY <2>3, <2>4, <2>5, OutcomeMayBeDecided
  <2>7. Decide(i, outcome)
    BY <1>4, <2>1, <2>3, <2>5
  <2>8. QED
    BY <1>1, <1>3, <2>6, <2>7, DecideStep
<1>5. CASE UNCHANGED <<decisions, registryVars>>
  <2>1. RestTyped'
    BY <1>1 DEF RestTyped, PromotionInv, PromotionTypeOK
  <2>2. QED
    BY <1>1, <1>3, <1>5, <2>1, AsideStep DEF registryVars
<1>6. QED
  BY <1>4, <1>5 DEF Finish

LEMMA AbortStep ==
  ASSUME PromotionInv, Abort
  PROVE  PromotionInv'
<1>1. PICK S : claims \in Seq(S)
  BY DEF PromotionInv
<1>2. PICK i \in 1..Len(claims) : i = Len(claims)
  <2>1. Len(decisions) \in Nat /\ Len(decisions) < Len(claims)
    BY DEF Abort, IsPending, PromotionInv, PromotionTypeOK
  <2>2. QED
    BY <1>1, <2>1
<1>3. Decide(i, "ABORTED")
  BY <1>2 DEF Abort
<1>4. MayDecide(claims[i], "ABORTED")
  BY DEF MayDecide, Score
<1>5. proc' \in [Process -> 0..Len(claims)]
      /\ UNCHANGED <<research, journal, authority, runner, signals, newest, claims, now>>
  BY DEF Abort, PromotionInv, PromotionTypeOK
<1>6. QED
  BY <1>3, <1>4, <1>5, DecideStep

LEMMA NextPromotion == PromotionInv /\ [Next]_vars => PromotionInv'
<1> SUFFICES ASSUME PromotionInv, [Next]_vars PROVE PromotionInv'
  OBVIOUS
<1>1. /\ authority \in [events: Nat, armed: BOOLEAN]
      /\ runner \in [fence: Nat, held: BOOLEAN, expires: Nat, unfinished: BOOLEAN]
      /\ proc \in [Process -> 0..Len(claims)]
      /\ now \in Nat \ {0} /\ newest \in Nat
  BY DEF PromotionInv, PromotionTypeOK
<1>2. ASSUME NEW p \in Process, NEW candidate \in evidence, NEW start \in 1..now,
             NEW end \in 1..now, NEW score \in Score,
             Claim(p, candidate, CurrentEvent, start, end, score)
      PROVE  PromotionInv'
  BY <1>2, ClaimStep
<1>3. ASSUME NEW p \in Process, Kill(p) PROVE PromotionInv'
  <2>1. Len(claims) \in Nat
    <3>1. PICK S : claims \in Seq(S)
      BY DEF PromotionInv
    <3>2. QED
      BY <3>1
  <2>2. proc' \in [Process -> 0..Len(claims)] /\ RestTyped'
    BY <1>1, <1>3, <2>1 DEF Kill, RestTyped, worldVars
  <2>3. QED
    BY <1>3, <2>2, AsideStep DEF Kill, worldVars, registryVars
<1>4. ASSUME NEW armed \in BOOLEAN, SetArmed(armed) PROVE PromotionInv'
  BY <1>1, <1>4, AsideStep DEF SetArmed, RestTyped, registryVars
<1>5. CASE TakeRunner
  <2>1. runner' \in [fence: Nat, held: BOOLEAN, expires: Nat, unfinished: BOOLEAN]
    <3>1. runner.fence + 1 \in Nat /\ now + 1 \in Nat
      BY <1>1
    <3>2. runner.unfinished \in BOOLEAN /\ TRUE \in BOOLEAN
      BY <1>1, Zenon
    <3>3. runner' = [fence |-> runner.fence + 1, held |-> TRUE, expires |-> now + 1,
                     unfinished |-> runner.unfinished]
      BY <1>1, <1>5 DEF TakeRunner
    <3>4. QED
      BY <3>1, <3>2, <3>3, Zenon
  <2>2. RestTyped'
    BY <1>1, <1>5, <2>1 DEF TakeRunner, RestTyped
  <2>3. QED
    BY <1>1, <1>5, <2>2, AsideStep DEF TakeRunner, registryVars
<1>6. CASE Tick
  BY <1>1, <1>6, AsideStep DEF Tick, RestTyped, registryVars
<1>7. CASE SetBack
  BY <1>1, <1>7, AsideStep DEF SetBack, RestTyped, registryVars, worldVars
<1>8. CASE UNCHANGED vars
  BY <1>1, <1>8, AsideStep DEF vars, RestTyped, registryVars, worldVars
<1>9. ASSUME NEW close \in 1..newest, FillTrade(close) \/ RecordSignal(close) PROVE PromotionInv'
  BY <1>9, FillStep, SignalStep
<1>10. ASSUME NEW r \in Result, NEW last \in 0..now, Register(r, last) PROVE PromotionInv'
  BY <1>10, RegisterStep
<1>11. ASSUME NEW p \in Process, Finish(p) PROVE PromotionInv'
  BY <1>11, FinishStep
<1>12. QED
  BY <1>2, <1>3, <1>4, <1>5, <1>6, <1>7, <1>8, <1>9, <1>10, <1>11, AbortStep, RunnerStep, ManualStep
     DEF Next

LEMMA PromotionSound == Spec => []PromotionInv
  BY InitPromotion, NextPromotion, PTL DEF Spec

-----------------------------------------------------------------------------
(* What follows *)

\* No row, clock or decision makes the recovery proof refuse what is stored.
THEOREM AttemptsAlwaysReplay == Spec => []PromotionsReplay
<1>1. PromotionInv => PromotionsReplay
  BY DEF PromotionInv, PromotionsReplay
<1>2. QED
  BY <1>1, PromotionSound, PTL

\* The registry that promotions, runs and operators write replays.
THEOREM PromotedRegistryReplays == Spec => []RegistryReplays
<1>1. PromotionInv => RegistryReplays
  BY DEF PromotionInv, RegistryInv
<1>2. QED
  BY <1>1, PromotionSound, PTL

\* A comparison is never repeated on bars that an earlier attempt saw.
THEOREM NoBarsTwice == Spec => []BarsComparedOnce
<1>1. ASSUME PromotionInv PROVE BarsComparedOnce
  <2>1. PICK S : claims \in Seq(S)
    BY <1>1 DEF PromotionInv
  <2>2. SUFFICES ASSUME NEW i \in DOMAIN claims, NEW j \in DOMAIN claims, i < j
                 PROVE  claims[i].end < claims[j].start
    BY DEF BarsComparedOnce
  <2>3. i \in 1..(j - 1)
    BY <2>1, <2>2
  <2>4. ClaimReplays(claims[j], j)
    BY <1>1 DEF PromotionInv, RecoveryHolds
  <2>5. QED
    BY <2>3, <2>4 DEF ClaimReplays, IsFresh
<1>2. QED
  BY <1>1, PromotionSound, PTL

\* Only the process that compared promotes, over the state it claimed.
LEMMA PromotesOnlyQuiet ==
  ASSUME PromotionInv, [Next]_vars, Promotes
  PROVE  /\ IsQuiet
         /\ \A r \in DOMAIN research : research[r].last < claims[Len(claims)].start
<1>1. /\ decisions \in Seq(Decision) /\ research \in Seq(Research)
      /\ Len(decisions) \in Nat /\ Len(claims) <= Len(decisions) + 1
      /\ proc \in [Process -> 0..Len(claims)]
  BY DEF PromotionInv, PromotionTypeOK
<1>2. PICK S : claims \in Seq(S)
  BY DEF PromotionInv
<1>3. decisions' # decisions /\ decisions'[Len(decisions')].decision = "PROMOTE"
  BY DEF Promotes
<1>4. (\E p \in Process : Finish(p)) \/ Abort
  BY <1>3 DEF Next, Claim, Kill, Register, FillTrade, SetArmed, TakeRunner, RunnerWorks,
     ManualChange, RecordSignal, Tick, SetBack, vars
<1>5. ASSUME NEW i, NEW outcome, Decide(i, outcome) PROVE outcome = "PROMOTE" /\ i = Len(decisions) + 1
  <2> DEFINE d == [decision |-> outcome, at |-> now,
                   event |-> IF outcome = "PROMOTE" THEN CurrentEvent + 1 ELSE 0]
  <2>1. decisions' = Append(decisions, d) /\ i = Len(decisions) + 1
    BY <1>5 DEF Decide
  <2>2. d.decision = outcome
    OBVIOUS
  <2> HIDE DEF d
  <2>3. decisions'[Len(decisions')] = d
    BY <1>1, <2>1
  <2>4. QED
    BY <1>3, <2>1, <2>2, <2>3
<1>6. ~Abort
  BY <1>5 DEF Abort
<1>7. PICK p \in Process : Finish(p)
  BY <1>4, <1>6
<1>8. PICK late \in BOOLEAN : Decide(proc[p], Outcome(claims[proc[p]], late))
  BY <1>3, <1>7 DEF Finish
<1>9. Outcome(claims[proc[p]], late) = "PROMOTE" /\ proc[p] = Len(decisions) + 1
  BY <1>5, <1>8
<1>10. IsQuiet /\ Unchanged(claims[proc[p]])
  BY <1>9 DEF Outcome
<1>11. proc[p] = Len(claims) /\ Len(claims) \in DOMAIN claims
  BY <1>1, <1>2, <1>9
<1>12. PICK c : c = claims[Len(claims)]
  OBVIOUS
<1>13. ClaimFits(c) /\ ClaimReplays(c, Len(claims))
  BY <1>11, <1>12 DEF PromotionInv, RecoveryHolds
<1>14. c.research = Len(research)
  <2>1. State = c.state
    BY <1>10, <1>11, <1>12 DEF Unchanged
  <2>2. State.research = Len(research)
    BY DEF State
  <2>3. QED
    BY <1>13, <2>1, <2>2 DEF ClaimFits
<1>15. \A r \in 1..Len(research) : research[r].last < c.start
  BY <1>13, <1>14 DEF ClaimReplays, IsFresh
<1>16. QED
  BY <1>1, <1>10, <1>12, <1>15

\* A strategy is promoted while nobody runs, trades or holds, and on bars that
\* are younger than all research.
THEOREM PromotionsAreFair == Spec => PromotedOnEqualTerms
<1>1. PromotionInv /\ [Next]_vars => [Promotes => ~IsLive /\ ~authority.armed /\ IsFlat(journal)]_vars
  BY PromotesOnlyQuiet DEF IsQuiet
<1>2. PromotionInv /\ [Next]_vars
      => [Promotes => \A r \in DOMAIN research : research[r].last < claims[Len(claims)].start]_vars
  BY PromotesOnlyQuiet
<1>3. QED
  BY <1>1, <1>2, PromotionSound, PTL DEF Spec, PromotedOnEqualTerms, PromotedWhileQuiet, PromotedOnFreshBars

-----------------------------------------------------------------------------
(* The folds of the comparison.  Totals come first: a total is a function    *)
(* over the subsets of its positions, and two functions with the recursion   *)
(* of a total agree.                                                         *)

\* What holds of the empty set and survives one more element holds of a finite
\* set; C is the collection of subsets it holds of.
LEMMA FiniteInduction ==
    ASSUME NEW S, IsFiniteSet(S), NEW C, {} \in C,
           \A T \in C : \A x \in S \ T : T \subseteq S => T \cup {x} \in C
    PROVE  S \in C
<1> DEFINE D == {T \in C : T \subseteq S}
           Rests == {Cardinality(S \ T) : T \in D}
<1>1. \A T : IsFiniteSet(S \ T) /\ Cardinality(S \ T) \in Nat
    BY FS_Subset, FS_CardinalityType
<1>2. Rests \subseteq Nat /\ Rests # {}
    <2>1. {} \in D
        OBVIOUS
    <2> QED BY <1>1, <2>1
<1>3. PICK least \in Rests : \A m \in Rests : least <= m
    <2> HIDE DEF Rests
    <2> QED BY <1>2, LeastNumber
<1>4. PICK T \in D : least = Cardinality(S \ T)
    BY <1>3
<1>5. T \in C /\ T \subseteq S
    BY <1>4
<1>6. SUFFICES ASSUME S \ T # {} PROVE FALSE
    <2>1. S \ T = {} => S = T
        BY <1>5
    <2> QED BY <1>5, <2>1
<1>7. PICK x : x \in S \ T
    BY <1>6
<1> DEFINE rest == S \ T
           less == S \ (T \cup {x})
<1>8. Cardinality(less) \in Rests
    BY <1>5, <1>7
<1>9. less = rest \ {x} /\ x \in rest
    BY <1>7
<1>10. IsFiniteSet(rest) /\ Cardinality(rest) \in Nat /\ least = Cardinality(rest)
    BY <1>1, <1>4
<1> HIDE DEF rest, less, Rests, D
<1>11. Cardinality(less) = Cardinality(rest) - 1
    BY <1>9, <1>10, FS_RemoveElement
<1>12. least <= Cardinality(less)
    BY <1>3, <1>8
<1> QED BY <1>10, <1>11, <1>12

\* sum adds up the amounts over the subsets of S, in any order of the elements.
SumsUp(sum, S, amount) ==
    /\ sum \in [SUBSET S -> Int]
    /\ sum[{}] = 0
    /\ \A T \in SUBSET S : \A x \in T : sum[T] = amount[x] + sum[T \ {x}]

LEMMA SumExists ==
    ASSUME NEW S, IsFiniteSet(S), NEW amount, \A x \in S : amount[x] \in Int
    PROVE  \E sum : SumsUp(sum, S, amount)
<1> DEFINE C == {T \in SUBSET S : \E sum : SumsUp(sum, T, amount)}
<1>1. {} \in C
    <2> DEFINE zero == [T \in SUBSET {} |-> 0]
    <2>1. SumsUp(zero, {}, amount)
        BY DEF SumsUp
    <2> QED BY <2>1, Zenon
<1>2. ASSUME NEW T \in C, NEW y \in S \ T, T \subseteq S
      PROVE  T \cup {y} \in C
    <2>1. PICK sum : SumsUp(sum, T, amount)
        BY <1>2
    <2> DEFINE more == [U \in SUBSET (T \cup {y}) |->
                           IF y \in U THEN amount[y] + sum[U \ {y}] ELSE sum[U]]
    <2>2. \A U \in SUBSET (T \cup {y}) : U \ {y} \in SUBSET T
        OBVIOUS
    <2>3. \A U \in SUBSET (T \cup {y}) : y \notin U => U \in SUBSET T
        OBVIOUS
    <2>4. more \in [SUBSET (T \cup {y}) -> Int]
        BY <1>2, <2>1, <2>2, <2>3 DEF SumsUp
    <2>5. more[{}] = 0
        BY <2>1 DEF SumsUp
    <2>6. ASSUME NEW U \in SUBSET (T \cup {y}), NEW x \in U
          PROVE  more[U] = amount[x] + more[U \ {x}]
        <3>1. CASE y \notin U
            <4>1. U \in SUBSET T /\ U \ {x} \in SUBSET (T \cup {y}) /\ y \notin U \ {x}
                BY <2>3, <3>1
            <4>2. more[U] = sum[U] /\ more[U \ {x}] = sum[U \ {x}]
                BY <3>1, <4>1
            <4> QED BY <2>1, <4>1, <4>2 DEF SumsUp
        <3>2. CASE x = y
            <4>1. more[U] = amount[y] + sum[U \ {y}] /\ more[U \ {x}] = sum[U \ {y}]
                BY <3>2
            <4> QED BY <3>2, <4>1
        <3>3. CASE y \in U /\ x # y
            <4>1. more[U] = amount[y] + sum[U \ {y}]
                BY <3>3
            <4>2. y \in U \ {x} /\ U \ {x} \in SUBSET (T \cup {y})
                BY <3>3
            <4>3. more[U \ {x}] = amount[y] + sum[(U \ {x}) \ {y}]
                BY <4>2
            <4>4. U \ {y} \in SUBSET T /\ x \in U \ {y} /\ (U \ {y}) \ {x} \in SUBSET T
                BY <3>3
            <4>5. sum[U \ {y}] = amount[x] + sum[(U \ {y}) \ {x}]
                BY <2>1, <4>4 DEF SumsUp
            <4>6. (U \ {y}) \ {x} = (U \ {x}) \ {y}
                OBVIOUS
            <4>7. amount[x] \in Int /\ amount[y] \in Int /\ sum[(U \ {y}) \ {x}] \in Int
                BY <1>2, <2>1, <4>4 DEF SumsUp
            <4> HIDE DEF more
            <4>8. \A i, j, k \in Int : i + (j + k) = j + (i + k)
                OBVIOUS
            <4>9. amount[y] + (amount[x] + sum[(U \ {y}) \ {x}])
                     = amount[x] + (amount[y] + sum[(U \ {y}) \ {x}])
                BY ONLY <4>7, <4>8
            <4> QED BY ONLY <4>1, <4>3, <4>5, <4>6, <4>9, Zenon
        <3> QED BY <3>1, <3>2, <3>3
    <2> HIDE DEF more
    <2>7. SumsUp(more, T \cup {y}, amount)
        BY <2>4, <2>5, <2>6 DEF SumsUp
    <2> QED BY <2>7
<1> HIDE DEF C
<1>3. S \in C
    BY <1>1, <1>2, FiniteInduction
<1> QED BY <1>3 DEF C

Picked(T) == CHOOSE x \in T : TRUE

\* The recursion of the community module, which takes out one element of its
\* choice.
Recurses(sum, S, amount) ==
    sum = [T \in SUBSET S |-> IF T = {} THEN 0 ELSE amount[Picked(T)] + sum[T \ {Picked(T)}]]

LEMMA SumRecurses ==
    ASSUME NEW S, NEW amount, NEW sum, SumsUp(sum, S, amount)
    PROVE  Recurses(sum, S, amount)
<1>1. \A T : T # {} => Picked(T) \in T
    BY DEF Picked
<1>2. \A T \in SUBSET S : sum[T] = IF T = {} THEN 0 ELSE amount[Picked(T)] + sum[T \ {Picked(T)}]
    BY <1>1 DEF SumsUp
<1>3. sum = [T \in SUBSET S |-> sum[T]]
    BY DEF SumsUp
<1> QED BY <1>2, <1>3 DEF Recurses

LEMMA RecursionSums ==
    ASSUME NEW S, IsFiniteSet(S), NEW amount, NEW sum, SumsUp(sum, S, amount),
           NEW other, Recurses(other, S, amount)
    PROVE  other[S] = sum[S]
<1> DEFINE Sizes == {Cardinality(T) : T \in {U \in SUBSET S : other[U] # sum[U]}}
<1>1. \A T \in SUBSET S : IsFiniteSet(T) /\ Cardinality(T) \in Nat
    BY FS_Subset, FS_CardinalityType
<1>2. SUFFICES ASSUME other[S] # sum[S] PROVE FALSE
    OBVIOUS
<1>3. Sizes \subseteq Nat /\ Sizes # {}
    BY <1>1, <1>2
<1>4. PICK least \in Sizes : \A m \in Sizes : least <= m
    <2> HIDE DEF Sizes
    <2> QED BY <1>3, LeastNumber
<1>5. PICK T \in SUBSET S : other[T] # sum[T] /\ least = Cardinality(T)
    BY <1>4
<1>6. other[T] = IF T = {} THEN 0 ELSE amount[Picked(T)] + other[T \ {Picked(T)}]
    BY DEF Recurses
<1>7. T # {}
    BY <1>5, <1>6 DEF SumsUp
<1>8. PICK x : x = Picked(T)
    OBVIOUS
<1>9. x \in T /\ T \ {x} \in SUBSET S
    BY <1>7, <1>8 DEF Picked
<1>10. Cardinality(T \ {x}) = Cardinality(T) - 1
    BY <1>1, <1>9, FS_RemoveElement
<1>11. other[T \ {x}] = sum[T \ {x}]
    <2>1. SUFFICES ASSUME other[T \ {x}] # sum[T \ {x}] PROVE FALSE
        OBVIOUS
    <2>2. Cardinality(T \ {x}) \in Sizes
        BY <1>9, <2>1
    <2> HIDE DEF Sizes
    <2> QED BY <1>1, <1>4, <1>5, <1>10, <2>2
<1>12. other[T] = amount[x] + other[T \ {x}]
    BY <1>6, <1>7, <1>8
<1>13. sum[T] = amount[x] + sum[T \ {x}]
    BY <1>9 DEF SumsUp
<1> QED BY <1>5, <1>11, <1>12, <1>13

LEMMA TotalIs ==
    ASSUME NEW S, IsFiniteSet(S), NEW amount, NEW sum, SumsUp(sum, S, amount)
    PROVE  Total(amount, S) = sum[S]
<1> DEFINE Follows(it) ==
              it = [T \in SUBSET S |-> IF T = {} THEN 0 ELSE amount[Picked(T)] + it[T \ {Picked(T)}]]
           it == CHOOSE it : Follows(it)
<1>1. Total(amount, S) = it[S]
    BY DEF Total, MapThenSumSet, MapThenFoldSet, Picked
<1>2. ASSUME NEW other PROVE Follows(other) <=> Recurses(other, S, amount)
    BY DEF Recurses
<1> HIDE DEF Follows
<1>3. Follows(sum)
    BY <1>2, SumRecurses
<1>4. Follows(it)
    BY <1>3
<1> HIDE DEF it
<1> QED BY <1>1, <1>2, <1>4, RecursionSums

\* The laws of a total.
LEMMA TotalLaws ==
    ASSUME NEW S, IsFiniteSet(S), NEW amount, \A x \in S : amount[x] \in Int
    PROVE  /\ Total(amount, {}) = 0
           /\ Total(amount, S) \in Int
           /\ \A x \in S : Total(amount, S) = amount[x] + Total(amount, S \ {x})
<1>1. PICK sum : SumsUp(sum, S, amount)
    BY SumExists
<1>2. ASSUME NEW T \in SUBSET S PROVE Total(amount, T) = sum[T]
    <2> DEFINE part == [U \in SUBSET T |-> sum[U]]
    <2>1. SumsUp(part, T, amount) /\ part[T] = sum[T]
        BY <1>1 DEF SumsUp
    <2>2. IsFiniteSet(T)
        BY FS_Subset
    <2> HIDE DEF part
    <2> QED BY <2>1, <2>2, TotalIs
<1>3. {} \in SUBSET S /\ S \in SUBSET S /\ \A x \in S : S \ {x} \in SUBSET S
    OBVIOUS
<1> QED BY <1>1, <1>2, <1>3 DEF SumsUp

\* Equal amounts have equal totals.
LEMMA SameTotal ==
    ASSUME NEW S, IsFiniteSet(S), NEW amount, NEW other,
           \A x \in S : amount[x] \in Int /\ other[x] = amount[x]
    PROVE  Total(other, S) = Total(amount, S)
<1>1. PICK sum : SumsUp(sum, S, amount)
    BY SumExists
<1>2. SumsUp(sum, S, other)
    BY <1>1 DEF SumsUp
<1> QED BY <1>1, <1>2, TotalIs

LEMMA Products ==
    ASSUME NEW a \in Nat, NEW b \in Nat, NEW k \in Nat, a <= b
    PROVE  /\ a * k \in Nat /\ b * k \in Nat /\ a * k <= b * k
           /\ a < b /\ k > 0 => a * k + k <= b * k
<1>1. b - a \in Nat /\ b = a + (b - a)
    OBVIOUS
<1>2. PICK d \in Nat : b = a + d /\ (a < b => d >= 1)
    BY <1>1
<1>3. b * k = a * k + d * k /\ a * k \in Nat /\ d * k \in Nat
    BY <1>2
<1>4. d >= 1 => d * k >= k
    <2>1. SUFFICES ASSUME d >= 1 PROVE d * k >= k
        OBVIOUS
    <2>2. PICK e \in Nat : d = e + 1
        <3>1. d - 1 \in Nat /\ d = (d - 1) + 1
            BY <2>1
        <3> QED BY <3>1
    <2>3. d * k = e * k + k /\ e * k \in Nat
        BY <2>2
    <2> QED BY <2>3
<1> QED BY <1>2, <1>3, <1>4

LEMMA Division ==
    ASSUME NEW n \in Nat, NEW d \in Nat \ {0}
    PROVE  /\ n \div d \in Nat /\ n % d \in Nat /\ n % d < d
           /\ n = (n \div d) * d + (n % d)
OBVIOUS

LEMMA Appended ==
    ASSUME NEW S, NEW s \in Seq(S), NEW e \in S
    PROVE  /\ Append(s, e) \in Seq(S) /\ Len(Append(s, e)) = Len(s) + 1 /\ Len(s) \in Nat
           /\ \A i \in 1..Len(s) : Append(s, e)[i] = s[i] /\ s[i] \in S
           /\ Append(s, e)[Len(s) + 1] = e
OBVIOUS

-----------------------------------------------------------------------------
(* What one bar does to the account.                                         *)

LEMMA Bounds ==
    /\ Warmup \in Nat /\ Fee \in Nat /\ Slip \in Nat /\ Tax \in Nat
    /\ Length \in Nat \ {0} /\ Quantity \in Nat \ {0} /\ OpeningCash \in Nat \ {0}
    /\ DelayBars \in Nat \ {0} /\ Warmup < Length
BY FoldAssumption

FoldTyped ==
    /\ series \in Seq(BarKind) /\ Len(series) <= Length
    /\ hold \in BOOLEAN /\ failed \in BOOLEAN
    /\ cash \in Nat /\ position \in 0..Quantity /\ trips \in Int
    /\ pending \in Order \cup {NoOrder}
    /\ trace \in Seq(Fill)
    /\ \A f \in 1..Len(trace) : trace[f].at <= Len(series)

\* The open order takes the position to where it is meant to go.
OrderFits ==
    /\ pending.side = "BUY" => position + pending.remaining = Quantity
    /\ pending.side = "SELL" => pending.remaining = position
    /\ pending # NoOrder => pending.signal <= Len(series)

Least(i, j, k) == IF i <= j /\ i <= k THEN i ELSE IF j <= k THEN j ELSE k

LEMMA LeastIsMin ==
    ASSUME NEW i \in Nat, NEW j \in Nat, NEW k \in Nat
    PROVE  /\ Min({i, j, k}) \in Nat
           /\ Min({i, j, k}) <= i /\ Min({i, j, k}) <= j /\ Min({i, j, k}) <= k
<1>1. /\ Least(i, j, k) \in {i, j, k} /\ Least(i, j, k) \in Nat
      /\ \A n \in {i, j, k} : Least(i, j, k) <= n
    BY DEF Least
<1>2. Min({i, j, k}) \in {i, j, k} /\ \A n \in {i, j, k} : Min({i, j, k}) <= n
    BY <1>1 DEF Min
<1> QED BY <1>2

LEMMA PriceType ==
    ASSUME NEW order \in Order, NEW bar \in BarKind
    PROVE  Price(order, bar) \in Nat \ {0} /\ bar.capacity \in Nat /\ bar.close \in Nat
<1>1. /\ bar.open \in Nat \ {0} /\ bar.close \in Nat /\ bar.capacity \in Nat
      /\ Slip \in Nat /\ Slip < bar.open
    BY FoldAssumption
<1> QED BY <1>1 DEF Price

\* A fill takes no more than is left of its order, than is held, or than the
\* cash pays for.
LEMMA QuantityIs ==
    ASSUME FoldTyped, NEW order \in Order, NEW bar \in BarKind
    PROVE  LET q == FillQuantity(order, bar)
           IN  /\ q \in Nat /\ q <= order.remaining
               /\ order.side = "SELL" => q <= position
               /\ order.side = "BUY" /\ q > 0 => q * Price(order, bar) + Fee <= cash
<1> DEFINE q == FillQuantity(order, bar)
           price == Price(order, bar)
           limit == IF order.side = "SELL" THEN position
                    ELSE IF cash < Fee THEN 0 ELSE (cash - Fee) \div price
<1>1. price \in Nat \ {0} /\ bar.capacity \in Nat
    BY PriceType
<1>2. cash \in Nat /\ position \in Nat /\ Fee \in Nat /\ Quantity \in Nat /\ order.remaining \in Nat
    BY FoldAssumption DEF FoldTyped, Order
<1> HIDE DEF price
<1>3. limit \in Nat
    <2>1. cash >= Fee => cash - Fee \in Nat
        BY <1>2
    <2>2. cash >= Fee => (cash - Fee) \div price \in Nat
        BY <1>1, <2>1, Division
    <2> QED BY <1>2, <2>2
<1>4. q = Min({bar.capacity, order.remaining, limit})
    BY DEF FillQuantity, price
<1> HIDE DEF q
<1>5. q \in Nat /\ q <= order.remaining /\ q <= limit
    <2> HIDE DEF limit
    <2> QED BY <1>1, <1>2, <1>3, <1>4, LeastIsMin
<1>6. order.side = "SELL" => q <= position
    BY <1>5
<1>7. ASSUME order.side = "BUY", q > 0 PROVE q * price + Fee <= cash
    <2>1. cash >= Fee /\ q <= (cash - Fee) \div price
        BY <1>2, <1>5, <1>7
    <2>2. PICK n \in Nat, d \in Nat, r \in Nat :
             n = cash - Fee /\ d = n \div price /\ n = d * price + r
        <3>1. cash - Fee \in Nat
            BY <1>2, <2>1
        <3> QED BY <1>1, <3>1, Division
    <2>3. q * price \in Nat /\ d * price \in Nat /\ q * price <= d * price
        BY <1>1, <1>5, <2>1, <2>2, Products
    <2> QED BY <1>2, <2>2, <2>3
<1> QED BY <1>5, <1>6, <1>7 DEF q, price

\* The shares a fill adds.
Gain(fill) == IF fill.side = "BUY" THEN fill.quantity ELSE -fill.quantity

\* What `fill' and the bar it is of do.
Fills(fill, bar) ==
    /\ fill.signal = pending.signal /\ fill.side = pending.side
    /\ fill.at = Len(series) + 1 /\ fill.at >= fill.signal + DelayBars
    /\ fill.quantity <= pending.remaining
    /\ CashDelta(fill) \in Int /\ Gain(fill) \in Int
    /\ cash + CashDelta(fill) \in Nat /\ position + Gain(fill) \in 0..Quantity
    /\ cash' = cash + CashDelta(fill) /\ position' = position + Gain(fill)
    /\ LET rest == Rest(pending, fill.quantity)
       IN  /\ trips' = IF rest = NoOrder /\ fill.side = "BUY" THEN trips + 1 ELSE trips
           /\ CloseBar(bar, Append(series, bar), rest, cash + CashDelta(fill), position + Gain(fill))
    /\ trace' = Append(trace, fill)
    /\ failed' = failed

LEMMA OrderTypes ==
    ASSUME FoldTyped
    PROVE  /\ NoOrder.side = "NONE" /\ NoOrder.remaining = 0 /\ NoOrder.signal = 0
           /\ NoOrder \notin Order
           /\ pending # NoOrder => pending \in Order
           /\ \A order \in Order : /\ order.side \in {"BUY", "SELL"}
                                   /\ order.remaining \in 1..Quantity /\ order.signal \in 1..Length
BY DEF FoldTyped, NoOrder, Order

\* A bar that fills its order ends the fold with an error or makes one fill.
LEMMA FillBarFills ==
    ASSUME FoldTyped, OrderFits, NEW bar \in BarKind, FillBar(bar)
    PROVE  /\ Len(series) \in Warmup..(Length - 1) /\ ~failed /\ pending \in Order
           /\ series' = Append(series, bar) /\ hold' = hold
           /\ \/ /\ failed' = TRUE
                 /\ UNCHANGED <<cash, position, pending, peak, drawdown, trips, trace>>
              \/ \E fill \in Fill : Fills(fill, bar)
<1> DEFINE q == FillQuantity(pending, bar)
           price == Price(pending, bar)
           fill == [signal |-> pending.signal, at |-> Len(series) + 1, side |-> pending.side,
                    quantity |-> q, price |-> price]
<1>1. /\ Len(series) \in Warmup..(Length - 1) /\ ~failed
      /\ series' = Append(series, bar) /\ hold' = hold
      /\ Len(Append(series, bar)) = Len(series) + 1 /\ Len(series) \in Nat
    BY DEF FillBar, FoldTyped
<1>2. /\ pending # NoOrder /\ Len(series) + 1 >= pending.signal + DelayBars
      /\ q > 0
    BY <1>1 DEF FillBar, IsDue
<1>3. /\ pending \in Order /\ pending.side \in {"BUY", "SELL"}
      /\ pending.remaining \in 1..Quantity /\ pending.signal \in 1..Length
    BY <1>2, OrderTypes
<1>4. /\ q \in Nat \ {0} /\ q <= pending.remaining
      /\ pending.side = "SELL" => q <= position
      /\ pending.side = "BUY" => q * price + Fee <= cash
    BY <1>2, <1>3, QuantityIs
<1>5. price \in Nat \ {0} /\ Tax \in Nat /\ Fee \in Nat /\ Quantity \in Nat /\ Length \in Nat
    BY <1>3, PriceType, FoldAssumption
<1>6. cash \in Nat /\ position \in 0..Quantity
    BY DEF FoldTyped
<1>7. \/ failed' = TRUE /\ UNCHANGED <<cash, position, pending, peak, drawdown, trips, trace>>
      \/ /\ ~(fill.side = "SELL" /\ CashDelta(fill) < 0)
         /\ cash' = cash + CashDelta(fill) /\ position' = position + Gain(fill)
         /\ LET rest == Rest(pending, fill.quantity)
            IN  /\ trips' = IF rest = NoOrder /\ fill.side = "BUY" THEN trips + 1 ELSE trips
                /\ CloseBar(bar, Append(series, bar), rest,
                            cash + CashDelta(fill), position + Gain(fill))
         /\ trace' = Append(trace, fill)
         /\ failed' = failed
    BY <1>1 DEF FillBar, Gain
<1> HIDE DEF q, price
<1>8. fill \in Fill
    <2>1. Len(series) + 1 \in 1..Length
        BY <1>1, <1>5
    <2> QED BY <2>1, <1>3, <1>4, <1>5 DEF Fill
<1>9. q * price \in Nat /\ q * Tax \in Nat
    BY <1>4, <1>5, Products
<1>10. CashDelta(fill) = IF pending.side = "BUY" THEN -(q * price + Fee) ELSE q * price - Fee - q * Tax
    BY DEF CashDelta
<1>11. Gain(fill) = IF pending.side = "BUY" THEN q ELSE -q
    BY DEF Gain
<1>12. CashDelta(fill) \in Int /\ Gain(fill) \in Int
    BY <1>4, <1>5, <1>9, <1>10, <1>11
<1>13. position + Gain(fill) \in 0..Quantity
    <2>1. CASE pending.side = "BUY"
        BY <2>1, <1>3, <1>4, <1>5, <1>6, <1>11 DEF OrderFits
    <2>2. CASE pending.side = "SELL"
        BY <2>2, <1>3, <1>4, <1>5, <1>6, <1>11
    <2> QED BY <2>1, <2>2, <1>3
<1>14. ~(fill.side = "SELL" /\ CashDelta(fill) < 0) => cash + CashDelta(fill) \in Nat
    <2>1. CASE pending.side = "BUY"
        <3>1. q * price + Fee <= cash /\ CashDelta(fill) = -(q * price + Fee)
            BY <2>1, <1>4, <1>10
        <3> HIDE DEF fill
        <3> QED BY ONLY <3>1, <1>5, <1>6, <1>9
    <2>2. CASE pending.side = "SELL"
        <3>1. fill.side = "SELL"
            BY <2>2
        <3> HIDE DEF fill
        <3> QED BY <3>1, <1>6, <1>12
    <2> QED BY <2>1, <2>2, <1>3
<1>15. /\ fill.signal = pending.signal /\ fill.side = pending.side
       /\ fill.at = Len(series) + 1 /\ fill.at >= fill.signal + DelayBars
       /\ fill.quantity <= pending.remaining
    BY <1>2, <1>4
<1> HIDE DEF fill
<1>16. ASSUME ~(failed' = TRUE /\ UNCHANGED <<cash, position, pending, peak, drawdown, trips, trace>>)
       PROVE  Fills(fill, bar)
    BY <1>7, <1>12, <1>13, <1>14, <1>15, <1>16 DEF Fills
<1> QED BY <1>1, <1>3, <1>8, <1>16

\* The closes up to the signal alone say which side is traded.
Reason(holding, seen, side) ==
    /\ side = "BUY" =>
          IF holding THEN Len(seen) = Warmup + 1 ELSE Crossover(seen, Len(seen)) = "golden_cross"
    /\ side = "SELL" =>
          Len(seen) = LiquidationBar \/ (~holding /\ Crossover(seen, Len(seen)) = "death_cross")

\* An order that a bar gives is about the whole position and has its reason
\* in the closes up to the bar.
MayFollow(bars, i, open, held, next) ==
    \/ next = open
    \/ next = NoOrder /\ open = NoOrder
    \/ /\ open = NoOrder /\ next \in Order
       /\ next.signal = i /\ Reason(hold, bars, next.side)
       /\ \/ next.side = "BUY" /\ held = 0 /\ next.remaining = Quantity
          \/ next.side = "SELL" /\ held > 0 /\ next.remaining = held

LEMMA NextOrderIs ==
    ASSUME FoldTyped, NEW bars, NEW i, i = Len(bars), i \in 1..Length,
           NEW open \in Order \cup {NoOrder}, NEW held \in 0..Quantity
    PROVE  MayFollow(bars, i, open, held, NextOrder(bars, i, open, held))
<1> SUFFICES ASSUME NEW next, next = NextOrder(bars, i, open, held)
    PROVE MayFollow(bars, i, open, held, next)
    OBVIOUS
<1> DEFINE buy == [side |-> "BUY", signal |-> i, remaining |-> Quantity]
           sell == [side |-> "SELL", signal |-> i, remaining |-> held]
<1>1. SUFFICES ASSUME next # open, next # NoOrder
      PROVE  /\ open = NoOrder
             /\ \/ next = buy /\ held = 0 /\ Reason(hold, bars, "BUY")
                \/ next = sell /\ held > 0 /\ Reason(hold, bars, "SELL")
    <2>1. Quantity \in Nat \ {0}
        BY FoldAssumption
    <2>2. buy \in Order /\ (held > 0 => sell \in Order)
        BY <2>1 DEF Order
    <2>3. open # NoOrder => next = open
        BY DEF NextOrder
    <2> QED BY <2>2, <2>3 DEF MayFollow
<1>2. open = NoOrder /\ ~(i > LiquidationBar)
    BY <1>1 DEF NextOrder
<1>3. LiquidationBar \in Int /\ i \in Int /\ Warmup \in Int /\ SlowWindow \in Int
    BY FoldAssumption DEF LiquidationBar
<1>4. hold \in BOOLEAN
    BY DEF FoldTyped
<1>5. CASE i = LiquidationBar
    <2>1. next = sell /\ held > 0
        BY <1>1, <1>2, <1>3, <1>5 DEF NextOrder
    <2> QED BY <2>1, <1>2, <1>5 DEF Reason
<1>6. CASE i < LiquidationBar /\ hold
    <2>1. next = buy /\ held = 0 /\ i = Warmup + 1
        BY <1>1, <1>2, <1>3, <1>6 DEF NextOrder
    <2> QED BY <2>1, <1>2, <1>6 DEF Reason
<1>7. CASE i < LiquidationBar /\ ~hold /\ i > SlowWindow
    <2>1. next = CASE held = 0 /\ Crossover(bars, i) = "golden_cross" -> buy
                   [] held > 0 /\ Crossover(bars, i) = "death_cross" -> sell
                   [] OTHER -> NoOrder
        BY <1>1, <1>2, <1>3, <1>7 DEF NextOrder
    <2>2. \/ next = buy /\ held = 0 /\ Crossover(bars, i) = "golden_cross"
          \/ next = sell /\ held > 0 /\ Crossover(bars, i) = "death_cross"
        BY <1>1, <2>1
    <2> QED BY <2>2, <1>2, <1>7 DEF Reason
<1>8. CASE ~(i = LiquidationBar) /\ ~(i < LiquidationBar /\ hold)
           /\ ~(i < LiquidationBar /\ ~hold /\ i > SlowWindow)
    BY <1>1, <1>2, <1>8 DEF NextOrder
<1> QED BY <1>5, <1>6, <1>7, <1>8

-----------------------------------------------------------------------------
(* Types and orders, bar by bar.                                             *)

\* What the end of a bar makes of the order `open' at the position `held'.
Places(open, held) ==
    \/ pending' = open
    \/ pending' = NoOrder /\ open = NoOrder
    \/ /\ open = NoOrder /\ pending' \in Order
       /\ pending'.signal = Len(series) + 1 /\ Reason(hold, series', pending'.side)
       /\ \/ pending'.side = "BUY" /\ held = 0 /\ pending'.remaining = Quantity
          \/ pending'.side = "SELL" /\ held > 0 /\ pending'.remaining = held

LEMMA CloseBarPlaces ==
    ASSUME FoldTyped, NEW bar \in BarKind, Len(series) \in Warmup..(Length - 1),
           series' = Append(series, bar), NEW open \in Order \cup {NoOrder},
           NEW held \in 0..Quantity, NEW money,
           CloseBar(bar, Append(series, bar), open, money, held)
    PROVE  Places(open, held)
<1>1. /\ Len(Append(series, bar)) = Len(series) + 1
      /\ Len(series) + 1 \in 1..Length
    <2>1. Len(series) \in Nat /\ Len(Append(series, bar)) = Len(series) + 1
        BY DEF FoldTyped
    <2>2. Warmup \in Nat /\ Length \in Nat
        BY FoldAssumption
    <2> QED BY <2>1, <2>2
<1>2. pending' = NextOrder(Append(series, bar), Len(Append(series, bar)), open, held)
    BY DEF CloseBar
<1>3. PICK next, bars, i : /\ next = pending' /\ bars = Append(series, bar) /\ i = Len(bars)
    OBVIOUS
<1>4. next = NextOrder(bars, i, open, held) /\ i \in 1..Length /\ i = Len(series) + 1
    BY <1>1, <1>2, <1>3
<1>5. MayFollow(bars, i, open, held, NextOrder(bars, i, open, held))
    BY <1>3, <1>4, NextOrderIs
<1>6. MayFollow(bars, i, open, held, next)
    BY <1>4, <1>5
<1> QED BY <1>3, <1>4, <1>6 DEF Places, MayFollow

\* What is left of an order after a fill.
LEMMA RestIs ==
    ASSUME FoldTyped, OrderFits, pending \in Order, NEW bar, NEW fill \in Fill, Fills(fill, bar),
           NEW rest, rest = Rest(pending, fill.quantity)
    PROVE  /\ \/ rest = NoOrder /\ fill.quantity = pending.remaining
              \/ /\ rest \in Order /\ fill.quantity < pending.remaining
                 /\ rest.side = pending.side /\ rest.signal = pending.signal
                 /\ rest.remaining = pending.remaining - fill.quantity
           /\ rest \in Order \cup {NoOrder}
<1>1. fill.quantity \in Nat \ {0} /\ fill.quantity <= pending.remaining
    BY DEF Fills, Fill
<1>2. pending.remaining \in 1..Quantity /\ Quantity \in Nat
    BY FoldAssumption DEF Order
<1>3. CASE fill.quantity = pending.remaining
    BY <1>3 DEF Rest
<1>4. CASE fill.quantity # pending.remaining
    <2>1. rest = [pending EXCEPT !.remaining = @ - fill.quantity]
        BY <1>4 DEF Rest
    <2>2. pending.remaining - fill.quantity \in 1..Quantity
        BY <1>1, <1>2, <1>4
    <2> QED BY <1>1, <1>2, <1>4, <2>1, <2>2 DEF Order
<1> QED BY <1>3, <1>4

\* The three things a step may do: look at a bar or stop, play a bar without
\* a fill, or fill.
Quiet(bar) ==
    /\ series' = Append(series, bar) /\ hold' = hold
    /\ UNCHANGED <<cash, position, pending, peak, drawdown, trips, trace>>
    /\ Len(series) < Length
    /\ \/ failed' = failed /\ Len(series) < Warmup
       \/ failed' = TRUE /\ Len(series) >= Warmup

Plays(bar) ==
    /\ series' = Append(series, bar) /\ hold' = hold
    /\ UNCHANGED <<cash, position, trips, trace, failed>>
    /\ Len(series) \in Warmup..(Length - 1) /\ ~failed
    /\ CloseBar(bar, Append(series, bar), pending, cash, position)
    /\ Places(pending, position)

PlaysFill(bar, fill) ==
    /\ series' = Append(series, bar) /\ hold' = hold
    /\ Len(series) \in Warmup..(Length - 1) /\ ~failed
    /\ pending \in Order
    /\ Fills(fill, bar)
    /\ Places(Rest(pending, fill.quantity), position')

LEMMA BarSteps ==
    ASSUME FoldTyped, OrderFits, FoldNext
    PROVE  \E bar \in BarKind : \/ Quiet(bar) \/ Plays(bar)
                                \/ \E fill \in Fill : PlaysFill(bar, fill)
<1>1. PICK bar \in BarKind : Warm(bar) \/ PlayBar(bar) \/ FillBar(bar)
    BY DEF FoldNext
<1>2. /\ Warmup \in Nat /\ Length \in Nat /\ Len(series) \in Nat /\ Warmup < Length
      /\ pending \in Order \cup {NoOrder} /\ position \in 0..Quantity
    BY FoldAssumption DEF FoldTyped
<1>3. ASSUME Warm(bar) PROVE Quiet(bar)
    BY <1>2, <1>3 DEF Warm, Quiet
<1>4. ASSUME PlayBar(bar) PROVE Plays(bar)
    <2>1. /\ series' = Append(series, bar) /\ hold' = hold
          /\ UNCHANGED <<cash, position, trips, trace, failed>>
          /\ Len(series) \in Warmup..(Length - 1) /\ ~failed
          /\ CloseBar(bar, Append(series, bar), pending, cash, position)
        BY <1>4 DEF PlayBar
    <2>2. Places(pending, position)
        BY <1>2, <2>1, CloseBarPlaces
    <2> QED BY <2>1, <2>2 DEF Plays
<1>5. ASSUME FillBar(bar) PROVE Quiet(bar) \/ \E fill \in Fill : PlaysFill(bar, fill)
    <2>1. /\ Len(series) \in Warmup..(Length - 1) /\ ~failed /\ pending \in Order
          /\ series' = Append(series, bar) /\ hold' = hold
          /\ \/ /\ failed' = TRUE
                /\ UNCHANGED <<cash, position, pending, peak, drawdown, trips, trace>>
             \/ \E fill \in Fill : Fills(fill, bar)
        BY <1>5, FillBarFills
    <2>2. ASSUME NEW fill \in Fill, Fills(fill, bar) PROVE PlaysFill(bar, fill)
        <3>1. PICK rest, held, money : /\ rest = Rest(pending, fill.quantity)
                                       /\ held = position + Gain(fill)
                                       /\ money = cash + CashDelta(fill)
            OBVIOUS
        <3>2. rest \in Order \cup {NoOrder}
            BY <2>1, <2>2, <3>1, RestIs
        <3>3. /\ held \in 0..Quantity /\ position' = held
              /\ CloseBar(bar, Append(series, bar), rest, money, held)
            BY <2>2, <3>1 DEF Fills
        <3>4. Places(rest, held)
            BY <2>1, <3>2, <3>3, CloseBarPlaces
        <3> QED BY <2>1, <2>2, <3>1, <3>3, <3>4 DEF PlaysFill
    <2>3. CASE failed' = TRUE /\ UNCHANGED <<cash, position, pending, peak, drawdown, trips, trace>>
        <3>1. Len(series) < Length /\ Len(series) >= Warmup
            BY <1>2, <2>1
        <3> QED BY <2>1, <2>3, <3>1 DEF Quiet
    <2> QED BY <2>1, <2>2, <2>3
<1> QED BY <1>1, <1>3, <1>4, <1>5

LEMMA InitAccount ==
    ASSUME FoldInit
    PROVE  FoldTyped /\ OrderFits /\ pending = NoOrder /\ trace = <<>> /\ series = <<>>
<1>1. OpeningCash \in Nat /\ Quantity \in Nat /\ Length \in Nat
    BY Bounds
<1>2. /\ series = <<>> /\ trace = <<>> /\ hold \in BOOLEAN /\ failed = FALSE
      /\ cash = OpeningCash /\ position = 0 /\ pending = NoOrder /\ trips = 0
    BY DEF FoldInit
<1>3. /\ Len(<<>>) = 0 /\ <<>> \in Seq(BarKind) /\ <<>> \in Seq(Fill) /\ 1..0 = {}
    OBVIOUS
<1>4. FoldTyped
    <2>1. series \in Seq(BarKind) /\ Len(series) <= Length /\ trace \in Seq(Fill)
        BY <1>1, <1>2, <1>3
    <2>2. \A f \in 1..Len(trace) : trace[f].at <= Len(series)
        BY <1>2, <1>3
    <2>3. cash \in Nat /\ position \in 0..Quantity /\ trips \in Int
        BY <1>1, <1>2
    <2>4. failed \in BOOLEAN
        BY <1>2
    <2> QED BY <1>2, <2>1, <2>2, <2>3, <2>4 DEF FoldTyped
<1> QED BY <1>2, <1>4 DEF OrderFits, NoOrder

LEMMA PlacesFit ==
    ASSUME FoldTyped, NEW open \in Order \cup {NoOrder}, NEW held \in 0..Quantity,
           open.side = "BUY" => held + open.remaining = Quantity,
           open.side = "SELL" => open.remaining = held,
           open # NoOrder => open.signal <= Len(series),
           Places(open, held)
    PROVE  /\ pending' \in Order \cup {NoOrder}
           /\ pending'.side = "BUY" => held + pending'.remaining = Quantity
           /\ pending'.side = "SELL" => pending'.remaining = held
           /\ pending' # NoOrder => pending'.signal <= Len(series) + 1
<1>1. NoOrder.side = "NONE" /\ \A order \in Order : order.signal \in Nat
    BY OrderTypes DEF Order
<1>2. Len(series) \in Nat /\ Quantity \in Nat
    BY Bounds DEF FoldTyped
<1>3. CASE pending' = open
    BY <1>1, <1>2, <1>3
<1>4. CASE pending' = NoOrder /\ open = NoOrder
    BY <1>1, <1>4
<1>5. CASE /\ open = NoOrder /\ pending' \in Order /\ pending'.signal = Len(series) + 1
           /\ \/ pending'.side = "BUY" /\ held = 0 /\ pending'.remaining = Quantity
              \/ pending'.side = "SELL" /\ held > 0 /\ pending'.remaining = held
    BY <1>2, <1>5
<1> QED BY <1>3, <1>4, <1>5 DEF Places

LEMMA StepAccount ==
    ASSUME FoldTyped, OrderFits, NEW bar \in BarKind,
           Quiet(bar) \/ Plays(bar) \/ \E fill \in Fill : PlaysFill(bar, fill)
    PROVE  FoldTyped' /\ OrderFits'
<1>1. /\ series \in Seq(BarKind) /\ Len(series) \in Nat
      /\ Append(series, bar) \in Seq(BarKind) /\ Len(Append(series, bar)) = Len(series) + 1
    BY DEF FoldTyped
<1>2. /\ series' = Append(series, bar) /\ hold' = hold /\ Len(series) < Length
    <2>1. Len(series) \in Warmup..(Length - 1) => Len(series) < Length
        BY <1>1, Bounds
    <2> QED BY <2>1 DEF Quiet, Plays, PlaysFill
<1>3. /\ series' \in Seq(BarKind) /\ Len(series') = Len(series) + 1 /\ Len(series') <= Length
      /\ hold' \in BOOLEAN
    BY <1>1, <1>2, Bounds DEF FoldTyped
<1>4. /\ Len(trace) \in Nat /\ \A f \in 1..Len(trace) : trace[f] \in Fill /\ trace[f].at \in Nat
      /\ Quantity \in Nat
    <2>1. Len(trace) \in Nat /\ \A f \in 1..Len(trace) : trace[f] \in Fill
        BY DEF FoldTyped
    <2>2. \A fill \in Fill : fill.at \in Nat
        BY Bounds DEF Fill
    <2> QED BY <2>1, <2>2, Bounds
<1>5. ASSUME Quiet(bar) PROVE FoldTyped' /\ OrderFits'
    <2>1. /\ UNCHANGED <<cash, position, pending, trips, trace>> /\ failed' \in BOOLEAN
        BY <1>5 DEF Quiet, FoldTyped
    <2>2. \A f \in 1..Len(trace) : trace[f].at <= Len(series) + 1
        BY <1>1, <1>4 DEF FoldTyped
    <2>3. FoldTyped'
        BY <1>3, <2>1, <2>2 DEF FoldTyped
    <2>4. pending # NoOrder => pending.signal <= Len(series) + 1
        BY <1>1, OrderTypes DEF OrderFits
    <2> QED BY <1>3, <2>1, <2>3, <2>4 DEF OrderFits
<1>6. ASSUME Plays(bar) PROVE FoldTyped' /\ OrderFits'
    <2>1. /\ UNCHANGED <<cash, position, trips, trace, failed>> /\ Places(pending, position)
        BY <1>6 DEF Plays
    <2>2. \A f \in 1..Len(trace) : trace[f].at <= Len(series) + 1
        BY <1>1, <1>4 DEF FoldTyped
    <2>3. /\ pending' \in Order \cup {NoOrder}
          /\ pending'.side = "BUY" => position + pending'.remaining = Quantity
          /\ pending'.side = "SELL" => pending'.remaining = position
          /\ pending' # NoOrder => pending'.signal <= Len(series) + 1
        <3>1. pending \in Order \cup {NoOrder} /\ position \in 0..Quantity
            BY DEF FoldTyped
        <3> QED BY <2>1, <3>1, PlacesFit DEF OrderFits
    <2>4. FoldTyped'
        BY <1>3, <2>1, <2>2, <2>3 DEF FoldTyped
    <2> QED BY <1>3, <2>1, <2>3, <2>4 DEF OrderFits
<1>7. ASSUME NEW fill \in Fill, PlaysFill(bar, fill) PROVE FoldTyped' /\ OrderFits'
    <2>1. PICK rest, held : rest = Rest(pending, fill.quantity) /\ held = position + Gain(fill)
        OBVIOUS
    <2>2. /\ pending \in Order /\ Fills(fill, bar) /\ Places(rest, held)
          /\ held \in 0..Quantity /\ position' = held
          /\ cash' \in Nat /\ trace' = Append(trace, fill) /\ failed' = failed
          /\ trips' = IF rest = NoOrder /\ fill.side = "BUY" THEN trips + 1 ELSE trips
          /\ fill.at = Len(series) + 1 /\ fill.side = pending.side
        BY <1>7, <2>1 DEF PlaysFill, Fills
    <2>3. /\ trace' \in Seq(Fill) /\ \A f \in 1..Len(trace') : trace'[f].at <= Len(series')
        <3>1. /\ Append(trace, fill) \in Seq(Fill) /\ Len(Append(trace, fill)) = Len(trace) + 1
              /\ \A f \in 1..Len(trace) : Append(trace, fill)[f] = trace[f]
              /\ Append(trace, fill)[Len(trace) + 1] = fill
            BY Appended DEF FoldTyped
        <3>2. \A f \in 1..(Len(trace) + 1) : f \in 1..Len(trace) \/ f = Len(trace) + 1
            BY <1>4
        <3>3. \A f \in 1..Len(trace) : trace[f].at <= Len(series) + 1
            BY <1>1, <1>4 DEF FoldTyped
        <3> QED BY <1>1, <1>3, <2>2, <3>1, <3>2, <3>3
    <2>4. /\ rest \in Order \cup {NoOrder}
          /\ \/ rest = NoOrder /\ fill.quantity = pending.remaining
             \/ /\ rest \in Order /\ fill.quantity < pending.remaining
                /\ rest.side = pending.side /\ rest.signal = pending.signal
                /\ rest.remaining = pending.remaining - fill.quantity
        BY <2>1, <2>2, RestIs
    <2>5. /\ rest.side = "BUY" => held + rest.remaining = Quantity
          /\ rest.side = "SELL" => rest.remaining = held
          /\ rest # NoOrder => rest.signal <= Len(series)
        <3>1. NoOrder.side = "NONE" /\ NoOrder \notin Order
            BY OrderTypes
        <3>2. /\ fill.quantity \in Nat /\ pending.remaining \in Nat /\ position \in Nat
              /\ held = position + (IF pending.side = "BUY" THEN fill.quantity ELSE -fill.quantity)
            BY <2>1, <2>2 DEF Gain, Fill, Order, FoldTyped
        <3>3. /\ pending.side = "BUY" => position + pending.remaining = Quantity
              /\ pending.side = "SELL" => pending.remaining = position
              /\ pending.signal <= Len(series)
            BY <2>2, <3>1 DEF OrderFits
        <3>4. \/ rest = NoOrder
              \/ /\ rest.side = pending.side /\ rest.signal = pending.signal
                 /\ rest.remaining = pending.remaining - fill.quantity
            BY ONLY <2>4
        <3>5. /\ pending.side = "BUY" =>
                     held + (pending.remaining - fill.quantity) = Quantity
              /\ pending.side = "SELL" => pending.remaining - fill.quantity = held
            BY ONLY <1>4, <3>2, <3>3
        <3> QED BY ONLY <3>1, <3>3, <3>4, <3>5
    <2>6. /\ pending' \in Order \cup {NoOrder}
          /\ pending'.side = "BUY" => held + pending'.remaining = Quantity
          /\ pending'.side = "SELL" => pending'.remaining = held
          /\ pending' # NoOrder => pending'.signal <= Len(series) + 1
        BY <2>2, <2>4, <2>5, PlacesFit
    <2>7. trips' \in Int /\ failed' \in BOOLEAN
        BY <2>2 DEF FoldTyped
    <2>8. FoldTyped'
        BY <1>3, <2>2, <2>3, <2>6, <2>7 DEF FoldTyped
    <2> QED BY <1>3, <2>2, <2>6, <2>8 DEF OrderFits
<1> QED BY <1>5, <1>6, <1>7

-----------------------------------------------------------------------------
(* No fill looks ahead.                                                      *)

\* The orders so far, the open one included, have their reasons in what was
\* seen when they were given, and none was given while another was open.
Looks ==
    /\ pending # NoOrder =>
          /\ Reason(hold, SubSeq(series, 1, pending.signal), pending.side)
          /\ \A f \in 1..Len(trace) :
                /\ trace[f].signal <= pending.signal
                /\ trace[f].signal < pending.signal => trace[f].at <= pending.signal
    /\ \A f \in 1..Len(trace) :
          /\ trace[f].at >= trace[f].signal + DelayBars
          /\ Reason(hold, SubSeq(series, 1, trace[f].signal), trace[f].side)
    /\ \A f, g \in 1..Len(trace) :
          trace[g].signal < trace[f].signal => trace[g].at <= trace[f].signal

LEMMA FillTypes ==
    ASSUME NEW fill \in Fill
    PROVE  /\ fill.signal \in Nat /\ fill.at \in Nat /\ fill.quantity \in Nat \ {0}
           /\ fill.side \in {"BUY", "SELL"} /\ fill.price \in Nat
BY Bounds DEF Fill

LEMMA FirstBars ==
    ASSUME NEW S, NEW s \in Seq(S), NEW e \in S, NEW k \in 0..Len(s)
    PROVE  SubSeq(Append(s, e), 1, k) = SubSeq(s, 1, k)
<1>1. /\ SubSeq(s, 1, k) \in Seq(S) /\ Len(SubSeq(s, 1, k)) = k
      /\ \A i \in 1..k : SubSeq(s, 1, k)[i] = s[i]
    OBVIOUS
<1>2. /\ Append(s, e) \in Seq(S) /\ Len(Append(s, e)) = Len(s) + 1 /\ Len(s) \in Nat
      /\ \A i \in 1..k : Append(s, e)[i] = s[i]
    OBVIOUS
<1>3. /\ SubSeq(Append(s, e), 1, k) \in Seq(S) /\ Len(SubSeq(Append(s, e), 1, k)) = k
      /\ \A i \in 1..k : SubSeq(Append(s, e), 1, k)[i] = Append(s, e)[i]
    BY <1>2
<1>4. \A s1, s2 \in Seq(S) :
         Len(s1) = Len(s2) /\ (\A i \in 1..Len(s1) : s1[i] = s2[i]) => s1 = s2
    OBVIOUS
<1> QED BY <1>1, <1>2, <1>3, <1>4

LEMMA Whole ==
    ASSUME NEW S, NEW s \in Seq(S)
    PROVE  SubSeq(s, 1, Len(s)) = s
OBVIOUS

\* What had its reason in the bars seen has it still.
LEMMA ReasonsStay ==
    ASSUME FoldTyped, NEW bar \in BarKind, series' = Append(series, bar), hold' = hold,
           NEW k \in 0..Len(series), NEW side, Reason(hold, SubSeq(series, 1, k), side)
    PROVE  Reason(hold', SubSeq(series', 1, k), side)
<1>1. SubSeq(series', 1, k) = SubSeq(series, 1, k)
    BY FirstBars DEF FoldTyped
<1> QED BY <1>1

\* A new order is given by the last bar seen, after every fill.
LEMMA PlacesLooks ==
    ASSUME FoldTyped, NEW bar \in BarKind, series' = Append(series, bar), hold' = hold,
           NEW open \in Order \cup {NoOrder}, NEW held, Places(open, held),
           NEW fills \in Seq(Fill),
           \A f \in 1..Len(fills) : fills[f].at <= Len(series) + 1 /\ fills[f].signal <= Len(series),
           open # NoOrder =>
              /\ open.signal <= Len(series)
              /\ Reason(hold, SubSeq(series, 1, open.signal), open.side)
              /\ \A f \in 1..Len(fills) :
                    /\ fills[f].signal <= open.signal
                    /\ fills[f].signal < open.signal => fills[f].at <= open.signal
    PROVE  pending' # NoOrder =>
              /\ Reason(hold', SubSeq(series', 1, pending'.signal), pending'.side)
              /\ \A f \in 1..Len(fills) :
                    /\ fills[f].signal <= pending'.signal
                    /\ fills[f].signal < pending'.signal => fills[f].at <= pending'.signal
<1>1. /\ series \in Seq(BarKind) /\ Len(series) \in Nat
      /\ Append(series, bar) \in Seq(BarKind) /\ Len(Append(series, bar)) = Len(series) + 1
    BY DEF FoldTyped
<1>2. SUFFICES ASSUME pending' # NoOrder
      PROVE  /\ Reason(hold', SubSeq(series', 1, pending'.signal), pending'.side)
             /\ \A f \in 1..Len(fills) :
                   /\ fills[f].signal <= pending'.signal
                   /\ fills[f].signal < pending'.signal => fills[f].at <= pending'.signal
    OBVIOUS
<1>3. CASE pending' = open
    <2>1. PICK k, side : k = open.signal /\ side = open.side
        OBVIOUS
    <2>2. open \in Order /\ k \in 0..Len(series)
        BY <1>1, <1>2, <1>3, <2>1 DEF Order
    <2>3. Reason(hold', SubSeq(series', 1, k), side)
        BY <1>2, <1>3, <2>1, <2>2, ReasonsStay
    <2> QED BY <1>2, <1>3, <2>1, <2>3
<1>4. CASE pending'.signal = Len(series) + 1 /\ Reason(hold, series', pending'.side)
    <2>1. SubSeq(series', 1, pending'.signal) = series'
        BY <1>1, <1>4, Whole
    <2>2. Reason(hold', SubSeq(series', 1, pending'.signal), pending'.side)
        BY <1>4, <2>1
    <2>3. \A f \in 1..Len(fills) : fills[f] \in Fill
        OBVIOUS
    <2>4. \A f \in 1..Len(fills) : fills[f].signal \in Nat /\ fills[f].at \in Nat
        BY <2>3, FillTypes
    <2>5. \A f \in 1..Len(fills) : fills[f].at <= Len(series) + 1 /\ fills[f].signal <= Len(series)
        OBVIOUS
    <2> QED BY ONLY <1>1, <1>4, <2>2, <2>4, <2>5
<1> QED BY <1>2, <1>3, <1>4 DEF Places

LEMMA StepLooks ==
    ASSUME FoldTyped, OrderFits, Looks, NEW bar \in BarKind,
           Quiet(bar) \/ Plays(bar) \/ \E fill \in Fill : PlaysFill(bar, fill)
    PROVE  Looks'
<1>1. /\ series \in Seq(BarKind) /\ Len(series) \in Nat
      /\ series' = Append(series, bar) /\ hold' = hold
    BY DEF FoldTyped, Quiet, Plays, PlaysFill
<1>2. /\ Len(trace) \in Nat
      /\ \A f \in 1..Len(trace) :
            /\ trace[f] \in Fill /\ trace[f].signal \in Nat /\ trace[f].at \in Nat
            /\ trace[f].at <= Len(series) /\ trace[f].at >= trace[f].signal + DelayBars
            /\ trace[f].signal <= Len(series)
    <2>1. Len(trace) \in Nat /\ \A f \in 1..Len(trace) : trace[f] \in Fill
        BY DEF FoldTyped
    <2>2. \A f \in 1..Len(trace) : trace[f].signal \in Nat /\ trace[f].at \in Nat
        BY <2>1, FillTypes
    <2>3. \A f \in 1..Len(trace) :
             trace[f].at <= Len(series) /\ trace[f].at >= trace[f].signal + DelayBars
        BY DEF FoldTyped, Looks
    <2> QED BY <1>1, <2>1, <2>2, <2>3, Bounds
<1>3. \A f \in 1..Len(trace) : Reason(hold', SubSeq(series', 1, trace[f].signal), trace[f].side)
    <2>1. SUFFICES ASSUME NEW f \in 1..Len(trace)
          PROVE Reason(hold', SubSeq(series', 1, trace[f].signal), trace[f].side)
        OBVIOUS
    <2>2. PICK k, side : k = trace[f].signal /\ side = trace[f].side
        OBVIOUS
    <2>3. k \in 0..Len(series)
        BY <1>1, <1>2, <2>2
    <2>4. Reason(hold, SubSeq(series, 1, k), side)
        BY <2>2 DEF Looks
    <2> QED BY <1>1, <2>2, <2>3, <2>4, ReasonsStay
<1>4. \A f, g \in 1..Len(trace) :
         trace[g].signal < trace[f].signal => trace[g].at <= trace[f].signal
    BY DEF Looks
<1>5. pending \in Order \cup {NoOrder} /\ (pending # NoOrder => pending.signal <= Len(series))
    BY DEF FoldTyped, OrderFits
<1>6. pending # NoOrder =>
         /\ Reason(hold, SubSeq(series, 1, pending.signal), pending.side)
         /\ \A f \in 1..Len(trace) :
               /\ trace[f].signal <= pending.signal
               /\ trace[f].signal < pending.signal => trace[f].at <= pending.signal
    BY DEF Looks
<1>7. ASSUME Quiet(bar) PROVE Looks'
    <2>1. UNCHANGED <<pending, trace>>
        BY <1>7 DEF Quiet
    <2>2. pending # NoOrder => Reason(hold', SubSeq(series', 1, pending.signal), pending.side)
        <3>1. PICK k, side : k = pending.signal /\ side = pending.side
            OBVIOUS
        <3>2. SUFFICES ASSUME pending # NoOrder PROVE Reason(hold', SubSeq(series', 1, k), side)
            BY <3>1
        <3>3. k \in 0..Len(series)
            BY <1>1, <1>5, <3>1, <3>2, OrderTypes
        <3> QED BY <1>1, <1>6, <3>1, <3>2, <3>3, ReasonsStay
    <2> QED BY <1>2, <1>3, <1>4, <1>6, <2>1, <2>2 DEF Looks
<1>8. ASSUME Plays(bar) PROVE Looks'
    <2>1. trace' = trace /\ Places(pending, position)
        BY <1>8 DEF Plays
    <2>2. trace \in Seq(Fill)
          /\ \A f \in 1..Len(trace) : trace[f].at <= Len(series) + 1 /\ trace[f].signal <= Len(series)
        BY <1>1, <1>2 DEF FoldTyped
    <2>3. pending' # NoOrder =>
             /\ Reason(hold', SubSeq(series', 1, pending'.signal), pending'.side)
             /\ \A f \in 1..Len(trace) :
                   /\ trace[f].signal <= pending'.signal
                   /\ trace[f].signal < pending'.signal => trace[f].at <= pending'.signal
        BY <1>1, <1>5, <1>6, <2>1, <2>2, PlacesLooks
    <2> QED BY <1>2, <1>3, <1>4, <2>1, <2>3 DEF Looks
<1>9. ASSUME NEW fill \in Fill, PlaysFill(bar, fill) PROVE Looks'
    <2>1. PICK rest, held, fills : /\ rest = Rest(pending, fill.quantity) /\ held = position'
                                   /\ fills = Append(trace, fill)
        OBVIOUS
    <2>2. /\ pending \in Order /\ Fills(fill, bar) /\ Places(rest, held) /\ trace' = fills
          /\ fill.signal = pending.signal /\ fill.side = pending.side
          /\ fill.at = Len(series) + 1 /\ fill.at >= fill.signal + DelayBars
        BY <1>9, <2>1 DEF PlaysFill, Fills
    <2>3. pending # NoOrder /\ pending.signal \in 1..Len(series)
        <3>1. pending # NoOrder /\ pending.signal \in 1..Length
            BY <2>2, OrderTypes
        <3> QED BY <1>1, <1>5, <3>1, Bounds
    <2>4. /\ fills \in Seq(Fill) /\ Len(fills) = Len(trace) + 1
          /\ \A f \in 1..Len(trace) : fills[f] = trace[f]
          /\ fills[Len(trace) + 1] = fill
          /\ \A f \in 1..Len(fills) : f \in 1..Len(trace) \/ f = Len(trace) + 1
        <3>1. /\ fills \in Seq(Fill) /\ Len(fills) = Len(trace) + 1
              /\ \A f \in 1..Len(trace) : fills[f] = trace[f]
              /\ fills[Len(trace) + 1] = fill
            BY <2>1, Appended DEF FoldTyped
        <3> QED BY <1>2, <3>1
    <2>5. /\ rest \in Order \cup {NoOrder}
          /\ rest # NoOrder => rest.side = pending.side /\ rest.signal = pending.signal
        <3>1. /\ \/ rest = NoOrder /\ fill.quantity = pending.remaining
                 \/ /\ rest \in Order /\ fill.quantity < pending.remaining
                    /\ rest.side = pending.side /\ rest.signal = pending.signal
                    /\ rest.remaining = pending.remaining - fill.quantity
              /\ rest \in Order \cup {NoOrder}
            BY <2>1, <2>2, RestIs
        <3> QED BY <3>1
    <2>6. \A f \in 1..Len(fills) : fills[f].at <= Len(series) + 1 /\ fills[f].signal <= Len(series)
        BY <1>1, <1>2, <2>2, <2>3, <2>4
    <2>7. \A f \in 1..Len(fills) :
             /\ fills[f].signal <= pending.signal
             /\ fills[f].signal < pending.signal => fills[f].at <= pending.signal
        <3>1. \A f \in 1..Len(trace) :
                 /\ trace[f].signal <= pending.signal
                 /\ trace[f].signal < pending.signal => trace[f].at <= pending.signal
            BY <1>6, <2>3
        <3> QED BY <2>2, <2>3, <2>4, <3>1
    <2>8. rest # NoOrder =>
             /\ rest.signal <= Len(series)
             /\ Reason(hold, SubSeq(series, 1, rest.signal), rest.side)
             /\ \A f \in 1..Len(fills) :
                   /\ fills[f].signal <= rest.signal
                   /\ fills[f].signal < rest.signal => fills[f].at <= rest.signal
        BY <1>6, <2>3, <2>5, <2>7
    <2>9. pending' # NoOrder =>
             /\ Reason(hold', SubSeq(series', 1, pending'.signal), pending'.side)
             /\ \A f \in 1..Len(fills) :
                   /\ fills[f].signal <= pending'.signal
                   /\ fills[f].signal < pending'.signal => fills[f].at <= pending'.signal
        BY <1>1, <2>2, <2>4, <2>5, <2>6, <2>8, PlacesLooks
    <2>10. Reason(hold', SubSeq(series', 1, fill.signal), fill.side)
        <3>1. PICK k, side : k = pending.signal /\ side = pending.side
            OBVIOUS
        <3>2. Reason(hold', SubSeq(series', 1, k), side)
            BY <1>1, <1>6, <2>3, <3>1, ReasonsStay
        <3> QED BY <2>2, <3>1, <3>2
    <2>11. \A f \in 1..Len(fills) :
              /\ fills[f].at >= fills[f].signal + DelayBars
              /\ Reason(hold', SubSeq(series', 1, fills[f].signal), fills[f].side)
        BY <1>2, <1>3, <2>2, <2>4, <2>10
    <2>12. \A f, g \in 1..Len(fills) :
              fills[g].signal < fills[f].signal => fills[g].at <= fills[f].signal
        <3>1. SUFFICES ASSUME NEW f \in 1..Len(fills), NEW g \in 1..Len(fills),
                              fills[g].signal < fills[f].signal
              PROVE fills[g].at <= fills[f].signal
            OBVIOUS
        <3>2. CASE f = Len(trace) + 1
            <4>1. fills[f].signal = pending.signal
                BY <2>2, <2>4, <3>2
            <4> QED BY <2>7, <3>1, <4>1
        <3>3. CASE f \in 1..Len(trace) /\ g = Len(trace) + 1
            <4>1. fills[f].signal <= pending.signal /\ fills[g].signal = pending.signal
                BY <2>2, <2>4, <2>7, <3>3
            <4>2. fills[f].signal \in Nat /\ pending.signal \in Nat
                BY <1>2, <2>3, <2>4, <3>3
            <4> QED BY <3>1, <4>1, <4>2
        <3>4. CASE f \in 1..Len(trace) /\ g \in 1..Len(trace)
            BY <1>4, <2>4, <3>1, <3>4
        <3> QED BY <2>4, <3>2, <3>3, <3>4
    <2> QED BY <2>2, <2>9, <2>11, <2>12 DEF Looks
<1> QED BY <1>7, <1>8, <1>9

LEMMA LooksSafely ==
    ASSUME FoldTyped, OrderFits, Looks
    PROVE  NoLookahead
<1>1. SUFFICES ASSUME NEW f \in 1..Len(trace)
      PROVE  /\ trace[f].at >= trace[f].signal + DelayBars
             /\ Reason(hold, SubSeq(series, 1, trace[f].signal), trace[f].side)
             /\ \A g \in 1..Len(trace) :
                   trace[g].signal < trace[f].signal => trace[g].at <= trace[f].signal
    <2>1. DOMAIN trace = 1..Len(trace)
        BY DEF FoldTyped
    <2> QED BY <2>1, Zenon DEF NoLookahead, Reason
<1> QED BY DEF Looks

-----------------------------------------------------------------------------
(* The trades of a scored fold are closed.                                   *)

\* The orders of a side that have fills.
Signals(fills, side) == {fills[f].signal : f \in {g \in DOMAIN fills : fills[g].side = side}}

\* Whether the open order is one of them, as a number.
Begun(order, fills, side) ==
    IF order.side = side /\ order.signal \in Signals(fills, side) THEN 1 ELSE 0

\* Every completed buy is counted, and every one but the last is sold again.
Counts ==
    LET buys == Signals(trace, "BUY")
        sales == Signals(trace, "SELL")
    IN  /\ IsFiniteSet(buys) /\ IsFiniteSet(sales)
        /\ Cardinality(buys) = trips + Begun(pending, trace, "BUY")
        /\ Cardinality(buys) = Cardinality(sales) + (IF position > 0 THEN 1 ELSE 0)
                                  - Begun(pending, trace, "SELL")
        /\ pending.side = "BUY" => (Begun(pending, trace, "BUY") = 1 <=> position > 0)

LEMMA SignalAdded ==
    ASSUME NEW fills \in Seq(Fill), NEW fill \in Fill, NEW side
    PROVE  Signals(Append(fills, fill), side) =
              IF fill.side = side THEN Signals(fills, side) \cup {fill.signal}
              ELSE Signals(fills, side)
<1> DEFINE more == Append(fills, fill)
           n == Len(fills) + 1
<1>1. /\ Len(fills) \in Nat /\ DOMAIN fills = 1..Len(fills)
      /\ DOMAIN more = 1..n
      /\ \A f \in DOMAIN fills : f \in DOMAIN more /\ more[f] = fills[f]
      /\ more[n] = fill /\ n \in DOMAIN more
    <2>1. /\ more \in Seq(Fill) /\ Len(more) = n /\ Len(fills) \in Nat
          /\ \A f \in 1..Len(fills) : more[f] = fills[f]
          /\ more[n] = fill
        BY Appended
    <2> HIDE DEF more
    <2> QED BY <2>1
<1>2. \A f \in DOMAIN more : f \in DOMAIN fills \/ f = n
    BY <1>1
<1> HIDE DEF more, n
<1>3. ASSUME NEW s
      PROVE  s \in Signals(more, side)
                <=> s \in Signals(fills, side) \/ (fill.side = side /\ s = fill.signal)
    BY <1>1, <1>2 DEF Signals
<1>4. CASE fill.side = side
    BY <1>3, <1>4 DEF more
<1>5. CASE fill.side # side
    BY <1>3, <1>5 DEF more
<1> QED BY <1>4, <1>5

\* A new order has no fills.
LEMMA PlacesUnbegun ==
    ASSUME FoldTyped, NEW fills \in Seq(Fill),
           \A f \in 1..Len(fills) : fills[f].signal <= Len(series),
           NEW open \in Order \cup {NoOrder}, NEW held, Places(open, held)
    PROVE  /\ \A side \in {"BUY", "SELL"} : Begun(pending', fills, side) = Begun(open, fills, side)
           /\ pending'.side = "BUY" => \/ pending' = open
                                       \/ held = 0 /\ Begun(pending', fills, "BUY") = 0
<1>1. CASE pending' = open
    BY <1>1
<1>2. CASE pending' = NoOrder /\ open = NoOrder
    BY <1>2
<1>3. CASE /\ open = NoOrder /\ pending' \in Order /\ pending'.signal = Len(series) + 1
           /\ \/ pending'.side = "BUY" /\ held = 0
              \/ pending'.side = "SELL"
    <2>1. ASSUME NEW side PROVE Len(series) + 1 \notin Signals(fills, side)
        <3>1. SUFFICES ASSUME Len(series) + 1 \in Signals(fills, side) PROVE FALSE
            OBVIOUS
        <3>2. PICK f \in DOMAIN fills : Len(series) + 1 = fills[f].signal
            BY <3>1 DEF Signals
        <3>3. Len(series) \in Nat /\ f \in 1..Len(fills)
            BY DEF FoldTyped
        <3>4. fills[f].signal <= Len(series)
            BY <3>3
        <3> QED BY <3>2, <3>3, <3>4
    <2>2. \A side : Begun(pending', fills, side) = 0
        BY <1>3, <2>1 DEF Begun
    <2>3. \A side \in {"BUY", "SELL"} : Begun(NoOrder, fills, side) = 0
        BY OrderTypes DEF Begun
    <2> QED BY <1>3, <2>2, <2>3
<1> QED BY <1>1, <1>2, <1>3 DEF Places

LEMMA StepCounts ==
    ASSUME FoldTyped, OrderFits, Looks, Counts, NEW bar \in BarKind,
           Quiet(bar) \/ Plays(bar) \/ \E fill \in Fill : PlaysFill(bar, fill)
    PROVE  Counts'
<1>1. CASE Quiet(bar)
    <2>1. UNCHANGED <<pending, trace, trips, position>>
        BY <1>1 DEF Quiet
    <2> QED BY <2>1 DEF Counts
<1>2. \A f \in 1..Len(trace) : trace[f] \in Fill /\ trace[f].signal <= Len(series)
    <2>1. Len(trace) \in Nat /\ \A f \in 1..Len(trace) : trace[f] \in Fill
        BY DEF FoldTyped
    <2>2. \A f \in 1..Len(trace) : trace[f].signal \in Nat /\ trace[f].at \in Nat
        BY <2>1, FillTypes
    <2>3. \A f \in 1..Len(trace) :
             trace[f].at <= Len(series) /\ trace[f].at >= trace[f].signal + DelayBars
        BY DEF FoldTyped, Looks
    <2>4. Len(series) \in Nat
        BY DEF FoldTyped
    <2>5. DelayBars \in Nat
        BY Bounds
    <2>6. \A f \in 1..Len(trace) : trace[f].signal <= Len(series)
        BY ONLY <2>2, <2>3, <2>4, <2>5
    <2> QED BY <2>1, <2>6
<1>3. CASE Plays(bar)
    <2>1. UNCHANGED <<trace, trips, position>> /\ Places(pending, position)
        BY <1>3 DEF Plays
    <2>2. trace \in Seq(Fill) /\ pending \in Order \cup {NoOrder}
        BY DEF FoldTyped
    <2>3. /\ \A side \in {"BUY", "SELL"} : Begun(pending', trace, side) = Begun(pending, trace, side)
          /\ pending'.side = "BUY" => \/ pending' = pending
                                      \/ position = 0 /\ Begun(pending', trace, "BUY") = 0
        BY <1>2, <2>1, <2>2, PlacesUnbegun
    <2>4. pending'.side = "BUY" => (Begun(pending', trace, "BUY") = 1 <=> position > 0)
        BY <2>3 DEF Counts
    <2> QED BY <2>1, <2>3, <2>4 DEF Counts
<1>4. CASE \E fill \in Fill : PlaysFill(bar, fill)
    <2>0. PICK fill \in Fill : PlaysFill(bar, fill)
        BY <1>4
    <2>1. PICK rest, held, fills : /\ rest = Rest(pending, fill.quantity) /\ held = position'
                                   /\ fills = Append(trace, fill)
        OBVIOUS
    <2>2. /\ pending \in Order /\ Fills(fill, bar) /\ Places(rest, held) /\ trace' = fills
          /\ fill.signal = pending.signal /\ fill.side = pending.side
          /\ position' = held /\ held = position + Gain(fill)
          /\ trips' = IF rest = NoOrder /\ fill.side = "BUY" THEN trips + 1 ELSE trips
        BY <2>0, <2>1 DEF PlaysFill, Fills
    <2>3. /\ \/ rest = NoOrder /\ fill.quantity = pending.remaining
             \/ /\ rest \in Order /\ fill.quantity < pending.remaining
                /\ rest.side = pending.side /\ rest.signal = pending.signal
                /\ rest.remaining = pending.remaining - fill.quantity
          /\ rest \in Order \cup {NoOrder}
        BY <2>1, <2>2, RestIs
    <2>4. /\ pending # NoOrder /\ pending.signal <= Len(series) /\ NoOrder \notin Order
          /\ NoOrder.side = "NONE"
          /\ pending.side \in {"BUY", "SELL"} /\ pending.remaining \in Nat \ {0}
        BY <2>2, OrderTypes DEF OrderFits
    <2>5. fills \in Seq(Fill) /\ \A f \in 1..Len(fills) : fills[f].signal <= Len(series)
        <3>1. /\ fills \in Seq(Fill) /\ Len(fills) = Len(trace) + 1 /\ Len(trace) \in Nat
              /\ \A f \in 1..Len(trace) : fills[f] = trace[f]
              /\ fills[Len(trace) + 1] = fill
            BY <2>1, Appended DEF FoldTyped
        <3>2. \A f \in 1..Len(fills) : f \in 1..Len(trace) \/ f = Len(trace) + 1
            BY <3>1
        <3> QED BY <1>2, <2>2, <2>4, <3>1, <3>2
    <2>6. /\ \A side \in {"BUY", "SELL"} : Begun(pending', fills, side) = Begun(rest, fills, side)
          /\ pending'.side = "BUY" => \/ pending' = rest
                                      \/ held = 0 /\ Begun(pending', fills, "BUY") = 0
        BY <2>2, <2>3, <2>5, PlacesUnbegun
    <2>7. PICK buys, sales, bought, sold, sig :
             /\ buys = Signals(trace, "BUY") /\ sales = Signals(trace, "SELL")
             /\ bought = Signals(fills, "BUY") /\ sold = Signals(fills, "SELL")
             /\ sig = pending.signal
        OBVIOUS
    <2>8. /\ bought = IF pending.side = "BUY" THEN buys \cup {sig} ELSE buys
          /\ sold = IF pending.side = "SELL" THEN sales \cup {sig} ELSE sales
        <3>1. trace \in Seq(Fill)
            BY DEF FoldTyped
        <3>2. \A side : Signals(fills, side) =
                 IF fill.side = side THEN Signals(trace, side) \cup {fill.signal}
                 ELSE Signals(trace, side)
            BY <2>1, <3>1, SignalAdded
        <3> QED BY <2>2, <2>7, <3>2
    <2>9. /\ IsFiniteSet(buys) /\ IsFiniteSet(sales)
          /\ Cardinality(buys) \in Nat /\ Cardinality(sales) \in Nat
          /\ Cardinality(buys) = trips + Begun(pending, trace, "BUY")
          /\ Cardinality(buys) = Cardinality(sales) + (IF position > 0 THEN 1 ELSE 0)
                                    - Begun(pending, trace, "SELL")
          /\ pending.side = "BUY" => (Begun(pending, trace, "BUY") = 1 <=> position > 0)
        BY <2>7, FS_CardinalityType DEF Counts
    <2>10. /\ Begun(pending, trace, "BUY") = IF pending.side = "BUY" /\ sig \in buys THEN 1 ELSE 0
           /\ Begun(pending, trace, "SELL") = IF pending.side = "SELL" /\ sig \in sales THEN 1 ELSE 0
        BY <2>7 DEF Begun
    <2>11. /\ Begun(rest, fills, "BUY") = IF rest # NoOrder /\ pending.side = "BUY" THEN 1 ELSE 0
           /\ Begun(rest, fills, "SELL") = IF rest # NoOrder /\ pending.side = "SELL" THEN 1 ELSE 0
        <3>1. rest # NoOrder => rest.side = pending.side /\ rest.signal = sig
            BY <2>3, <2>7
        <3>2. CASE rest = NoOrder
            BY <2>4, <3>2 DEF Begun
        <3>3. CASE rest # NoOrder
            BY <2>4, <2>7, <2>8, <3>1, <3>3 DEF Begun
        <3> QED BY <3>2, <3>3
    <2>12. /\ IsFiniteSet(bought) /\ IsFiniteSet(sold)
           /\ Cardinality(bought) = Cardinality(buys)
                 + (IF pending.side = "BUY" /\ sig \notin buys THEN 1 ELSE 0)
           /\ Cardinality(sold) = Cardinality(sales)
                 + (IF pending.side = "SELL" /\ sig \notin sales THEN 1 ELSE 0)
        <3>1. \A S, x : IsFiniteSet(S) =>
                 /\ IsFiniteSet(S \cup {x})
                 /\ Cardinality(S \cup {x}) = IF x \in S THEN Cardinality(S) ELSE Cardinality(S) + 1
            BY FS_AddElement
        <3>2. /\ IsFiniteSet(buys \cup {sig})
              /\ Cardinality(buys \cup {sig})
                    = IF sig \in buys THEN Cardinality(buys) ELSE Cardinality(buys) + 1
            BY <2>9, <3>1
        <3>3. /\ IsFiniteSet(sales \cup {sig})
              /\ Cardinality(sales \cup {sig})
                    = IF sig \in sales THEN Cardinality(sales) ELSE Cardinality(sales) + 1
            BY <2>9, <3>1
        <3>4. CASE pending.side = "BUY"
            BY <2>8, <2>9, <3>2, <3>4
        <3>5. CASE pending.side = "SELL"
            BY <2>8, <2>9, <3>3, <3>5
        <3> QED BY <2>4, <3>4, <3>5
    <2>13. /\ position \in Nat /\ fill.quantity \in Nat \ {0} /\ trips \in Int
           /\ held = position + (IF pending.side = "BUY" THEN fill.quantity ELSE -fill.quantity)
           /\ pending.side = "SELL" => pending.remaining = position
           /\ fill.quantity <= pending.remaining
           /\ rest = NoOrder <=> fill.quantity = pending.remaining
        <3>1. /\ held = position + (IF pending.side = "BUY" THEN fill.quantity ELSE -fill.quantity)
              /\ fill.quantity <= pending.remaining
            BY <2>2 DEF Fills, Gain
        <3>2. position \in Nat /\ trips \in Int /\ fill.quantity \in Nat \ {0}
            BY FillTypes DEF FoldTyped
        <3>3. rest = NoOrder <=> fill.quantity = pending.remaining
            BY <2>3, <2>4, <3>2
        <3> QED BY <3>1, <3>2, <3>3 DEF OrderFits
    <2>14. trips' = IF rest = NoOrder /\ pending.side = "BUY" THEN trips + 1 ELSE trips
        BY <2>2
    <2>15. /\ Cardinality(bought) = trips' + Begun(rest, fills, "BUY")
           /\ Cardinality(bought) = Cardinality(sold) + (IF held > 0 THEN 1 ELSE 0)
                                       - Begun(rest, fills, "SELL")
        <3>1. CASE pending.side = "BUY"
            BY ONLY <3>1, <2>9, <2>10, <2>11, <2>12, <2>13, <2>14
        <3>2. CASE pending.side = "SELL"
            BY ONLY <3>2, <2>4, <2>9, <2>10, <2>11, <2>12, <2>13, <2>14
        <3> QED BY <2>4, <3>1, <3>2
    <2>16. pending'.side = "BUY" => (Begun(pending', fills, "BUY") = 1 <=> held > 0)
        <3>1. CASE pending' = rest /\ rest # NoOrder /\ pending.side = "BUY"
            BY <2>11, <2>13, <3>1
        <3>2. rest # NoOrder => rest.side = pending.side
            BY <2>3
        <3> QED BY <2>4, <2>6, <3>1, <3>2
    <2>17. Begun(pending', fills, "BUY") = Begun(rest, fills, "BUY")
           /\ Begun(pending', fills, "SELL") = Begun(rest, fills, "SELL")
        BY <2>6
    <2> QED BY <2>2, <2>7, <2>12, <2>15, <2>16, <2>17 DEF Counts
<1> QED BY <1>1, <1>3, <1>4

LEMMA CountsClosed ==
    ASSUME FoldTyped, Counts
    PROVE  RoundTripsClosed
<1>1. SUFFICES ASSUME pending = NoOrder, position = 0
      PROVE  /\ trips = Cardinality(Signals(trace, "BUY"))
             /\ trips = Cardinality(Signals(trace, "SELL"))
    BY DEF RoundTripsClosed, IsScored, Signals
<1>2. Begun(pending, trace, "BUY") = 0 /\ Begun(pending, trace, "SELL") = 0
    BY <1>1, OrderTypes DEF Begun
<1>3. trips \in Int /\ Cardinality(Signals(trace, "BUY")) \in Nat
      /\ Cardinality(Signals(trace, "SELL")) \in Nat
    BY FS_CardinalityType DEF FoldTyped, Counts
<1> QED BY <1>1, <1>2, <1>3 DEF Counts

-----------------------------------------------------------------------------
(* The drawdown is the worst loss there was.                                 *)

\* The largest of the losses equity[i] - equity[j], i before j, in proportion
\* to equity[i], is loss to top; the moments are first..last.
Worst(equity, first, last, top, loss, from) ==
    /\ \A i \in first..last : equity[i] \in Nat /\ equity[i] <= top
    /\ \E i \in first..last : equity[i] = top
    /\ top \in Nat \ {0} /\ loss \in Nat /\ from \in Nat \ {0} /\ loss <= from
    /\ \A i, j \in first..last : i <= j => (equity[i] - equity[j]) * from <= loss * equity[i]
    /\ \E i, j \in first..last : i <= j /\ (equity[i] - equity[j]) * from = loss * equity[i]

\* A proportion above another one is above whatever that is above.
LEMMA WorseThan ==
    ASSUME NEW d \in Int, NEW e \in Nat, NEW loss \in Nat, NEW from \in Nat \ {0},
           NEW more \in Nat, NEW top \in Nat,
           d * from <= loss * e, more * from > loss * top
    PROVE  d * top <= more * e
<1>1. CASE d <= 0
    <2>1. d * top <= 0
        <3>1. PICK n \in Nat : d = -n
            BY <1>1
        <3>2. n * top \in Nat /\ d * top = -(n * top)
            BY <3>1
        <3> QED BY <3>2
    <2>2. more * e \in Nat /\ d * top \in Int
        OBVIOUS
    <2> QED BY <2>1, <2>2
<1>2. CASE d > 0
    <2>1. d \in Nat /\ e \in Nat /\ top \in Nat
        BY <1>2
    <2>2. d * from \in Nat /\ loss * e \in Nat /\ more * from \in Nat /\ loss * top \in Nat
        BY <2>1
    <2>3. (d * from) * top <= (loss * e) * top
        BY <2>2, Products
    <2>4. (loss * top) * e <= (more * from) * e
        BY <2>2, Products
    <2>5. /\ (d * from) * top = (d * top) * from
          /\ (loss * e) * top = (loss * top) * e
          /\ (more * from) * e = (more * e) * from
        BY <2>1
    <2>6. d * top \in Nat /\ more * e \in Nat
        BY <2>1
    <2>7. PICK x \in Nat, y \in Nat : x = d * top /\ y = more * e
        BY <2>6
    <2>8. x * from \in Nat /\ y * from \in Nat /\ x * from <= y * from
        BY <2>2, <2>3, <2>4, <2>5, <2>7
    <2>9. ~(y < x)
        <3>1. SUFFICES ASSUME y < x PROVE FALSE
            OBVIOUS
        <3>2. y * from + from <= x * from
            BY <3>1, Products
        <3> QED BY <2>8, <3>2
    <2> QED BY <2>7, <2>9
<1> QED BY <1>1, <1>2

\* From a higher point the same loss is a smaller part.
LEMMA LessWorse ==
    ASSUME NEW i \in Nat, NEW top \in Nat, i <= top, NEW e \in Nat,
           NEW loss \in Nat, NEW from \in Nat, loss <= from, (top - e) * from <= loss * top
    PROVE  (i - e) * from <= loss * i
<1>1. PICK d \in Nat : from = loss + d
    <2>1. from - loss \in Nat /\ from = loss + (from - loss)
        OBVIOUS
    <2> QED BY <2>1
<1>2. top * d \in Nat /\ i * d \in Nat /\ e * from \in Nat /\ i * d <= top * d
    BY Products
<1>3. /\ (top - e) * from = loss * top + top * d - e * from
      /\ loss * top \in Nat
    <2>1. (top - e) * from = top * from - e * from
        OBVIOUS
    <2>2. top * from = top * loss + top * d
        BY <1>1
    <2> QED BY <2>1, <2>2, <1>2
<1>4. /\ (i - e) * from = loss * i + i * d - e * from
      /\ loss * i \in Nat
    <2>1. (i - e) * from = i * from - e * from
        OBVIOUS
    <2>2. i * from = i * loss + i * d
        BY <1>1
    <2> QED BY <2>1, <2>2, <1>2
<1>5. top * d <= e * from
    BY <1>2, <1>3
<1> QED BY <1>2, <1>4, <1>5

\* The worst drawdown once the equity e of one more bar is counted, under the peak high.
Deepest(equity, first, last, e, high, loss, from) ==
    IF (high - e) * from > loss * high
    THEN Worst(equity, first, last + 1, high, high - e, high)
    ELSE Worst(equity, first, last + 1, high, loss, from)

\* One more bar: the peak and the drawdown the fold keeps are again the worst of the equities.
LEMMA WorstGrows ==
    ASSUME NEW first \in Nat, NEW last \in Nat, first <= last, NEW equity, NEW more,
           \A i \in first..last : more[i] = equity[i],
           NEW e \in Nat, more[last + 1] = e,
           NEW top, NEW loss, NEW from, Worst(equity, first, last, top, loss, from),
           NEW high, high = IF e > top THEN e ELSE top
    PROVE  Deepest(more, first, last, e, high, loss, from)
<1> SUFFICES IF (high - e) * from > loss * high
             THEN Worst(more, first, last + 1, high, high - e, high)
             ELSE Worst(more, first, last + 1, high, loss, from)
    BY DEF Deepest
<1>1. /\ top \in Nat \ {0} /\ loss \in Nat /\ from \in Nat \ {0} /\ loss <= from
      /\ high \in Nat \ {0} /\ high >= top /\ high >= e /\ high - e \in Nat /\ high - e <= high
    BY DEF Worst
<1>2. \A i \in first..(last + 1) : i \in first..last \/ i = last + 1
    OBVIOUS
<1>3. /\ \A i \in first..last : i \in first..(last + 1) /\ more[i] = equity[i]
      /\ last + 1 \in first..(last + 1) /\ more[last + 1] = e
    OBVIOUS
<1>4. \A i \in first..last : more[i] \in Nat /\ more[i] <= top
    BY <1>3 DEF Worst
<1>5. \A i \in first..(last + 1) : more[i] \in Nat /\ more[i] <= high
    BY <1>1, <1>2, <1>3, <1>4
<1>6. \E i \in first..(last + 1) : more[i] = high
    <2>1. PICK i \in first..last : equity[i] = top
        BY DEF Worst
    <2> QED BY <1>3, <2>1
<1>7. \A i, j \in first..last : i <= j => (more[i] - more[j]) * from <= loss * more[i]
    BY <1>3 DEF Worst
<1>8. \A i, j \in first..(last + 1) : i <= j =>
         \/ i \in first..last /\ j \in first..last
         \/ j = last + 1
    OBVIOUS
<1>9. CASE (high - e) * from > loss * high
    <2>1. ASSUME NEW i \in first..(last + 1), NEW j \in first..(last + 1), i <= j
          PROVE  (more[i] - more[j]) * high <= (high - e) * more[i]
        <3>1. PICK x \in Nat, y \in Nat : x = more[i] /\ y = more[j] /\ x <= high
            BY <1>5
        <3>2. CASE i \in first..last /\ j \in first..last
            <4>1. (x - y) * from <= loss * x
                BY <1>7, <2>1, <3>1, <3>2
            <4>2. x - y \in Int
                OBVIOUS
            <4>3. (x - y) * high <= (high - e) * x
                BY <1>1, <1>9, <4>1, <4>2, WorseThan
            <4> QED BY <3>1, <4>3
        <3>3. CASE j = last + 1
            <4>1. y = e
                BY <1>3, <3>1, <3>3
            <4>2. x * e \in Nat /\ high * e \in Nat /\ x * e <= high * e
                BY <1>1, <3>1, Products
            <4>3. /\ (x - e) * high = x * high - high * e
                  /\ (high - e) * x = x * high - x * e
                  /\ x * high \in Nat
                BY <1>1
            <4>4. (x - y) * high <= (high - e) * x
                BY <4>1, <4>2, <4>3
            <4> QED BY <3>1, <4>4
        <3> QED BY <1>8, <2>1, <3>2, <3>3
    <2>2. PICK i \in first..(last + 1) : more[i] = high
        BY <1>6
    <2>3. /\ i \in first..(last + 1) /\ last + 1 \in first..(last + 1) /\ i <= last + 1
          /\ (more[i] - more[last + 1]) * high = (high - e) * more[i]
        BY <1>3, <2>2
    <2>4. \E j, k \in first..(last + 1) :
             j <= k /\ (more[j] - more[k]) * high = (high - e) * more[j]
        BY <2>3
    <2> QED BY <1>1, <1>5, <1>6, <1>9, <2>1, <2>4 DEF Worst
<1>10. CASE ~((high - e) * from > loss * high)
    <2>1. (high - e) * from <= loss * high
        BY <1>1, <1>10
    <2>2. ASSUME NEW i \in first..(last + 1), NEW j \in first..(last + 1), i <= j
          PROVE  (more[i] - more[j]) * from <= loss * more[i]
        <3>1. CASE i \in first..last /\ j \in first..last
            BY <1>7, <2>2, <3>1
        <3>2. CASE j = last + 1
            <4>1. PICK x \in Nat : x = more[i] /\ x <= high
                BY <1>5
            <4>2. (x - e) * from <= loss * x
                BY <1>1, <2>1, <4>1, LessWorse
            <4> QED BY <1>3, <3>2, <4>1, <4>2
        <3> QED BY <1>8, <2>2, <3>1, <3>2
    <2>3. PICK i \in first..last, j \in first..last :
             i <= j /\ (equity[i] - equity[j]) * from = loss * equity[i]
        BY DEF Worst
    <2>4. /\ i \in first..(last + 1) /\ j \in first..(last + 1) /\ i <= j
          /\ (more[i] - more[j]) * from = loss * more[i]
        BY <1>3, <2>3
    <2>5. \E k, l \in first..(last + 1) :
             k <= l /\ (more[k] - more[l]) * from = loss * more[k]
        BY <2>4
    <2> QED BY <1>1, <1>5, <1>6, <1>10, <2>2, <2>5 DEF Worst
<1> QED BY <1>9, <1>10

-----------------------------------------------------------------------------
(* The equity after each bar, as the fills tell it.                          *)

Past(fills, i) == {f \in DOMAIN fills : fills[f].at <= i}

CashAt(fills, i) == Total(CashOf(fills), Past(fills, i))

SharesAt(fills, i) == Total(SharesOf(fills), Past(fills, i))

EquityOf(fills, bars, i) ==
    OpeningCash + CashAt(fills, i) + SharesAt(fills, i) * bars[i].close

LEMMA EquityAfterIs ==
    ASSUME NEW i
    PROVE  EquityAfter(i) = EquityOf(trace, series, i)
BY Zenon DEF EquityAfter, EquityOf, CashAt, SharesAt, Past

LEMMA FillAmounts ==
    ASSUME NEW fill \in Fill
    PROVE  CashDelta(fill) \in Int /\ Gain(fill) \in Int
<1>1. fill.quantity \in Nat /\ fill.price \in Nat /\ Fee \in Nat /\ Tax \in Nat
    BY FillTypes, Bounds
<1>2. fill.quantity * fill.price \in Nat /\ fill.quantity * Tax \in Nat
    BY <1>1
<1> QED BY <1>1, <1>2 DEF CashDelta, Gain

\* The amounts of the fills, by their positions.
LEMMA FillsAmounts ==
    ASSUME NEW fills \in Seq(Fill)
    PROVE  /\ DOMAIN fills = 1..Len(fills) /\ Len(fills) \in Nat /\ IsFiniteSet(DOMAIN fills)
           /\ \A f \in 1..Len(fills) : /\ CashOf(fills)[f] = CashDelta(fills[f])
                                       /\ SharesOf(fills)[f] = Gain(fills[f])
                                       /\ CashOf(fills)[f] \in Int /\ SharesOf(fills)[f] \in Int
<1>1. DOMAIN fills = 1..Len(fills) /\ Len(fills) \in Nat /\ \A f \in 1..Len(fills) : fills[f] \in Fill
    OBVIOUS
<1>2. IsFiniteSet(1..Len(fills))
    BY <1>1, FS_Interval
<1>3. \A f \in 1..Len(fills) : /\ CashOf(fills)[f] = CashDelta(fills[f])
                               /\ SharesOf(fills)[f] = Gain(fills[f])
    BY <1>1 DEF CashOf, SharesOf, Gain
<1>4. \A f \in 1..Len(fills) : CashDelta(fills[f]) \in Int /\ Gain(fills[f]) \in Int
    BY <1>1, FillAmounts
<1> QED BY <1>1, <1>2, <1>3, <1>4

LEMMA PastTotals ==
    ASSUME NEW fills \in Seq(Fill), NEW i
    PROVE  /\ CashAt(fills, i) \in Int /\ SharesAt(fills, i) \in Int
           /\ IsFiniteSet(Past(fills, i)) /\ Past(fills, i) \subseteq 1..Len(fills)
<1>1. Past(fills, i) \subseteq 1..Len(fills)
    BY DEF Past
<1>2. IsFiniteSet(Past(fills, i))
    BY <1>1, FillsAmounts, FS_Subset
<1>3. PICK past, cashes, shares : /\ past = Past(fills, i) /\ cashes = CashOf(fills)
                                  /\ shares = SharesOf(fills)
    OBVIOUS
<1>4. \A f \in past : cashes[f] \in Int /\ shares[f] \in Int
    BY <1>1, <1>3, FillsAmounts
<1>5. Total(cashes, past) \in Int /\ Total(shares, past) \in Int
    BY <1>2, <1>3, <1>4, TotalLaws
<1> QED BY <1>1, <1>2, <1>3, <1>5 DEF CashAt, SharesAt

\* A later fill changes nothing of what was.
LEMMA PastStays ==
    ASSUME NEW fills \in Seq(Fill), NEW fill \in Fill, NEW i \in Nat, i < fill.at
    PROVE  /\ CashAt(Append(fills, fill), i) = CashAt(fills, i)
           /\ SharesAt(Append(fills, fill), i) = SharesAt(fills, i)
<1>1. PICK more, n : more = Append(fills, fill) /\ n = Len(fills) + 1
    OBVIOUS
<1>2. /\ more \in Seq(Fill) /\ Len(more) = n /\ Len(fills) \in Nat
      /\ \A f \in 1..Len(fills) : more[f] = fills[f]
      /\ more[n] = fill
      /\ DOMAIN fills = 1..Len(fills) /\ DOMAIN more = 1..n
    <2>1. /\ more \in Seq(Fill) /\ Len(more) = n /\ Len(fills) \in Nat
          /\ \A f \in 1..Len(fills) : more[f] = fills[f]
          /\ more[n] = fill
        BY <1>1, Appended
    <2> QED BY <2>1
<1>3. ~(fill.at <= i)
    BY FillTypes
<1>4. \A f : f \in Past(more, i) <=> f \in Past(fills, i)
    <2>1. \A f \in 1..n : f \in 1..Len(fills) \/ f = n
        BY <1>1, <1>2
    <2>2. \A f \in 1..Len(fills) : f \in 1..n
        BY <1>1, <1>2
    <2> QED BY <1>2, <1>3, <2>1, <2>2 DEF Past
<1>5. Past(more, i) = Past(fills, i)
    BY <1>4
<1>6. PICK past, cashes, shares, newCashes, newShares :
         /\ past = Past(fills, i) /\ cashes = CashOf(fills) /\ shares = SharesOf(fills)
         /\ newCashes = CashOf(more) /\ newShares = SharesOf(more)
    OBVIOUS
<1>7. /\ IsFiniteSet(past)
      /\ \A f \in past : /\ cashes[f] \in Int /\ shares[f] \in Int
                         /\ newCashes[f] = cashes[f] /\ newShares[f] = shares[f]
    <2>1. \A f \in past : f \in 1..Len(fills) /\ f \in 1..Len(more) /\ more[f] = fills[f]
        <3>1. past \subseteq 1..Len(fills)
            BY <1>6, PastTotals
        <3> QED BY <1>1, <1>2, <3>1
    <2>2. SUFFICES ASSUME NEW f \in past
          PROVE  /\ cashes[f] \in Int /\ shares[f] \in Int
                 /\ newCashes[f] = cashes[f] /\ newShares[f] = shares[f]
        BY <1>6, PastTotals
    <2>3. f \in 1..Len(fills) /\ f \in 1..Len(more) /\ more[f] = fills[f]
        BY <2>1
    <2>4. /\ cashes[f] = CashDelta(fills[f]) /\ shares[f] = Gain(fills[f])
          /\ cashes[f] \in Int /\ shares[f] \in Int
        BY <1>6, <2>3, FillsAmounts
    <2>5. more \in Seq(Fill)
        BY <1>2
    <2>6. newCashes[f] = CashDelta(more[f]) /\ newShares[f] = Gain(more[f])
        BY <1>6, <2>3, <2>5, FillsAmounts
    <2> QED BY <2>3, <2>4, <2>6
<1>8. Total(newCashes, past) = Total(cashes, past) /\ Total(newShares, past) = Total(shares, past)
    BY ONLY <1>7, SameTotal
<1> QED BY <1>1, <1>5, <1>6, <1>8 DEF CashAt, SharesAt

\* A fill that is not later than i adds its amounts.
LEMMA PastAdds ==
    ASSUME NEW fills \in Seq(Fill), NEW fill \in Fill, NEW i \in Nat, fill.at <= i
    PROVE  /\ CashAt(Append(fills, fill), i) = CashAt(fills, i) + CashDelta(fill)
           /\ SharesAt(Append(fills, fill), i) = SharesAt(fills, i) + Gain(fill)
<1>1. PICK more, n : more = Append(fills, fill) /\ n = Len(fills) + 1
    OBVIOUS
<1>2. /\ more \in Seq(Fill) /\ Len(more) = n /\ Len(fills) \in Nat
      /\ \A f \in 1..Len(fills) : more[f] = fills[f]
      /\ more[n] = fill
      /\ DOMAIN fills = 1..Len(fills) /\ DOMAIN more = 1..n
      /\ n \in 1..n /\ n \notin 1..Len(fills)
    <2>1. /\ more \in Seq(Fill) /\ Len(more) = n /\ Len(fills) \in Nat
          /\ \A f \in 1..Len(fills) : more[f] = fills[f]
          /\ more[n] = fill
        BY <1>1, Appended
    <2> QED BY <1>1, <2>1
<1>3. \A f : f \in Past(more, i) <=> f \in Past(fills, i) \/ f = n
    <2>1. \A f \in 1..n : f \in 1..Len(fills) \/ f = n
        BY <1>1, <1>2
    <2>2. \A f \in 1..Len(fills) : f \in 1..n
        BY <1>1, <1>2
    <2> QED BY <1>2, <2>1, <2>2 DEF Past
<1>4. n \in Past(more, i) /\ Past(more, i) \ {n} = Past(fills, i)
    <2>1. n \notin Past(fills, i)
        BY <1>2 DEF Past
    <2> QED BY <1>3, <2>1
<1>5. PICK past, grown, cashes, shares, newCashes, newShares :
         /\ past = Past(fills, i) /\ grown = Past(more, i)
         /\ cashes = CashOf(fills) /\ shares = SharesOf(fills)
         /\ newCashes = CashOf(more) /\ newShares = SharesOf(more)
    OBVIOUS
<1>6. /\ IsFiniteSet(past) /\ IsFiniteSet(grown) /\ n \in grown /\ grown \ {n} = past
      /\ \A f \in past : /\ cashes[f] \in Int /\ shares[f] \in Int
                         /\ newCashes[f] = cashes[f] /\ newShares[f] = shares[f]
      /\ \A f \in grown : newCashes[f] \in Int /\ newShares[f] \in Int
      /\ newCashes[n] = CashDelta(fill) /\ newShares[n] = Gain(fill)
    <2>1. \A f \in past : f \in 1..Len(fills) /\ f \in 1..Len(more) /\ more[f] = fills[f]
        <3>1. past \subseteq 1..Len(fills)
            BY <1>5, PastTotals
        <3> QED BY <1>1, <1>2, <3>1
    <2>2. grown \subseteq 1..Len(more) /\ IsFiniteSet(grown) /\ IsFiniteSet(past)
        BY <1>2, <1>5, PastTotals
    <2>3. \A f \in past : /\ cashes[f] \in Int /\ shares[f] \in Int
                          /\ newCashes[f] = cashes[f] /\ newShares[f] = shares[f]
        <3>1. SUFFICES ASSUME NEW f \in past
              PROVE  /\ cashes[f] \in Int /\ shares[f] \in Int
                     /\ newCashes[f] = cashes[f] /\ newShares[f] = shares[f]
            OBVIOUS
        <3>2. f \in 1..Len(fills) /\ f \in 1..Len(more) /\ more[f] = fills[f]
            BY <2>1
        <3>3. /\ cashes[f] = CashDelta(fills[f]) /\ shares[f] = Gain(fills[f])
              /\ cashes[f] \in Int /\ shares[f] \in Int
            BY <1>5, <3>2, FillsAmounts
        <3>4. more \in Seq(Fill)
            BY <1>2
        <3>5. newCashes[f] = CashDelta(more[f]) /\ newShares[f] = Gain(more[f])
            BY <1>5, <3>2, <3>4, FillsAmounts
        <3> QED BY <3>2, <3>3, <3>5
    <2>4. /\ \A f \in grown : newCashes[f] \in Int /\ newShares[f] \in Int
          /\ newCashes[n] = CashDelta(fill) /\ newShares[n] = Gain(fill)
        BY <1>2, <1>5, <2>2, FillsAmounts
    <2> QED BY <1>4, <1>5, <2>2, <2>3, <2>4
<1>7. /\ Total(newCashes, grown) = newCashes[n] + Total(newCashes, past)
      /\ Total(newShares, grown) = newShares[n] + Total(newShares, past)
    <2>1. \A x \in grown : /\ Total(newCashes, grown) = newCashes[x] + Total(newCashes, grown \ {x})
                         /\ Total(newShares, grown) = newShares[x] + Total(newShares, grown \ {x})
        BY ONLY <1>6, TotalLaws
    <2> QED BY <1>6, <2>1
<1>8. Total(newCashes, past) = Total(cashes, past) /\ Total(newShares, past) = Total(shares, past)
    BY ONLY <1>6, SameTotal
<1>9. /\ CashAt(fills, i) = Total(cashes, past) /\ SharesAt(fills, i) = Total(shares, past)
      /\ CashAt(more, i) = Total(newCashes, grown) /\ SharesAt(more, i) = Total(newShares, grown)
    BY <1>5 DEF CashAt, SharesAt
<1>10. CashAt(fills, i) \in Int /\ SharesAt(fills, i) \in Int
       /\ CashDelta(fill) \in Int /\ Gain(fill) \in Int
    BY PastTotals, FillAmounts
<1>11. /\ CashAt(more, i) = CashDelta(fill) + CashAt(fills, i)
       /\ SharesAt(more, i) = Gain(fill) + SharesAt(fills, i)
    BY ONLY <1>6, <1>7, <1>8, <1>9
<1>12. \A j, k \in Int : j + k = k + j
    OBVIOUS
<1>13. /\ CashAt(more, i) = CashAt(fills, i) + CashDelta(fill)
       /\ SharesAt(more, i) = SharesAt(fills, i) + Gain(fill)
    BY ONLY <1>10, <1>11, <1>12
<1> QED BY <1>1, <1>13

\* Where nothing is filled after bar i the account stays what it was.
LEMMA PastSame ==
    ASSUME NEW fills \in Seq(Fill), NEW i \in Nat, NEW k \in Nat, i <= k,
           \A f \in 1..Len(fills) : fills[f].at <= i
    PROVE  CashAt(fills, k) = CashAt(fills, i) /\ SharesAt(fills, k) = SharesAt(fills, i)
<1>1. DOMAIN fills = 1..Len(fills) /\ \A f \in 1..Len(fills) : fills[f] \in Fill
    OBVIOUS
<1>2. \A f \in 1..Len(fills) : fills[f].at \in Nat
    BY <1>1, FillTypes
<1>3. \A f : f \in Past(fills, k) <=> f \in Past(fills, i)
    BY <1>1, <1>2 DEF Past
<1>4. Past(fills, k) = Past(fills, i)
    BY <1>3
<1> QED BY <1>4 DEF CashAt, SharesAt

\* The equity at each moment of a fold.
Equities(fills, bars) ==
    [i \in Warmup..Len(bars) |-> IF i = Warmup THEN OpeningCash ELSE EquityOf(fills, bars, i)]

Drawn ==
    /\ cash = OpeningCash + CashAt(trace, Len(series))
    /\ position = SharesAt(trace, Len(series))
    /\ drawdown.loss <= drawdown.peak
    /\ Len(series) < Warmup =>
          ~failed /\ peak = OpeningCash /\ drawdown = [loss |-> 0, peak |-> OpeningCash]
    /\ Len(series) >= Warmup /\ ~failed =>
          Worst(Equities(trace, series), Warmup, Len(series), peak, drawdown.loss, drawdown.peak)

LEMMA WorstAtFirst ==
    ASSUME NEW fills, NEW bars, Len(bars) = Warmup
    PROVE  Worst(Equities(fills, bars), Warmup, Warmup, OpeningCash, 0, OpeningCash)
<1>1. PICK first, opening, equity : /\ first = Warmup /\ opening = OpeningCash
                                    /\ equity = Equities(fills, bars)
    OBVIOUS
<1>2. first \in Nat /\ opening \in Nat \ {0} /\ first..first = {first}
    BY <1>1, Bounds
<1>3. equity[first] = opening
    BY <1>1, <1>2 DEF Equities
<1>4. /\ \A i \in first..first : equity[i] = opening
      /\ first \in first..first
      /\ (opening - opening) * opening = 0 /\ 0 * opening = 0
    BY <1>2, <1>3
<1>5. Worst(equity, first, first, opening, 0, opening)
    BY ONLY <1>2, <1>4 DEF Worst
<1> QED BY <1>1, <1>5

\* The valuation at the end of a bar.
LEMMA CloseDraws ==
    ASSUME FoldTyped, Drawn, ~failed, Len(series) \in Warmup..(Length - 1), NEW bar \in BarKind,
           NEW fills \in Seq(Fill),
           \A i \in 0..Len(series) : CashAt(fills, i) = CashAt(trace, i)
                                     /\ SharesAt(fills, i) = SharesAt(trace, i),
           NEW money \in Nat, NEW held \in Nat,
           money = OpeningCash + CashAt(fills, Len(series) + 1),
           held = SharesAt(fills, Len(series) + 1),
           NEW open, CloseBar(bar, Append(series, bar), open, money, held)
    PROVE  /\ Worst(Equities(fills, Append(series, bar)), Warmup, Len(series) + 1,
                    peak', drawdown'.loss, drawdown'.peak)
           /\ drawdown'.loss <= drawdown'.peak
<1>1. PICK first, last, bars, equity, more, e, top, loss, from, high :
         /\ first = Warmup /\ last = Len(series) /\ bars = Append(series, bar)
         /\ equity = Equities(trace, series) /\ more = Equities(fills, bars)
         /\ e = money + held * bar.close
         /\ top = peak /\ loss = drawdown.loss /\ from = drawdown.peak
         /\ high = IF e > top THEN e ELSE top
    OBVIOUS
<1>2. /\ first \in Nat /\ last \in Nat /\ first <= last
      /\ series \in Seq(BarKind) /\ bars \in Seq(BarKind) /\ Len(bars) = last + 1
      /\ \A i \in 1..last : bars[i] = series[i]
      /\ bars[last + 1] = bar
    <2>1. Warmup \in Nat /\ series \in Seq(BarKind) /\ Len(series) \in Nat
        BY Bounds DEF FoldTyped
    <2>2. /\ bars \in Seq(BarKind) /\ Len(bars) = Len(series) + 1
          /\ \A i \in 1..Len(series) : bars[i] = series[i]
          /\ bars[Len(series) + 1] = bar
        BY <1>1, <2>1, Appended
    <2> QED BY <1>1, <2>1, <2>2
<1>3. e \in Nat
    <2>1. bar.close \in Nat
        BY FoldAssumption
    <2>2. held * bar.close \in Nat
        BY <2>1
    <2> QED BY <1>1, <2>2
<1>4. \A i \in first..last : more[i] = equity[i]
    <2>1. SUFFICES ASSUME NEW i \in first..last PROVE more[i] = equity[i]
        OBVIOUS
    <2>2. i \in first..Len(bars) /\ i \in 0..last
        BY <1>2
    <2>3. /\ more[i] = IF i = Warmup THEN OpeningCash ELSE EquityOf(fills, bars, i)
          /\ equity[i] = IF i = Warmup THEN OpeningCash ELSE EquityOf(trace, series, i)
        BY <1>1, <2>2 DEF Equities
    <2>4. i # Warmup => EquityOf(fills, bars, i) = EquityOf(trace, series, i)
        <3>1. CashAt(fills, i) = CashAt(trace, i) /\ SharesAt(fills, i) = SharesAt(trace, i)
            BY <1>1, <2>2
        <3>2. i # Warmup => bars[i] = series[i]
            BY <1>1, <1>2
        <3> QED BY <3>1, <3>2 DEF EquityOf
    <2> QED BY <2>3, <2>4
<1>5. more[last + 1] = e
    <2>1. last + 1 \in first..Len(bars) /\ last + 1 # first
        BY <1>2
    <2>2. more[last + 1] = EquityOf(fills, bars, last + 1)
        BY <1>1, <2>1 DEF Equities
    <2>3. EquityOf(fills, bars, last + 1) = money + held * bar.close
        BY <1>1, <1>2 DEF EquityOf
    <2> QED BY <1>1, <2>2, <2>3
<1>6. Worst(equity, first, last, top, loss, from)
    BY <1>1, <1>2 DEF Drawn
<1>7. IF (high - e) * from > loss * high
      THEN Worst(more, first, last + 1, high, high - e, high)
      ELSE Worst(more, first, last + 1, high, loss, from)
    <2>1. high = IF e > top THEN e ELSE top
        BY <1>1
    <2>2. first \in Nat /\ last \in Nat /\ first <= last
        BY <1>2
    <2>3. Deepest(more, first, last, e, high, loss, from)
        BY ONLY <2>1, <2>2, <1>3, <1>4, <1>5, <1>6, WorstGrows
    <2> QED BY ONLY <2>3 DEF Deepest
<1>8. /\ peak' = high
      /\ drawdown' = IF (high - e) * from > loss * high
                     THEN [loss |-> high - e, peak |-> high] ELSE drawdown
    BY <1>1, Zenon DEF CloseBar, Peak
<1>9. Worst(more, first, last + 1, peak', drawdown'.loss, drawdown'.peak)
    <2>1. CASE (high - e) * from > loss * high
        <3>1. drawdown'.loss = high - e /\ drawdown'.peak = high
            BY <1>8, <2>1
        <3> QED BY <1>7, <1>8, <2>1, <3>1
    <2>2. CASE ~((high - e) * from > loss * high)
        <3>1. drawdown'.loss = loss /\ drawdown'.peak = from
            BY <1>1, <1>8, <2>2
        <3> QED BY <1>7, <1>8, <2>2, <3>1
    <2> QED BY <2>1, <2>2
<1>10. drawdown'.loss <= drawdown'.peak
    BY <1>9 DEF Worst
<1> QED BY <1>1, <1>9, <1>10

LEMMA InitDrawn ==
    ASSUME FoldInit
    PROVE  Drawn
<1>1. /\ series = <<>> /\ trace = <<>> /\ cash = OpeningCash /\ position = 0
      /\ peak = OpeningCash /\ drawdown = [loss |-> 0, peak |-> OpeningCash] /\ failed = FALSE
    BY DEF FoldInit
<1>2. Len(series) = 0 /\ Warmup \in Nat /\ OpeningCash \in Nat \ {0}
    BY <1>1, Bounds
<1>3. CashAt(trace, Len(series)) = 0 /\ SharesAt(trace, Len(series)) = 0
    <2>1. Past(trace, Len(series)) = {}
        BY <1>1 DEF Past
    <2>2. IsFiniteSet({})
        BY FS_EmptySet
    <2>3. PICK cashes, shares : cashes = CashOf(trace) /\ shares = SharesOf(trace)
        OBVIOUS
    <2>4. Total(cashes, {}) = 0 /\ Total(shares, {}) = 0
        BY <2>2, TotalLaws
    <2> QED BY <2>1, <2>3, <2>4 DEF CashAt, SharesAt
<1>4. cash = OpeningCash + CashAt(trace, Len(series)) /\ position = SharesAt(trace, Len(series))
    BY <1>1, <1>2, <1>3
<1>5. drawdown.loss = 0 /\ drawdown.peak = OpeningCash /\ drawdown.loss <= drawdown.peak
    BY <1>1, <1>2
<1>6. Len(series) >= Warmup =>
         Worst(Equities(trace, series), Warmup, Len(series), peak, drawdown.loss, drawdown.peak)
    <2>1. SUFFICES ASSUME Len(series) = Warmup
          PROVE Worst(Equities(trace, series), Warmup, Warmup, OpeningCash, 0, OpeningCash)
        BY <1>1, <1>2, <1>5
    <2> QED BY <2>1, WorstAtFirst
<1> QED BY <1>1, <1>4, <1>5, <1>6 DEF Drawn

LEMMA StepDrawn ==
    ASSUME FoldTyped, OrderFits, Drawn, NEW bar \in BarKind,
           Quiet(bar) \/ Plays(bar) \/ \E fill \in Fill : PlaysFill(bar, fill)
    PROVE  Drawn'
<1>1. /\ series \in Seq(BarKind) /\ Len(series) \in Nat /\ Warmup \in Nat
      /\ Len(Append(series, bar)) = Len(series) + 1
      /\ series' = Append(series, bar) /\ Len(series') = Len(series) + 1
    BY Bounds DEF FoldTyped, Quiet, Plays, PlaysFill
<1>2. /\ trace \in Seq(Fill) /\ \A f \in 1..Len(trace) : trace[f].at <= Len(series)
    BY DEF FoldTyped
<1>3. /\ CashAt(trace, Len(series) + 1) = CashAt(trace, Len(series))
      /\ SharesAt(trace, Len(series) + 1) = SharesAt(trace, Len(series))
    <2>1. Len(series) + 1 \in Nat /\ Len(series) <= Len(series) + 1
        BY <1>1
    <2> QED BY <1>1, <1>2, <2>1, PastSame
<1>4. ASSUME Quiet(bar) PROVE Drawn'
    <2>1. /\ UNCHANGED <<cash, position, peak, drawdown, trace>>
          /\ \/ failed' = failed /\ Len(series) < Warmup
             \/ failed' = TRUE /\ Len(series) >= Warmup
        BY <1>4 DEF Quiet
    <2>2. cash' = OpeningCash + CashAt(trace', Len(series')) /\ position' = SharesAt(trace', Len(series'))
        BY <1>1, <1>3, <2>1 DEF Drawn
    <2>3. drawdown'.loss <= drawdown'.peak
        BY <2>1 DEF Drawn
    <2>4. Len(series) < Warmup =>
             ~failed /\ peak = OpeningCash /\ drawdown = [loss |-> 0, peak |-> OpeningCash]
        BY DEF Drawn
    <2>5. Len(series') < Warmup =>
             ~failed' /\ peak' = OpeningCash /\ drawdown' = [loss |-> 0, peak |-> OpeningCash]
        <3>1. Len(series') < Warmup => Len(series) < Warmup /\ ~(Len(series) >= Warmup)
            BY <1>1
        <3> QED BY <2>1, <2>4, <3>1
    <2>6. Len(series') >= Warmup /\ ~failed' =>
             Worst(Equities(trace', series'), Warmup, Len(series'), peak', drawdown'.loss, drawdown'.peak)
        <3>1. SUFFICES ASSUME Len(series') >= Warmup, ~failed'
              PROVE Worst(Equities(trace', series'), Warmup, Len(series'), peak',
                          drawdown'.loss, drawdown'.peak)
            OBVIOUS
        <3>2. Len(series) < Warmup
            BY <2>1, <3>1
        <3>3. Len(series') = Warmup
            BY <1>1, <3>1, <3>2
        <3>4. peak' = OpeningCash /\ drawdown'.loss = 0 /\ drawdown'.peak = OpeningCash
            BY <2>1, <2>4, <3>2
        <3>5. PICK fills, bars : fills = trace' /\ bars = series'
            OBVIOUS
        <3>6. Worst(Equities(fills, bars), Warmup, Warmup, OpeningCash, 0, OpeningCash)
            BY <3>3, <3>5, WorstAtFirst
        <3> QED BY <3>3, <3>4, <3>5, <3>6
    <2> QED BY <2>2, <2>3, <2>5, <2>6 DEF Drawn
<1>5. \A i \in 0..Len(series) : i \in Nat /\ i < Len(series) + 1
    BY <1>1
<1>6. ASSUME Plays(bar) PROVE Drawn'
    <2>1. /\ UNCHANGED <<cash, position, trace, failed>> /\ ~failed
          /\ Len(series) \in Warmup..(Length - 1)
          /\ CloseBar(bar, Append(series, bar), pending, cash, position)
        BY <1>6 DEF Plays
    <2>2. cash \in Nat /\ position \in Nat
        BY Bounds DEF FoldTyped
    <2>3. /\ cash = OpeningCash + CashAt(trace, Len(series) + 1)
          /\ position = SharesAt(trace, Len(series) + 1)
        BY <1>3 DEF Drawn
    <2>4. PICK fills, money, held, open :
             fills = trace /\ money = cash /\ held = position /\ open = pending
        OBVIOUS
    <2>5. /\ Worst(Equities(fills, Append(series, bar)), Warmup, Len(series) + 1,
                   peak', drawdown'.loss, drawdown'.peak)
          /\ drawdown'.loss <= drawdown'.peak
        BY <1>2, <2>1, <2>2, <2>3, <2>4, CloseDraws
    <2>6. /\ cash' = OpeningCash + CashAt(trace', Len(series'))
          /\ position' = SharesAt(trace', Len(series'))
        BY <1>1, <2>1, <2>3
    <2>7. ~(Len(series') < Warmup)
        BY <1>1, <2>1
    <2> QED BY <1>1, <2>1, <2>4, <2>5, <2>6, <2>7 DEF Drawn
<1>7. ASSUME NEW fill \in Fill, PlaysFill(bar, fill) PROVE Drawn'
    <2>1. PICK fills, money, held, open :
             /\ fills = Append(trace, fill) /\ money = cash + CashDelta(fill)
             /\ held = position + Gain(fill) /\ open = Rest(pending, fill.quantity)
        OBVIOUS
    <2>2. /\ ~failed /\ failed' = failed /\ Len(series) \in Warmup..(Length - 1)
          /\ CloseBar(bar, Append(series, bar), open, money, held)
          /\ cash' = money /\ position' = held /\ trace' = fills
          /\ money \in Nat /\ held \in 0..Quantity /\ fill.at = Len(series) + 1
        BY <1>7, <2>1 DEF PlaysFill, Fills
    <2>3. held \in Nat /\ fills \in Seq(Fill)
        BY <1>2, <2>1, <2>2, Bounds, Appended
    <2>4. \A i \in 0..Len(series) : CashAt(fills, i) = CashAt(trace, i)
                                    /\ SharesAt(fills, i) = SharesAt(trace, i)
        BY <1>2, <1>5, <2>1, <2>2, PastStays
    <2>5. /\ CashAt(fills, Len(series) + 1) = CashAt(trace, Len(series) + 1) + CashDelta(fill)
          /\ SharesAt(fills, Len(series) + 1) = SharesAt(trace, Len(series) + 1) + Gain(fill)
        <3>1. PICK i \in Nat : i = Len(series) + 1 /\ fill.at <= i
            BY <1>1, <2>2
        <3> QED BY <1>2, <2>1, <3>1, PastAdds
    <2>6. /\ money = OpeningCash + CashAt(fills, Len(series) + 1)
          /\ held = SharesAt(fills, Len(series) + 1)
        <3>1. CashAt(trace, Len(series)) \in Int /\ SharesAt(trace, Len(series)) \in Int
              /\ CashDelta(fill) \in Int /\ OpeningCash \in Int
            BY <1>2, PastTotals, FillAmounts, Bounds
        <3>2. cash = OpeningCash + CashAt(trace, Len(series)) /\ position = SharesAt(trace, Len(series))
            BY DEF Drawn
        <3> QED BY <1>3, <2>1, <2>5, <3>1, <3>2
    <2>7. /\ Worst(Equities(fills, Append(series, bar)), Warmup, Len(series) + 1,
                   peak', drawdown'.loss, drawdown'.peak)
          /\ drawdown'.loss <= drawdown'.peak
        BY <2>2, <2>3, <2>4, <2>6, CloseDraws
    <2>8. ~(Len(series') < Warmup)
        BY <1>1, <2>2
    <2> QED BY <1>1, <2>2, <2>6, <2>7, <2>8 DEF Drawn
<1> QED BY <1>4, <1>6, <1>7

LEMMA DrawnWorst ==
    ASSUME FoldTyped, Drawn
    PROVE  DrawdownIsWorst
<1>1. SUFFICES ASSUME ~failed, Len(series) > Warmup
      PROVE  LET moments == Warmup..Len(series)
                 equity(i) == IF i = Warmup THEN OpeningCash ELSE EquityAfter(i)
                 above(i, j) == (equity(i) - equity(j)) * drawdown.peak - drawdown.loss * equity(i)
             IN  /\ \A i, j \in moments : i <= j => above(i, j) <= 0
                 /\ \E i, j \in moments : i <= j /\ above(i, j) = 0
    BY Zenon DEF DrawdownIsWorst
<1>2. PICK moments, equity, loss, from :
         /\ moments = Warmup..Len(series) /\ equity = Equities(trace, series)
         /\ loss = drawdown.loss /\ from = drawdown.peak
    OBVIOUS
<1>3. Worst(equity, Warmup, Len(series), peak, loss, from)
    <2>1. Len(series) >= Warmup
        BY <1>1, Bounds DEF FoldTyped
    <2> QED BY <1>1, <1>2, <2>1 DEF Drawn
<1>4. ASSUME NEW i \in moments
      PROVE  (IF i = Warmup THEN OpeningCash ELSE EquityAfter(i)) = equity[i]
    <2>1. EquityAfter(i) = EquityOf(trace, series, i)
        BY EquityAfterIs
    <2> QED BY <1>2, <2>1 DEF Equities
<1>5. /\ loss \in Nat /\ from \in Nat
      /\ \A i \in moments : equity[i] \in Nat
      /\ \A i, j \in moments : i <= j => (equity[i] - equity[j]) * from <= loss * equity[i]
      /\ \E i, j \in moments : i <= j /\ (equity[i] - equity[j]) * from = loss * equity[i]
    BY <1>2, <1>3 DEF Worst
<1>6. ASSUME NEW i \in moments, NEW j \in moments
      PROVE  /\ (equity[i] - equity[j]) * from \in Int /\ loss * equity[i] \in Int
    <2>1. PICK x \in Nat, y \in Nat : x = equity[i] /\ y = equity[j]
        BY <1>5
    <2>2. (x - y) * from \in Int /\ loss * x \in Int
        BY <1>5
    <2> QED BY <2>1, <2>2
<1>7. /\ \A i, j \in moments : i <= j => (equity[i] - equity[j]) * from - loss * equity[i] <= 0
      /\ \E i, j \in moments : i <= j /\ (equity[i] - equity[j]) * from - loss * equity[i] = 0
    BY <1>5, <1>6
<1> QED BY <1>2, <1>4, <1>7

-----------------------------------------------------------------------------

FoldInv == FoldTyped /\ OrderFits /\ Looks /\ Counts /\ Drawn

LEMMA FoldStarts == FoldInit => FoldInv
<1> SUFFICES ASSUME FoldInit PROVE FoldInv
    OBVIOUS
<1>1. /\ FoldTyped /\ OrderFits /\ pending = NoOrder /\ trace = <<>> /\ series = <<>>
      /\ trips = 0 /\ position = 0
    BY InitAccount DEF FoldInit
<1>2. Looks
    BY <1>1 DEF Looks
<1>3. Counts
    <2>1. \A side : Signals(trace, side) = {}
        BY <1>1 DEF Signals
    <2>2. IsFiniteSet({}) /\ Cardinality({}) = 0
        BY FS_EmptySet
    <2>3. \A side : Begun(pending, trace, side) = 0
        BY <2>1 DEF Begun
    <2>4. pending.side = "NONE"
        BY <1>1, OrderTypes
    <2>5. Signals(trace, "BUY") = {} /\ Signals(trace, "SELL") = {}
        BY <2>1
    <2>6. Begun(pending, trace, "BUY") = 0 /\ Begun(pending, trace, "SELL") = 0
        BY <2>3
    <2>7. 0 = trips + Begun(pending, trace, "BUY")
        BY <1>1, <2>6
    <2>8. 0 = 0 + (IF position > 0 THEN 1 ELSE 0) - Begun(pending, trace, "SELL")
        BY <1>1, <2>6
    <2> QED BY <2>2, <2>4, <2>5, <2>7, <2>8 DEF Counts
<1> QED BY <1>1, <1>2, <1>3, InitDrawn DEF FoldInv

LEMMA FoldSteps == FoldInv /\ [FoldNext]_foldVars => FoldInv'
<1> SUFFICES ASSUME FoldInv, [FoldNext]_foldVars PROVE FoldInv'
    OBVIOUS
<1> USE DEF FoldInv
<1>1. CASE FoldNext
    <2>1. PICK bar \in BarKind : Quiet(bar) \/ Plays(bar) \/ \E fill \in Fill : PlaysFill(bar, fill)
        BY <1>1, BarSteps
    <2> QED BY <2>1, StepAccount, StepLooks, StepCounts, StepDrawn
<1>2. CASE UNCHANGED foldVars
    <2>1. UNCHANGED <<series, hold, cash, position, pending, peak, drawdown, trips, trace, failed>>
        BY <1>2 DEF foldVars
    <2>2. FoldTyped' /\ OrderFits' /\ Looks'
        BY <2>1 DEF FoldTyped, OrderFits, Looks
    <2>3. Counts' /\ Drawn'
        BY <2>1 DEF Counts, Drawn
    <2> QED BY <2>2, <2>3
<1> QED BY <1>1, <1>2

LEMMA HonestFromInv == FoldInv => FoldIsHonest
<1> SUFFICES ASSUME FoldInv PROVE FoldIsHonest
    OBVIOUS
<1>1. FoldTypeOK
    <2>1. drawdown.loss <= drawdown.peak
        BY DEF FoldInv, Drawn
    <2> QED BY <2>1 DEF FoldInv, FoldTyped, FoldTypeOK
<1>2. NoLookahead /\ RoundTripsClosed /\ DrawdownIsWorst
    BY LooksSafely, CountsClosed, DrawnWorst DEF FoldInv
<1> QED BY <1>1, <1>2 DEF FoldIsHonest

\* A fold never looks ahead, counts what happened and reports the worst
\* drawdown there was, for any bars, warm-up, length, windows, quantity, costs
\* and delay: SimulateFold of internal/researchdomain/fold.go.
THEOREM FoldsAreHonest == FoldSpec => []FoldIsHonest
<1>1. FoldSpec => []FoldInv
    BY FoldStarts, FoldSteps, PTL DEF FoldSpec
<1> QED BY <1>1, HonestFromInv, PTL
=============================================================================

-------------------------- MODULE Watchlist_proofs --------------------------
(***************************************************************************)
(* For any number of clients, entries and changes, and any fate of their   *)
(* requests: every state is well typed, the edits of the watchlist are     *)
(* atomic as long as no backup is restored, and what a client says of a    *)
(* change is true, restored or not.                                        *)
(***************************************************************************)
EXTENDS Watchlist, TLAPS

-----------------------------------------------------------------------------
(* Types *)

LEMMA ListTyped ==
  ASSUME WatchlistTypeOK, NEW k \in 0..Len(saved)
  PROVE  ListAt(k) \in List
<1>1. CASE k = 0
  BY <1>1 DEF ListAt, List
<1>2. CASE k # 0
  <2>1. k \in 1..Len(saved)
    BY <1>2 DEF WatchlistTypeOK
  <2>2. saved[k] \in [change: Change, at: Nat]
    <3> DEFINE S == [change: Change, at: Nat]
    <3>1. saved \in Seq(S)
      BY DEF WatchlistTypeOK
    <3> HIDE DEF S
    <3>2. saved[k] \in S
      BY <2>1, <3>1
    <3>3. QED
      BY <3>2 DEF S
  <2>3. saved[k].change.entries \in SUBSET Entry
    BY <2>2 DEF Change
  <2>4. k \in Nat
    OBVIOUS
  <2>5. QED
    BY <1>2, <2>3, <2>4 DEF ListAt, List
<1>3. QED
  BY <1>1, <1>2

LEMMA CurrentTyped ==
  ASSUME WatchlistTypeOK
  PROVE  Current \in List /\ Len(saved) \in Nat
<1>1. Len(saved) \in Nat
  BY DEF WatchlistTypeOK
<1>2. QED
  BY <1>1, ListTyped DEF Current

LEMMA ServerTyped ==
  ASSUME WatchlistTypeOK, NEW m \in wire,
         Save(m) \/ Acknowledge(m) \/ Conflict(m) \/ Report(m) \/ Refuse(m) \/ Fail(m)
  PROVE  WatchlistTypeOK'
<1>1. /\ m \in Request /\ Current \in List /\ Len(saved) \in Nat
  BY CurrentTyped DEF WatchlistTypeOK
<1>2. ASSUME NEW s \in {"ok", "changed", "rejected", "unavailable"}, NEW l \in List,
             Reply(m, s, l)
      PROVE  wire' \subseteq Request /\ answer' \in [Client -> Answer \cup {None}]
  BY <1>1, <1>2 DEF Reply, WatchlistTypeOK, Answer, Request
<1>3. CASE Save(m)
  <2>1. m.change \in Change /\ SavedAs(m.change) \in List
    BY <1>1, <1>3 DEF Save, SavedAs, Request, Change, List
  <2>2. /\ saved' \in Seq([change: Change, at: Nat]) /\ Len(saved') <= RevisionLimit
    BY <1>1, <1>3, <2>1, WatchlistAssumption DEF Save, MaySave, WatchlistTypeOK
  <2>3. QED
    BY <1>2, <1>3, <2>1, <2>2 DEF Save, WatchlistTypeOK
<1>4. CASE Acknowledge(m) \/ Conflict(m) \/ Report(m) \/ Refuse(m) \/ Fail(m)
  <2>1. wire' \subseteq Request /\ answer' \in [Client -> Answer \cup {None}]
    BY <1>1, <1>2, <1>4 DEF Acknowledge, Conflict, Report, Refuse, Fail
  <2>2. QED
    BY <1>4, <2>1 DEF Acknowledge, Conflict, Report, Refuse, Fail, WatchlistTypeOK
<1>5. QED
  BY <1>3, <1>4

LEMMA SendTyped ==
  ASSUME WatchlistTypeOK, NEW c \in Client, NEW ch \in Change \cup {None}, Send(c, ch)
  PROVE  wire' \subseteq Request /\ answer' \in [Client -> Answer \cup {None}]
<1>1. [by |-> c, change |-> ch, live |-> TRUE] \in Request
  BY DEF Request
<1>2. QED
  BY <1>1 DEF WatchlistTypeOK, Send

LEMMA TakeTyped ==
  ASSUME WatchlistTypeOK, NEW c \in Client, Take(c)
  PROVE  wire' \subseteq Request /\ answer' \in [Client -> Answer \cup {None}]
  BY DEF WatchlistTypeOK, Take

LEMMA EditsTyped ==
  ASSUME WatchlistTypeOK, NEW c \in Client, Edits(c)
  PROVE  WatchlistTypeOK'
<1>1. client[c] \in Controller
  BY DEF WatchlistTypeOK
<1>2. ASSUME NEW l \in SUBSET Entry, StartChange(c, l)
      PROVE  WatchlistTypeOK'
  <2> DEFINE ch == [by |-> c, serial |-> client[c].changes + 1,
                    expected |-> client[c].shown.revision, entries |-> l]
  <2>1. client[c].shown \in List
    BY <1>1, <1>2 DEF StartChange, CanEdit, Controller
  <2>2. ch \in Change
    BY <1>1, <1>2, <2>1 DEF Change, List, Controller
  <2>3. wire' \subseteq Request /\ answer' \in [Client -> Answer \cup {None}]
    BY <1>2, <2>2, SendTyped DEF StartChange
  <2>4. client' \in [Client -> Controller]
    BY <1>1, <1>2, <2>2 DEF StartChange, WatchlistTypeOK, Controller, Change
  <2>5. QED
    BY <1>2, <2>3, <2>4 DEF StartChange, WatchlistTypeOK
<1>3. CASE Add(c)
  BY <1>1, <1>2, <1>3 DEF Add, CanEdit, Controller, List
<1>4. CASE Remove(c)
  BY <1>1, <1>2, <1>4 DEF Remove, CanEdit, Controller, List
<1>5. CASE Retry(c)
  <2>1. wire' \subseteq Request /\ answer' \in [Client -> Answer \cup {None}]
    BY <1>1, <1>5, SendTyped DEF Retry, Controller
  <2>2. client' = [client EXCEPT ![c].phase = "saving"]
    BY <1>5 DEF Retry
  <2>3. client' \in [Client -> Controller]
    BY <1>1, <2>2 DEF WatchlistTypeOK, Controller
  <2>4. QED
    BY <1>5, <2>1, <2>3 DEF Retry, WatchlistTypeOK
<1>6. CASE Refresh(c)
  <2>1. wire' \subseteq Request /\ answer' \in [Client -> Answer \cup {None}]
    BY <1>6, SendTyped DEF Refresh
  <2>2. client' = [client EXCEPT ![c].phase = "reading"]
    BY <1>6 DEF Refresh
  <2>3. client' \in [Client -> Controller]
    BY <1>1, <2>2 DEF WatchlistTypeOK, Controller
  <2>4. QED
    BY <1>6, <2>1, <2>3 DEF Refresh, WatchlistTypeOK
<1>7. QED
  BY <1>3, <1>4, <1>5, <1>6 DEF Edits

LEMMA HearsTyped ==
  ASSUME WatchlistTypeOK, NEW c \in Client, Hears(c), client[c].phase = "saving" => client[c].pending # None
  PROVE  WatchlistTypeOK'
<1>1. /\ client[c] \in Controller
      /\ answer[c] # None => answer[c] \in Answer
  BY DEF WatchlistTypeOK
<1>2. CASE Confirmed(c)
  <2>1. wire' \subseteq Request /\ answer' \in [Client -> Answer \cup {None}]
    BY <1>2, SendTyped DEF Confirmed
  <2>2. client' \in [Client -> Controller]
    BY <1>1, <1>2 DEF Confirmed, Saving, WatchlistTypeOK, Controller, Answer
  <2>3. fate' \in [{"confirmed", "rejected", "forgotten"} -> SUBSET Change]
    BY <1>1, <1>2 DEF Confirmed, Saving, Told, WatchlistTypeOK, Controller
  <2>4. QED
    BY <1>2, <2>1, <2>2, <2>3 DEF Confirmed, WatchlistTypeOK
<1>3. CASE Overtaken(c)
  <2>1. wire' \subseteq Request /\ answer' \in [Client -> Answer \cup {None}]
    BY <1>3, SendTyped DEF Overtaken
  <2>2. client' \in [Client -> Controller]
    <3>1. CASE client[c].uncertain
      <4>1. client' = [client EXCEPT ![c].reload = TRUE, ![c].phase = "reading"]
        BY <1>3, <3>1 DEF Overtaken
      <4>2. QED
        BY <1>1, <4>1 DEF WatchlistTypeOK, Controller
    <3>2. CASE ~client[c].uncertain
      <4>1. client' = [client EXCEPT ![c].reload = TRUE, ![c].phase = "reading",
                                     ![c].pending = None]
        BY <1>3, <3>2 DEF Overtaken
      <4>2. QED
        BY <1>1, <4>1 DEF WatchlistTypeOK, Controller
    <3>3. QED
      BY <3>1, <3>2
  <2>3. fate' \in [{"confirmed", "rejected", "forgotten"} -> SUBSET Change]
    BY <1>1, <1>3 DEF Overtaken, Saving, Told, WatchlistTypeOK, Controller
  <2>4. QED
    BY <1>3, <2>1, <2>2, <2>3 DEF Overtaken, WatchlistTypeOK
<1>4. CASE Rejected(c)
  <2>1. wire' \subseteq Request /\ answer' \in [Client -> Answer \cup {None}]
    BY <1>4, TakeTyped DEF Rejected
  <2>2. client' \in [Client -> Controller]
    BY <1>1, <1>4 DEF Rejected, WatchlistTypeOK, Controller
  <2>3. fate' \in [{"confirmed", "rejected", "forgotten"} -> SUBSET Change]
    BY <1>1, <1>4 DEF Rejected, Saving, Told, WatchlistTypeOK, Controller
  <2>4. QED
    BY <1>4, <2>1, <2>2, <2>3 DEF Rejected, WatchlistTypeOK
<1>5. CASE Uncertain(c)
  <2>1. wire' \subseteq Request /\ answer' \in [Client -> Answer \cup {None}]
    BY <1>5, TakeTyped DEF Uncertain
  <2>2. client' \in [Client -> Controller]
    BY <1>1, <1>5 DEF Uncertain, Doubt, WatchlistTypeOK, Controller
  <2>3. QED
    BY <1>5, <2>1, <2>2 DEF Uncertain, WatchlistTypeOK
<1>6. CASE Read(c)
  <2>1. wire' \subseteq Request /\ answer' \in [Client -> Answer \cup {None}]
    BY <1>6, TakeTyped DEF Read
  <2>2. client' \in [Client -> Controller]
    <3> DEFINE done == client[c].pending # None /\ Settles(answer[c].list, client[c].pending)
    <3>1. answer[c].list \in List
      BY <1>1, <1>6 DEF Read, Answer
    <3>2. CASE done
      BY <1>1, <1>6, <3>1, <3>2 DEF Read, WatchlistTypeOK, Controller
    <3>3. CASE ~done
      BY <1>1, <1>6, <3>1, <3>3 DEF Read, WatchlistTypeOK, Controller
    <3>4. QED
      BY <3>2, <3>3
  <2>3. QED
    BY <1>6, <2>1, <2>2 DEF Read, WatchlistTypeOK
<1>7. CASE NotRead(c)
  <2>1. wire' \subseteq Request /\ answer' \in [Client -> Answer \cup {None}]
    BY <1>7, TakeTyped DEF NotRead
  <2>2. QED
    BY <1>7, <2>1 DEF NotRead, WatchlistTypeOK, Controller
<1>8. QED
  BY <1>2, <1>3, <1>4, <1>5, <1>6, <1>7 DEF Hears

\* What leaves c's requests behind keeps the types of the wire.
LEMMA OrphansTyped ==
  ASSUME WatchlistTypeOK, NEW c \in Client
  PROVE  {m \in wire : ~(m.by = c /\ m.live)} \cup
         {[m EXCEPT !.live = FALSE] : m \in {r \in wire : r.by = c /\ r.change # None}}
         \subseteq Request
<1>1. \A m \in wire : [m EXCEPT !.live = FALSE] \in Request
  BY DEF WatchlistTypeOK, Request
<1>2. QED
  BY <1>1 DEF WatchlistTypeOK

LEMMA LeavesTyped ==
  ASSUME WatchlistTypeOK, NEW c \in Client, GiveUp(c) \/ Relaunch(c)
  PROVE  WatchlistTypeOK'
<1>1. /\ client[c] \in Controller
      /\ answer' \in [Client -> Answer \cup {None}]
      /\ wire' \subseteq Request
  BY OrphansTyped DEF WatchlistTypeOK, GiveUp, Relaunch
<1>2. CASE GiveUp(c)
  <2>1. client' \in [Client -> Controller]
    <3>1. CASE client[c].phase = "saving"
      <4>1. client' = [client EXCEPT ![c].uncertain = TRUE, ![c].phase = "idle"]
        BY <1>2, <3>1 DEF GiveUp, Doubt
      <4>2. QED
        BY <1>1, <4>1 DEF WatchlistTypeOK, Controller
    <3>2. CASE client[c].phase # "saving"
      <4>1. client' = [client EXCEPT ![c].phase = "idle"]
        BY <1>2, <3>2 DEF GiveUp
      <4>2. QED
        BY <1>1, <4>1 DEF WatchlistTypeOK, Controller
    <3>3. QED
      BY <3>1, <3>2
  <2>2. QED
    BY <1>1, <1>2, <2>1 DEF GiveUp, WatchlistTypeOK
<1>3. CASE Relaunch(c)
  <2>1. client' \in [Client -> Controller]
    BY <1>1, <1>3 DEF Relaunch, Blank, WatchlistTypeOK, Controller
  <2>2. fate' \in [{"confirmed", "rejected", "forgotten"} -> SUBSET Change]
    <3>1. CASE client[c].pending = None
      <4>1. UNCHANGED fate
        BY <1>3, <3>1 DEF Relaunch
      <4>2. QED
        BY <4>1 DEF WatchlistTypeOK
    <3>2. CASE client[c].pending # None
      <4>1. Told(c, "forgotten")
        BY <1>3, <3>2 DEF Relaunch
      <4>2. QED
        BY <1>1, <3>2, <4>1 DEF Told, WatchlistTypeOK, Controller
    <3>3. QED
      BY <3>1, <3>2
  <2>3. QED
    BY <1>1, <1>3, <2>1, <2>2 DEF Relaunch, WatchlistTypeOK
<1>4. QED
  BY <1>2, <1>3

-----------------------------------------------------------------------------
(* Atomic edits *)

\* Change ch edits the list of a revision that was saved.
Fit(ch) ==
    /\ ch.expected \in 0..Len(saved)
    /\ Shared!OneEdit(ListAt(ch.expected).entries, ch.entries)

\* List l was saved.
Seen(l) == l.revision \in 0..Len(saved) /\ l = ListAt(l.revision)

EditInv ==
    /\ WatchlistTypeOK
    /\ \A c \in Client : client[c].phase = "saving" => client[c].pending # None
    /\ \A m \in wire : m.change # None => Fit(m.change)
    /\ \A c \in Client : client[c].pending # None => Fit(client[c].pending)
    /\ \A c \in Client : client[c].shown # None => Seen(client[c].shown)
    /\ \A c \in Client : answer[c] # None => Seen(answer[c].list)

\* A saved list stays saved.
LEMMA SavedStays ==
  ASSUME WatchlistTypeOK, NEW e, saved' = saved \/ saved' = Append(saved, e)
  PROVE  /\ \A ch : Fit(ch) => Fit(ch)'
         /\ \A l : Seen(l) => Seen(l)'
<1>1. /\ Len(saved) \in Nat /\ Len(saved') \in Nat /\ Len(saved) <= Len(saved')
      /\ \A k \in 1..Len(saved) : saved'[k] = saved[k]
  BY DEF WatchlistTypeOK
<1>2. ASSUME NEW k \in 0..Len(saved) PROVE ListAt(k)' = ListAt(k)
  <2>1. CASE k = 0
    BY <2>1 DEF ListAt
  <2>2. CASE k # 0
    BY <1>1, <2>2 DEF ListAt
  <2>3. QED
    BY <2>1, <2>2
<1>3. ASSUME NEW ch, Fit(ch) PROVE Fit(ch)'
  BY <1>1, <1>2, <1>3 DEF Fit
<1>4. ASSUME NEW l, Seen(l) PROVE Seen(l)'
  BY <1>1, <1>2, <1>4 DEF Seen
<1>5. QED
  BY <1>3, <1>4

LEMMA ServerKeepsEdits ==
  ASSUME EditInv, NEW m \in wire, Serve(m) \/ Refuse(m) \/ Fail(m)
  PROVE  EditInv'
<1>1. WatchlistTypeOK /\ WatchlistTypeOK'
  BY ServerTyped DEF EditInv, Serve
<1>2. UNCHANGED client
  BY DEF Serve, Save, Acknowledge, Conflict, Report, Refuse, Fail
<1>3. /\ Len(saved) \in Nat /\ Seen(Current)
  BY <1>1, CurrentTyped DEF Seen, Current, ListAt
<1>4. ASSUME NEW s, NEW l, Reply(m, s, l)
      PROVE  /\ wire' \subseteq wire
             /\ \A c \in Client : answer'[c] # None => answer'[c] = answer[c] \/ answer'[c].list = l
  BY <1>1, <1>4 DEF Reply, WatchlistTypeOK
<1>5. /\ \E e : saved' = saved \/ saved' = Append(saved, e)
      /\ wire' \subseteq wire
      /\ \A c \in Client : \A l :
            answer'[c] # None /\ l = answer'[c].list => answer'[c] = answer[c] \/ Seen(l)'
  <2>1. CASE Save(m)
    <3>1. saved' = Append(saved, [change |-> m.change, at |-> now])
      BY <2>1 DEF Save
    <3>2. ASSUME NEW l, l = SavedAs(m.change) PROVE Seen(l)'
      <4>1. /\ Len(saved') = Len(saved) + 1
            /\ saved'[Len(saved) + 1].change = m.change
            /\ Current.revision = Len(saved)
        BY <1>1, <1>3, <3>1 DEF WatchlistTypeOK, Current, ListAt
      <4>2. l = [revision |-> Len(saved) + 1, entries |-> m.change.entries]
        BY <3>2, <4>1 DEF SavedAs
      <4>3. QED
        BY <1>3, <4>1, <4>2 DEF Seen, ListAt
    <3>3. QED
      BY <1>4, <2>1, <3>1, <3>2 DEF Save
  <2>2. CASE Acknowledge(m) \/ Conflict(m) \/ Report(m) \/ Refuse(m) \/ Fail(m)
    <3>1. saved' = saved /\ (\A l : Seen(l)' <=> Seen(l))
      BY <2>2 DEF Acknowledge, Conflict, Report, Refuse, Fail, Seen, ListAt
    <3>2. \E s : Reply(m, s, Current)
      BY <2>2 DEF Acknowledge, Conflict, Report, Refuse, Fail
    <3>3. QED
      BY <1>3, <1>4, <3>1, <3>2
  <2>3. QED
    BY <2>1, <2>2 DEF Serve
<1>6. /\ \A ch : Fit(ch) => Fit(ch)'
      /\ \A l : Seen(l) => Seen(l)'
  BY <1>1, <1>5, SavedStays
<1>7. QED
  BY <1>1, <1>2, <1>5, <1>6 DEF EditInv

\* What a controller does keeps the edits fit if its new change is fit.
LEMMA ClientKeepsEdits ==
  ASSUME EditInv, WatchlistTypeOK', NEW c \in Client, saved' = saved,
         \A d \in Client : d # c => client'[d] = client[d],
         \A d \in Client : answer'[d] # None => answer'[d] = answer[d],
         \A m \in wire' : m.change # None =>
            Fit(m.change) \/ \E r \in wire : r.change = m.change,
         client'[c].phase = "saving" => client'[c].pending # None,
         client'[c].pending # None => Fit(client'[c].pending),
         client'[c].shown # None => Seen(client'[c].shown)
  PROVE  EditInv'
<1>1. \A ch : Fit(ch)' <=> Fit(ch)
  BY DEF Fit, ListAt
<1>2. \A l : Seen(l)' <=> Seen(l)
  BY DEF Seen, ListAt
<1>3. QED
  BY <1>1, <1>2 DEF EditInv

LEMMA EditsKeepEdits ==
  ASSUME EditInv, NEW c \in Client, Edits(c)
  PROVE  EditInv'
<1>1. WatchlistTypeOK /\ WatchlistTypeOK' /\ client[c] \in Controller
  BY EditsTyped DEF EditInv, WatchlistTypeOK
<1>2. ASSUME NEW l \in SUBSET Entry, StartChange(c, l),
             Shared!OneEdit(client[c].shown.entries, l)
      PROVE  EditInv'
  <2> DEFINE ch == [by |-> c, serial |-> client[c].changes + 1,
                    expected |-> client[c].shown.revision, entries |-> l]
  <2>1. /\ client[c].shown # None /\ Seen(client[c].shown)
        /\ client' = [client EXCEPT ![c].pending = ch, ![c].uncertain = FALSE,
                                    ![c].phase = "saving", ![c].changes = ch.serial]
        /\ Send(c, ch) /\ saved' = saved
    BY <1>2 DEF StartChange, CanEdit, EditInv
  <2>2. Fit(ch)
    BY <1>2, <2>1 DEF Fit, Seen
  <2>3. /\ client'[c].pending = ch /\ client'[c].shown = client[c].shown
        /\ \A d \in Client : d # c => client'[d] = client[d]
    BY <1>1, <2>1 DEF WatchlistTypeOK, Controller
  <2>4. /\ \A d \in Client : answer'[d] # None => answer'[d] = answer[d]
        /\ \A m \in wire' : m.change # None =>
              Fit(m.change) \/ \E r \in wire : r.change = m.change
    BY <1>1, <2>1, <2>2 DEF Send, WatchlistTypeOK
  <2>5. ch # None
    <3>1. client[c].shown \in List
      BY <1>1, <2>1 DEF Controller
    <3>2. ch \in Change
      BY <1>1, <1>2, <3>1 DEF Change, List, Controller
    <3>3. QED
      BY <3>2, NoneAssumption
  <2>6. QED
    BY <1>1, <2>1, <2>2, <2>3, <2>4, <2>5, ClientKeepsEdits
<1>3. CASE Add(c)
  BY <1>1, <1>2, <1>3 DEF Add, CanEdit, Controller, List, Shared!OneEdit
<1>4. CASE Remove(c)
  BY <1>1, <1>2, <1>4 DEF Remove, CanEdit, Controller, List, Shared!OneEdit
<1>5. CASE Retry(c) \/ Refresh(c)
  <2>1. /\ client'[c].pending = client[c].pending /\ client'[c].shown = client[c].shown
        /\ client'[c].phase = "saving" => client[c].pending # None
        /\ \A d \in Client : d # c => client'[d] = client[d]
        /\ saved' = saved
    BY <1>1, <1>5 DEF Retry, Refresh, WatchlistTypeOK, Controller
  <2>2. Send(c, client[c].pending) \/ Send(c, None)
    BY <1>5 DEF Retry, Refresh
  <2>3. client[c].pending # None => Fit(client[c].pending)
    BY DEF EditInv
  <2>4. /\ \A d \in Client : answer'[d] # None => answer'[d] = answer[d]
        /\ \A m \in wire' : m.change # None =>
              Fit(m.change) \/ \E r \in wire : r.change = m.change
    BY <1>1, <2>2, <2>3 DEF Send, WatchlistTypeOK
  <2>5. QED
    BY <1>1, <2>1, <2>3, <2>4, ClientKeepsEdits DEF EditInv
<1>6. QED
  BY <1>3, <1>4, <1>5 DEF Edits

LEMMA HearsKeepsEdits ==
  ASSUME EditInv, NEW c \in Client, Hears(c)
  PROVE  EditInv'
<1>1. /\ WatchlistTypeOK /\ WatchlistTypeOK' /\ client[c] \in Controller
      /\ answer[c] # None => answer[c] \in Answer /\ Seen(answer[c].list)
      /\ client[c].shown # None => Seen(client[c].shown)
      /\ client[c].pending # None => Fit(client[c].pending)
  BY HearsTyped DEF EditInv, WatchlistTypeOK
<1>2. /\ saved' = saved
      /\ \A d \in Client : answer'[d] # None => answer'[d] = answer[d]
      /\ \A m \in wire' : m.change # None => \E r \in wire : r.change = m.change
  <2>1. saved' = saved /\ (Send(c, None) \/ Take(c))
    BY DEF Hears, Confirmed, Overtaken, Rejected, Uncertain, Read, NotRead
  <2>2. QED
    BY <1>1, <2>1 DEF Send, Take, WatchlistTypeOK
<1>3. SUFFICES
        /\ \A d \in Client : d # c => client'[d] = client[d]
        /\ client'[c].phase # "saving"
        /\ client'[c].pending \in {client[c].pending, None}
        /\ client'[c].shown = client[c].shown
           \/ (answer[c] # None /\ client'[c].shown = answer[c].list)
  BY <1>1, <1>2, <1>3, ClientKeepsEdits
<1>4. CASE Confirmed(c)
  BY <1>1, <1>4 DEF Confirmed, Saving, WatchlistTypeOK, Controller
<1>5. CASE Overtaken(c)
  <2>1. CASE client[c].uncertain
    <3>1. client' = [client EXCEPT ![c].reload = TRUE, ![c].phase = "reading"]
      BY <1>5, <2>1 DEF Overtaken
    <3>2. QED
      BY <1>1, <3>1 DEF WatchlistTypeOK, Controller
  <2>2. CASE ~client[c].uncertain
    <3>1. client' = [client EXCEPT ![c].reload = TRUE, ![c].phase = "reading",
                                   ![c].pending = None]
      BY <1>5, <2>2 DEF Overtaken
    <3>2. QED
      BY <1>1, <3>1 DEF WatchlistTypeOK, Controller
  <2>3. QED
    BY <2>1, <2>2
<1>6. CASE Rejected(c) \/ NotRead(c)
  BY <1>1, <1>6 DEF Rejected, NotRead, WatchlistTypeOK, Controller
<1>7. CASE Uncertain(c)
  BY <1>1, <1>7 DEF Uncertain, Doubt, WatchlistTypeOK, Controller
<1>8. CASE Read(c)
  BY <1>1, <1>8 DEF Read, WatchlistTypeOK, Controller
<1>9. QED
  BY <1>4, <1>5, <1>6, <1>7, <1>8 DEF Hears

LEMMA LeavesKeepEdits ==
  ASSUME EditInv, NEW c \in Client, GiveUp(c) \/ Relaunch(c)
  PROVE  EditInv'
<1>1. /\ WatchlistTypeOK /\ WatchlistTypeOK' /\ client[c] \in Controller
      /\ client[c].shown # None => Seen(client[c].shown)
      /\ client[c].pending # None => Fit(client[c].pending)
  BY LeavesTyped DEF EditInv, WatchlistTypeOK
<1>2. /\ saved' = saved
      /\ \A d \in Client : answer'[d] # None => answer'[d] = answer[d]
  BY <1>1 DEF GiveUp, Relaunch, WatchlistTypeOK
<1>3. \A m \in wire' : m.change # None => \E r \in wire : r.change = m.change
  <2>1. \A r \in wire : [r EXCEPT !.live = FALSE].change = r.change
    BY <1>1 DEF WatchlistTypeOK, Request
  <2>2. wire' = {m \in wire : ~(m.by = c /\ m.live)} \cup
                {[m EXCEPT !.live = FALSE] : m \in {r \in wire : r.by = c /\ r.change # None}}
    BY DEF GiveUp, Relaunch
  <2>3. QED
    BY <2>1, <2>2
<1>4. SUFFICES
        /\ \A d \in Client : d # c => client'[d] = client[d]
        /\ client'[c].phase # "saving"
        /\ client'[c].pending \in {client[c].pending, None}
        /\ client'[c].shown \in {client[c].shown, None}
  BY <1>1, <1>2, <1>3, <1>4, ClientKeepsEdits
<1>5. CASE GiveUp(c)
  <2>1. \/ client' = [client EXCEPT ![c].uncertain = TRUE, ![c].phase = "idle"]
        \/ client' = [client EXCEPT ![c].phase = "idle"]
    BY <1>5 DEF GiveUp, Doubt
  <2>2. QED
    BY <1>1, <2>1 DEF WatchlistTypeOK, Controller
<1>6. CASE Relaunch(c)
  BY <1>1, <1>6 DEF Relaunch, Blank, WatchlistTypeOK, Controller
<1>7. QED
  BY <1>5, <1>6

\* Who waits for the fate of a change has one, restored backup or not.
Waits == \A c \in Client : client[c].phase = "saving" => client[c].pending # None

LEMMA TypesHold ==
  ASSUME WatchlistTypeOK, Waits, [Next]_vars
  PROVE  WatchlistTypeOK' /\ Waits'
<1>1. CASE \E m \in wire : Serve(m) \/ Refuse(m) \/ Fail(m)
  <2>1. WatchlistTypeOK'
    BY <1>1, ServerTyped DEF Serve
  <2>2. UNCHANGED client
    BY <1>1 DEF Serve, Save, Acknowledge, Conflict, Report, Refuse, Fail
  <2>3. QED
    BY <2>1, <2>2 DEF Waits
<1>2. ASSUME NEW c \in Client, Edits(c) \/ Hears(c) \/ GiveUp(c) \/ Relaunch(c)
      PROVE  WatchlistTypeOK' /\ Waits'
  <2>1. WatchlistTypeOK'
    BY <1>2, EditsTyped, HearsTyped, LeavesTyped DEF Waits
  <2>2. ASSUME NEW d \in Client, client'[d].phase = "saving" PROVE client'[d].pending # None
    <3>1. CASE d # c
      <4>1. client'[d] = client[d]
        <5>1. CASE Edits(c)
          BY <3>1, <5>1 DEF Edits, Add, Remove, StartChange, Retry, Refresh, WatchlistTypeOK
        <5>2. CASE Hears(c)
          BY <3>1, <5>2 DEF Hears, Confirmed, Overtaken, Rejected, Uncertain, Doubt, Read, NotRead,
                            WatchlistTypeOK
        <5>3. CASE GiveUp(c) \/ Relaunch(c)
          BY <3>1, <5>3 DEF GiveUp, Doubt, Relaunch, WatchlistTypeOK
        <5>4. QED
          BY <1>2, <5>1, <5>2, <5>3
      <4>2. QED
        BY <2>2, <4>1 DEF Waits
    <3>2. CASE d = c
      <4>1. ASSUME NEW l \in SUBSET Entry, StartChange(c, l) PROVE client'[c].pending # None
        <5> DEFINE ch == [by |-> c, serial |-> client[c].changes + 1,
                          expected |-> client[c].shown.revision, entries |-> l]
        <5>1. client' = [client EXCEPT ![c].pending = ch, ![c].uncertain = FALSE,
                                       ![c].phase = "saving", ![c].changes = ch.serial]
          BY <4>1 DEF StartChange
        <5>2. client'[c].pending = ch
          BY <5>1 DEF WatchlistTypeOK, Controller
        <5>3. client[c].shown \in List /\ client[c].changes \in Nat
          BY <4>1 DEF StartChange, CanEdit, WatchlistTypeOK, Controller
        <5>4. ch \in Change
          BY <5>3 DEF Change, List
        <5>5. QED
          BY <5>2, <5>4, NoneAssumption
      <4>2. CASE Add(c) \/ Remove(c)
        <5>1. PICK l \in SUBSET Entry : StartChange(c, l)
          <6>1. client[c].shown \in List
            BY <4>2 DEF Add, Remove, CanEdit, WatchlistTypeOK, Controller
          <6>2. QED
            BY <4>2, <6>1 DEF Add, Remove, List
        <5>2. QED
          BY <3>2, <4>1, <5>1
      <4>3. CASE Retry(c) \/ Refresh(c)
        BY <2>2, <3>2, <4>3 DEF Retry, Refresh, WatchlistTypeOK, Controller
      <4>4. CASE Hears(c)
        <5> DEFINE idle == client'[c].phase \in {"idle", "reading"}
        <5>1. CASE Confirmed(c)
          BY <2>2, <3>2, <5>1 DEF Confirmed, WatchlistTypeOK, Controller
        <5>2. CASE Overtaken(c)
          <6>1. \/ client' = [client EXCEPT ![c].reload = TRUE, ![c].phase = "reading"]
                \/ client' = [client EXCEPT ![c].reload = TRUE, ![c].phase = "reading",
                                            ![c].pending = None]
            BY <5>2 DEF Overtaken
          <6>2. idle
            BY <6>1 DEF WatchlistTypeOK, Controller
          <6>3. QED
            BY <2>2, <3>2, <6>2
        <5>3. CASE Rejected(c) \/ Uncertain(c) \/ NotRead(c)
          BY <2>2, <3>2, <5>3 DEF Rejected, Uncertain, Doubt, NotRead, WatchlistTypeOK, Controller
        <5>4. CASE Read(c)
          BY <2>2, <3>2, <5>4 DEF Read, WatchlistTypeOK, Controller
        <5>5. QED
          BY <2>2, <3>2, <4>4, <5>1, <5>2, <5>3, <5>4 DEF Hears
      <4>5. CASE GiveUp(c) \/ Relaunch(c)
        BY <2>2, <3>2, <4>5 DEF GiveUp, Doubt, Relaunch, Blank, WatchlistTypeOK, Controller, Waits
      <4>6. QED
        BY <1>2, <4>2, <4>3, <4>4, <4>5 DEF Edits
    <3>3. QED
      BY <3>1, <3>2
  <2>3. QED
    BY <2>1, <2>2 DEF Waits
<1>3. CASE SetClock \/ UNCHANGED vars
  BY <1>3, WatchlistAssumption DEF SetClock, vars, WatchlistTypeOK, Waits
<1>4. CASE Restore
  <2>1. PICK k \in 0..Len(saved) : saved' = SubSeq(saved, 1, k)
    BY <1>4 DEF Restore
  <2>2. /\ saved' \in Seq([change: Change, at: Nat]) /\ Len(saved') <= RevisionLimit
    <3> DEFINE S == [change: Change, at: Nat]
    <3>1. saved \in Seq(S) /\ Len(saved) <= RevisionLimit
      BY DEF WatchlistTypeOK
    <3> HIDE DEF S
    <3>2. saved' \in Seq(S) /\ Len(saved') = k
      BY <2>1, <3>1
    <3>3. QED
      BY <3>1, <3>2, WatchlistAssumption DEF S
  <2>3. /\ fate' \in [{"confirmed", "rejected", "forgotten"} -> SUBSET Change]
        /\ answer' \in [Client -> Answer \cup {None}]
        /\ wire' = {} /\ restores' \in Nat /\ UNCHANGED <<now, client>>
    BY <1>4 DEF Restore, WatchlistTypeOK
  <2>4. QED
    BY <2>2, <2>3 DEF WatchlistTypeOK, Waits
<1>5. QED
  BY <1>1, <1>2, <1>3, <1>4 DEF Next

\* As long as no backup is restored, requests, pending changes, shown lists and
\* answers all stem from saved lists.
QuietInv == WatchlistTypeOK /\ Waits /\ (restores = 0 => EditInv)

LEMMA QuietStep == QuietInv /\ [Next]_vars => QuietInv'
<1> SUFFICES ASSUME QuietInv, [Next]_vars, restores' = 0 PROVE EditInv'
  BY TypesHold DEF QuietInv
<1>1. ~Restore
  BY DEF Restore, QuietInv, WatchlistTypeOK
<1>2. restores = 0
  <2>1. CASE \E m \in wire : Serve(m) \/ Refuse(m) \/ Fail(m)
    BY <2>1 DEF Serve, Save, Acknowledge, Conflict, Report, Refuse, Fail
  <2>2. ASSUME NEW c \in Client, Edits(c) \/ GiveUp(c) \/ Relaunch(c) PROVE restores = 0
    BY <2>2 DEF Edits, Add, Remove, StartChange, Retry, Refresh, GiveUp, Relaunch
  <2>3. ASSUME NEW c \in Client, Hears(c) PROVE restores = 0
    BY <2>3 DEF Hears, Confirmed, Overtaken, Rejected, Uncertain, Read, NotRead
  <2>4. CASE SetClock \/ UNCHANGED vars
    BY <2>4 DEF SetClock, vars
  <2>5. QED
    BY <1>1, <2>1, <2>2, <2>3, <2>4 DEF Next
<1>3. EditInv
  BY <1>2 DEF QuietInv
<1>4. ASSUME NEW m \in wire, Serve(m) \/ Refuse(m) \/ Fail(m) PROVE EditInv'
  BY <1>3, <1>4, ServerKeepsEdits
<1>5. ASSUME NEW c \in Client, Edits(c) \/ Hears(c) \/ GiveUp(c) \/ Relaunch(c)
      PROVE  EditInv'
  BY <1>3, <1>5, EditsKeepEdits, HearsKeepsEdits, LeavesKeepEdits
<1>6. CASE SetClock \/ UNCHANGED vars
  <2>1. /\ UNCHANGED <<saved, wire, answer, client, fate, restores>>
        /\ now' \in Nat
    BY <1>3, <1>6, WatchlistAssumption DEF SetClock, vars, EditInv, WatchlistTypeOK
  <2>2. /\ \A ch : Fit(ch)' <=> Fit(ch)
        /\ \A l : Seen(l)' <=> Seen(l)
    BY <2>1 DEF Fit, Seen, ListAt
  <2>3. WatchlistTypeOK'
    BY <1>3, <2>1 DEF EditInv, WatchlistTypeOK
  <2>4. QED
    BY <1>3, <2>1, <2>2, <2>3 DEF EditInv
<1>7. QED
  BY <1>1, <1>4, <1>5, <1>6 DEF Next

LEMMA EditsHold == Spec => []QuietInv
<1>1. Init => QuietInv
  BY WatchlistAssumption DEF Init, Blank, QuietInv, Waits, EditInv, WatchlistTypeOK, Controller
<1>2. QED
  BY <1>1, QuietStep, PTL DEF Spec

\* Every reachable state is well typed and the revision stays within the limit
\* that a client can read exactly.
THEOREM WatchlistTyped == Spec => []WatchlistTypeOK
<1>1. QuietInv => WatchlistTypeOK
  BY DEF QuietInv
<1>2. QED
  BY <1>1, EditsHold, PTL

\* Whatever is late, lost or repeated, and whoever edits, every saved revision
\* is one entry away from the one before: until a backup is restored the stored
\* list implements a shared list edited in place.
THEOREM WatchlistEditsAreAtomic == Spec => EditsAreAtomic
<1>1. Init => Shared!ListInit
  BY DEF Init, Shared!ListInit, Current, ListAt
<1>2. QuietInv /\ [Next]_vars => [restores' = 0 => Shared!Edit]_(Shared!listVars)
  <2> SUFFICES ASSUME QuietInv, [Next]_vars, restores' = 0 PROVE [Shared!Edit]_(Shared!listVars)
    OBVIOUS
  <2>1. ASSUME saved' = saved PROVE UNCHANGED Shared!listVars
    BY <2>1 DEF Current, ListAt, Shared!listVars
  <2>2. ASSUME NEW m \in wire, Save(m) PROVE Shared!Edit
    <3>1. /\ Fit(m.change) /\ m.change.expected = Current.revision
          /\ saved' = Append(saved, [change |-> m.change, at |-> now])
          /\ Len(saved) \in Nat /\ WatchlistTypeOK
      <4>1. restores = 0 /\ WatchlistTypeOK
        BY <2>2 DEF Save, QuietInv
      <4>2. EditInv
        BY <4>1 DEF QuietInv
      <4>3. QED
        BY <2>2, <4>2, CurrentTyped DEF EditInv, Save, MaySave
    <3>2. /\ Current.revision = Len(saved) /\ Current'.revision = Len(saved) + 1
          /\ Current'.entries = m.change.entries
      BY <3>1 DEF Current, ListAt, WatchlistTypeOK
    <3>3. Shared!OneEdit(Current.entries, m.change.entries)
      BY <3>1, <3>2 DEF Fit, Current
    <3>4. QED
      BY <3>2, <3>3 DEF Shared!Edit
  <2>3. CASE \E m \in wire : Serve(m) \/ Refuse(m) \/ Fail(m)
    BY <2>1, <2>2, <2>3 DEF Serve, Acknowledge, Conflict, Report, Refuse, Fail
  <2>4. CASE \E c \in Client : Edits(c) \/ Hears(c) \/ GiveUp(c) \/ Relaunch(c)
    <3>1. saved' = saved
      <4>1. ASSUME NEW c \in Client, Edits(c) PROVE saved' = saved
        BY <4>1 DEF Edits, Add, Remove, StartChange, Retry, Refresh
      <4>2. ASSUME NEW c \in Client, Hears(c) PROVE saved' = saved
        BY <4>2 DEF Hears, Confirmed, Overtaken, Rejected, Uncertain, Read, NotRead
      <4>3. ASSUME NEW c \in Client, GiveUp(c) \/ Relaunch(c) PROVE saved' = saved
        BY <4>3 DEF GiveUp, Relaunch
      <4>4. QED
        BY <2>4, <4>1, <4>2, <4>3
    <3>2. QED
      BY <2>1, <3>1
  <2>5. CASE SetClock \/ UNCHANGED vars
    BY <2>1, <2>5 DEF SetClock, vars
  <2>6. ~Restore
    BY DEF Restore, QuietInv, WatchlistTypeOK
  <2>7. QED
    BY <2>3, <2>4, <2>5, <2>6 DEF Next
<1>3. QED
  BY <1>1, <1>2, EditsHold, PTL DEF Spec, EditsAreAtomic
-----------------------------------------------------------------------------
(* The fates of changes, restores included *)

\* Change ch was started by its client: the number of a later one is higher.
Issued(ch) == ch.serial <= client[ch.by].changes

Unsaved(ch) == \A k \in DOMAIN saved : saved[k].change # ch

\* Change ch was never saved, and nothing is left that could save it.
Refused(ch) ==
    /\ Unsaved(ch)
    /\ \A m \in wire : m.change # ch
    /\ \A c \in Client : client[c].pending # ch

\* A client waits for request m and for no other.
Awaited(m) ==
    /\ client[m.by].phase # "idle" /\ answer[m.by] = None
    /\ m.change = IF client[m.by].phase = "saving" THEN client[m.by].pending ELSE None

\* A client that does not doubt is told its change was saved, or will not be
\* told anything, or its change is not saved and no one waits in vain for it.
OpenChange(c) ==
    client[c].pending # None /\ ~client[c].uncertain =>
        /\ client[c].phase = "saving"
        /\ \/ answer[c] # None /\ answer[c].status = "ok"
           \/ answer[c] = None /\ \A m \in wire : ~(m.by = c /\ m.live)
           \/ /\ Unsaved(client[c].pending)
              /\ \A m \in wire : m.change = client[c].pending => m.live

AnswersSeen == \A c \in Client : answer[c] # None => Seen(answer[c].list)
SavedIssued == \A k \in DOMAIN saved : Issued(saved[k].change)
RefusedForGood == \A ch \in fate["rejected"] : Issued(ch) /\ Refused(ch)
WireIssued == \A m \in wire : m.change # None => m.change.by = m.by /\ Issued(m.change)
WireAwaited == \A m \in wire : m.live => Awaited(m)
PendingIssued == \A c \in Client : client[c].pending # None =>
                    client[c].pending.by = c /\ Issued(client[c].pending)

FatesInv ==
    /\ WatchlistTypeOK /\ Waits
    /\ AnswersSeen /\ ConfirmedIsSaved
    /\ SavedIssued /\ RefusedForGood
    /\ WireIssued /\ WireAwaited /\ PendingIssued
    /\ \A c \in Client : OpenChange(c)

\* The server keeps the fates: what it saves was not refused to anyone.
LEMMA ServerKeepsFates ==
  ASSUME FatesInv, NEW m \in wire, Serve(m) \/ Refuse(m) \/ Fail(m)
  PROVE  FatesInv'
<1>1. /\ WatchlistTypeOK /\ m \in Request /\ Len(saved) \in Nat
      /\ Seen(Current)
  BY CurrentTyped DEF FatesInv, WatchlistTypeOK, Seen, Current, ListAt
<1>2. WatchlistTypeOK' /\ Waits'
  BY TypesHold DEF FatesInv, Next
<1>3. UNCHANGED <<client, fate>> /\ wire' = wire \ {m}
  BY DEF Serve, Save, Acknowledge, Conflict, Report, Refuse, Fail, Reply
<1>4. PICK s, l : /\ Reply(m, s, l) /\ Seen(l)' /\ [status |-> s, list |-> l] \in Answer
                  /\ \/ saved' = saved
                     \/ /\ s = "ok" /\ m.change # None
                        /\ saved' = Append(saved, [change |-> m.change, at |-> now])
  <2>1. CASE Save(m)
    <3>1. /\ saved' = Append(saved, [change |-> m.change, at |-> now])
          /\ Reply(m, "ok", SavedAs(m.change)) /\ m.change # None
      BY <2>1 DEF Save
    <3>2. PICK l : l = SavedAs(m.change)
      OBVIOUS
    <3>3. /\ Len(saved') = Len(saved) + 1
          /\ saved'[Len(saved) + 1].change = m.change
          /\ Current.revision = Len(saved)
      BY <1>1, <3>1 DEF WatchlistTypeOK, Current, ListAt
    <3>4. l = [revision |-> Len(saved) + 1, entries |-> m.change.entries]
      BY <3>2, <3>3 DEF SavedAs
    <3>5. Seen(l)'
      BY <1>1, <3>3, <3>4 DEF Seen, ListAt
    <3>6. m.change \in Change /\ [status |-> "ok", list |-> l] \in Answer
      BY <1>1, <3>1, <3>4 DEF Request, Change, List, Answer
    <3>7. QED
      BY <3>1, <3>2, <3>5, <3>6
  <2>2. CASE Acknowledge(m) \/ Conflict(m) \/ Report(m) \/ Refuse(m) \/ Fail(m)
    <3>1. saved' = saved
      BY <2>2 DEF Acknowledge, Conflict, Report, Refuse, Fail
    <3>2. PICK l : l = Current
      OBVIOUS
    <3>3. \E s \in {"ok", "changed", "rejected", "unavailable"} : Reply(m, s, l)
      BY <2>2, <3>2 DEF Acknowledge, Conflict, Report, Refuse, Fail
    <3>4. Seen(l)'
      BY <1>1, <3>1, <3>2 DEF Seen, ListAt
    <3>5. l \in List
      BY <1>1, <3>2, CurrentTyped
    <3>6. QED
      BY <3>1, <3>3, <3>4, <3>5 DEF Answer
  <2>3. QED
    BY <2>1, <2>2 DEF Serve
<1>5. /\ m.live => answer' = [answer EXCEPT ![m.by] = [status |-> s, list |-> l]]
      /\ ~m.live => answer' = answer
  BY <1>4 DEF Reply
<1>6. /\ \A c \in Client : ~(m.live /\ m.by = c) => answer'[c] = answer[c]
      /\ m.live => answer'[m.by] = [status |-> s, list |-> l]
  BY <1>1, <1>5 DEF WatchlistTypeOK, Request
<1>7. /\ \A x : Seen(x) => Seen(x)'
      /\ Len(saved) <= Len(saved')
      /\ \A k \in 1..Len(saved) : saved'[k] = saved[k]
      /\ \A k \in DOMAIN saved' : \/ k \in DOMAIN saved /\ saved'[k] = saved[k]
                                  \/ saved' # saved /\ saved'[k].change = m.change
  <2>1. \A x : Seen(x) => Seen(x)'
    BY <1>1, <1>4, SavedStays
  <2> DEFINE S == [change: Change, at: Nat]
             e == [change |-> m.change, at |-> now]
  <2>2. saved' = saved \/ (saved' = Append(saved, e) /\ e \in S)
    BY <1>1, <1>4 DEF WatchlistTypeOK, Request
  <2>3. saved \in Seq(S) /\ e.change = m.change
    BY <1>1 DEF WatchlistTypeOK
  <2> HIDE DEF S, e
  <2>4. CASE saved' = saved
    BY <1>1, <2>1, <2>3, <2>4
  <2>5. CASE saved' = Append(saved, e) /\ e \in S
    <3>1. /\ Len(saved') = Len(saved) + 1 /\ DOMAIN saved = 1..Len(saved)
          /\ DOMAIN saved' = 1..(Len(saved) + 1)
          /\ saved'[Len(saved) + 1] = e /\ \A k \in 1..Len(saved) : saved'[k] = saved[k]
      BY <2>3, <2>5
    <3>2. saved' # saved
      BY <1>1, <3>1
    <3>3. QED
      BY <1>1, <2>1, <2>3, <3>1, <3>2
  <2>6. QED
    BY <2>2, <2>4, <2>5
<1>8. AnswersSeen'
  <2>1. SUFFICES ASSUME NEW c \in Client, answer'[c] # None PROVE Seen(answer[c].list)'
    BY DEF AnswersSeen
  <2>2. PICK x : x = answer'[c].list
    OBVIOUS
  <2>3. Seen(x)'
    <3>1. CASE m.live /\ m.by = c
      BY <1>4, <1>6, <2>2, <3>1
    <3>2. CASE ~(m.live /\ m.by = c)
      BY <1>6, <1>7, <2>1, <2>2, <3>2 DEF FatesInv, AnswersSeen
    <3>3. QED
      BY <3>1, <3>2
  <2>4. QED
    BY <2>2, <2>3 DEF Seen, ListAt
<1>9. ConfirmedIsSaved'
  <2>1. \A ch \in fate["confirmed"] : ch.expected \in Nat
    BY <1>1 DEF WatchlistTypeOK, Change
  <2>2. QED
    BY <1>1, <1>3, <1>7, <2>1 DEF FatesInv, ConfirmedIsSaved
<1>10. \A ch : Issued(ch)' <=> Issued(ch)
  BY <1>3 DEF Issued
<1>11. SavedIssued'
  <2>1. SUFFICES ASSUME NEW k \in DOMAIN saved', NEW x, x = saved'[k].change PROVE Issued(x)'
    BY DEF SavedIssued, Issued
  <2>2. CASE k \in DOMAIN saved /\ saved'[k] = saved[k]
    BY <1>10, <2>1, <2>2 DEF FatesInv, SavedIssued
  <2>3. CASE saved' # saved /\ x = m.change
    BY <1>4, <1>10, <2>1, <2>3 DEF FatesInv, WireIssued
  <2>4. QED
    BY <1>7, <2>1, <2>2, <2>3
<1>12. RefusedForGood'
  <2>1. SUFFICES ASSUME NEW ch \in fate["rejected"] PROVE Issued(ch)' /\ Refused(ch)'
    BY <1>3 DEF RefusedForGood
  <2>2. Issued(ch) /\ Refused(ch)
    BY DEF FatesInv, RefusedForGood
  <2>3. Unsaved(ch)'
    BY <1>7, <2>2 DEF Unsaved, Refused
  <2>4. QED
    BY <1>3, <1>10, <2>2, <2>3 DEF Refused
<1>13. WireIssued'
  BY <1>3 DEF FatesInv, WireIssued, Issued
<1>14. WireAwaited'
  <2>1. SUFFICES ASSUME NEW r \in wire, r # m, r.live PROVE Awaited(r)'
    BY <1>3 DEF WireAwaited
  <2>2. r \in Request /\ Awaited(r)
    BY <2>1 DEF FatesInv, WireAwaited, WatchlistTypeOK
  <2>3. ~(m.live /\ m.by = r.by)
    <3>1. SUFFICES ASSUME m.live, m.by = r.by PROVE FALSE
      OBVIOUS
    <3>2. Awaited(m)
      BY <3>1 DEF FatesInv, WireAwaited
    <3>3. m.change = r.change /\ m.live = r.live
      BY <1>1, <2>1, <2>2, <3>1, <3>2 DEF Awaited, Request
    <3>4. m = r
      BY <1>1, <2>2, <3>1, <3>3 DEF Request
    <3>5. QED
      BY <2>1, <3>4
  <2>4. answer'[r.by] = answer[r.by]
    BY <1>6, <2>2, <2>3 DEF Request
  <2>5. QED
    BY <1>3, <2>2, <2>4 DEF Awaited
<1>15. \A c \in Client : OpenChange(c)'
  <2>1. SUFFICES ASSUME NEW c \in Client, NEW p, p = client[c].pending, p # None,
                        ~client[c].uncertain
                 PROVE  /\ client[c].phase = "saving"
                        /\ \/ answer'[c] # None /\ answer'[c].status = "ok"
                           \/ answer'[c] = None /\ \A r \in wire' : ~(r.by = c /\ r.live)
                           \/ Unsaved(p)' /\ \A r \in wire' : r.change = p => r.live
    BY <1>3 DEF OpenChange, Unsaved
  <2>2. /\ client[c].phase = "saving"
        /\ \/ answer[c] # None /\ answer[c].status = "ok"
           \/ answer[c] = None /\ \A r \in wire : ~(r.by = c /\ r.live)
           \/ Unsaved(p) /\ \A r \in wire : r.change = p => r.live
    BY <2>1 DEF FatesInv, OpenChange
  <2>3. p.by = c
    BY <2>1 DEF FatesInv, PendingIssued
  <2>4. CASE ~(m.live /\ m.by = c)
    <3>1. answer'[c] = answer[c]
      BY <1>6, <2>4
    <3>2. (\A r \in wire : r.change = p => r.live) => m.change # p
      BY <2>1, <2>3, <2>4 DEF FatesInv, WireIssued
    <3>3. Unsaved(p) /\ (\A r \in wire : r.change = p => r.live) => Unsaved(p)'
      BY <1>7, <3>2 DEF Unsaved
    <3>4. QED
      BY <1>3, <2>2, <3>1, <3>3
  <2>5. CASE m.live /\ m.by = c
    <3>1. answer[c] = None /\ answer'[c].status = s
      BY <1>6, <2>5 DEF FatesInv, WireAwaited, Awaited
    <3>2. Unsaved(p) /\ \A r \in wire : r.change = p => r.live
      BY <2>2, <2>5, <3>1
    <3>3. CASE saved' = saved
      BY <1>3, <2>2, <3>2, <3>3 DEF Unsaved
    <3>4. CASE s = "ok"
      <4>1. answer'[c] # None
        <5>1. answer'[c] = [status |-> s, list |-> l]
          BY <1>6, <2>5
        <5>2. QED
          BY <1>4, <5>1, NoneAssumption
      <4>2. QED
        BY <2>2, <3>1, <3>4, <4>1
    <3>5. QED
      BY <1>4, <3>3, <3>4
  <2>6. QED
    BY <2>4, <2>5
<1>16. PendingIssued'
  BY <1>3 DEF FatesInv, PendingIssued, Issued
<1>17. QED
  BY <1>2, <1>8, <1>9, <1>11, <1>12, <1>13, <1>14, <1>15, <1>16 DEF FatesInv

\* A change that is on the wire, or open with its client, was issued with its
\* client's name.
LEMMA OnesChange ==
  ASSUME FatesInv, NEW c \in Client, client[c].pending # None
  PROVE  client[c].pending \in Change /\ client[c].pending.by = c
  BY DEF FatesInv, WatchlistTypeOK, Controller, PendingIssued

\* What a controller may leave on the wire: the requests of others, its own
\* that are not waited for any more, and the new one it waits for.
Leaves(c, m) ==
    \/ m \in wire /\ ~(m.by = c /\ m.live)
    \/ /\ m.by = c /\ ~m.live
       /\ \E r \in wire : r.by = c /\ r.change # None /\ r.change = m.change

Asks(c, m) ==
    /\ m.by = c /\ m.live
    /\ client'[c].phase # "idle"
    /\ m.change = IF client'[c].phase = "saving" THEN client'[c].pending ELSE None

\* A controller keeps the fates if its new change is new and what it tells is true.
LEMMA ClientKeepsFates ==
  ASSUME FatesInv, WatchlistTypeOK', Waits', NEW c \in Client, saved' = saved,
         \A d \in Client : d # c => client'[d] = client[d] /\ answer'[d] = answer[d],
         answer'[c] = None,
         client'[c].changes >= client[c].changes,
         client'[c].pending # None =>
            /\ client'[c].pending.by = c
            /\ client'[c].pending.serial <= client'[c].changes,
         \A x \in fate["rejected"] : client'[c].pending # x,
         ConfirmedIsSaved',
         \A x \in fate'["rejected"] \ fate["rejected"] :
            /\ x = client[c].pending /\ Unsaved(x)
            /\ \A m \in wire' : m.change # x
            /\ client'[c].pending # x,
         \A m \in wire' : Leaves(c, m) \/ Asks(c, m),
         OpenChange(c)'
  PROVE  FatesInv'
<1>1. /\ WatchlistTypeOK /\ client[c] \in Controller /\ client'[c] \in Controller
      /\ \A m \in wire : m \in Request
      /\ \A m \in wire' : m \in Request
  BY DEF FatesInv, WatchlistTypeOK
<1>2. \A ch \in Change : Issued(ch) => Issued(ch)'
  <2>1. SUFFICES ASSUME NEW ch \in Change, ch.serial <= client[ch.by].changes
                 PROVE  ch.serial <= client'[ch.by].changes
    BY DEF Issued
  <2>2. ch.by \in Client /\ ch.serial \in Nat
    BY DEF Change
  <2>3. CASE ch.by = c
    BY <1>1, <2>1, <2>2, <2>3 DEF Controller
  <2>4. CASE ch.by # c
    BY <2>1, <2>2, <2>4
  <2>5. QED
    BY <2>3, <2>4
<1>3. AnswersSeen'
  <2>1. SUFFICES ASSUME NEW d \in Client, answer'[d] # None PROVE Seen(answer[d].list)'
    BY DEF AnswersSeen
  <2>2. answer'[d] = answer[d] /\ Seen(answer[d].list)
    BY <2>1 DEF FatesInv, AnswersSeen
  <2>3. QED
    BY <2>2 DEF Seen, ListAt
<1>4. SavedIssued'
  <2>1. SUFFICES ASSUME NEW k \in DOMAIN saved, NEW x, x = saved[k].change PROVE Issued(x)'
    BY DEF SavedIssued, Issued
  <2>2. x \in Change
    <3> DEFINE S == [change: Change, at: Nat]
    <3>1. saved \in Seq(S)
      BY <1>1 DEF WatchlistTypeOK
    <3> HIDE DEF S
    <3>2. saved[k] \in S
      BY <3>1
    <3>3. QED
      BY <2>1, <3>2 DEF S
  <2>3. QED
    BY <1>2, <2>1, <2>2 DEF FatesInv, SavedIssued
<1>5. \A x \in fate["rejected"] : x \in Change
  BY <1>1 DEF WatchlistTypeOK
<1>6. \A m \in wire' : m.change # None => m.change.by = m.by /\ m.change \in Change
  <2>1. SUFFICES ASSUME NEW m \in wire', m.change # None PROVE m.change.by = m.by
    BY <1>1, <2>1 DEF Request
  <2>2. CASE Leaves(c, m)
    BY <2>1, <2>2 DEF FatesInv, WireIssued, Leaves
  <2>3. CASE Asks(c, m)
    BY <2>1, <2>3 DEF Asks
  <2>4. QED
    BY <2>2, <2>3
<1>7. RefusedForGood'
  <2>1. SUFFICES ASSUME NEW x \in fate'["rejected"] PROVE Issued(x)' /\ Refused(x)'
    BY DEF RefusedForGood
  <2>2. CASE x \in fate["rejected"]
    <3>1. Issued(x) /\ Refused(x) /\ x \in Change /\ x # None
      BY <1>5, <2>2, NoneAssumption DEF FatesInv, RefusedForGood
    <3>2. \A m \in wire' : m.change # x
      <4>1. SUFFICES ASSUME NEW m \in wire' PROVE m.change # x
        OBVIOUS
      <4>2. CASE Leaves(c, m)
        BY <3>1, <4>2 DEF Leaves, Refused
      <4>3. CASE Asks(c, m)
        BY <2>2, <3>1, <4>3 DEF Asks
      <4>4. QED
        BY <4>2, <4>3
    <3>3. \A d \in Client : client'[d].pending # x
      BY <2>2, <3>1 DEF Refused
    <3>4. QED
      BY <1>2, <3>1, <3>2, <3>3 DEF Refused, Unsaved
  <2>3. CASE x \notin fate["rejected"]
    <3>1. /\ x = client[c].pending /\ Unsaved(x) /\ client'[c].pending # x
          /\ \A m \in wire' : m.change # x
          /\ x \in Change /\ x # None
      BY <2>1, <2>3, NoneAssumption DEF WatchlistTypeOK
    <3>2. Issued(x)
      BY <3>1 DEF FatesInv, PendingIssued
    <3>3. \A d \in Client : client'[d].pending # x
      <4>1. SUFFICES ASSUME NEW d \in Client, d # c PROVE client[d].pending # x
        BY <3>1
      <4>2. QED
        BY <3>1, <4>1, OnesChange
    <3>4. QED
      BY <1>2, <3>1, <3>2, <3>3 DEF Refused, Unsaved
  <2>4. QED
    BY <2>2, <2>3
<1>8. WireIssued'
  <2>1. SUFFICES ASSUME NEW m \in wire', m.change # None, NEW x, x = m.change
                 PROVE  x.by = m.by /\ Issued(x)'
    BY DEF WireIssued, Issued
  <2>2. x \in Change /\ x.by = m.by
    BY <1>6, <2>1
  <2>3. CASE Leaves(c, m)
    BY <1>2, <2>1, <2>2, <2>3 DEF FatesInv, WireIssued, Leaves
  <2>4. CASE Asks(c, m)
    BY <2>1, <2>2, <2>4 DEF Asks, Issued
  <2>5. QED
    BY <2>2, <2>3, <2>4
<1>9. WireAwaited'
  <2>1. SUFFICES ASSUME NEW m \in wire', m.live PROVE Awaited(m)'
    BY DEF WireAwaited
  <2>2. CASE Leaves(c, m)
    <3>1. m \in wire /\ m.by \in Client /\ m.by # c
      BY <1>1, <2>1, <2>2 DEF Leaves, Request
    <3>2. Awaited(m)
      BY <2>1, <3>1 DEF FatesInv, WireAwaited
    <3>3. QED
      BY <3>1, <3>2 DEF Awaited
  <2>3. CASE Asks(c, m)
    BY <2>3 DEF Asks, Awaited
  <2>4. QED
    BY <2>2, <2>3
<1>10. PendingIssued'
  <2>1. SUFFICES ASSUME NEW d \in Client, client'[d].pending # None, NEW x, x = client'[d].pending
                 PROVE  x.by = d /\ Issued(x)'
    BY DEF PendingIssued, Issued
  <2>2. CASE d = c
    BY <2>1, <2>2 DEF Issued
  <2>3. CASE d # c
    BY <1>2, <2>1, <2>3, OnesChange DEF FatesInv, PendingIssued
  <2>4. QED
    BY <2>2, <2>3
<1>11. ASSUME NEW d \in Client PROVE OpenChange(d)'
  <2>1. CASE d = c
    BY <2>1
  <2>2. CASE d # c
    <3>1. SUFFICES ASSUME NEW p, p = client[d].pending, p # None, ~client[d].uncertain
                   PROVE  /\ client[d].phase = "saving"
                          /\ \/ answer[d] # None /\ answer[d].status = "ok"
                             \/ answer[d] = None /\ \A m \in wire' : ~(m.by = d /\ m.live)
                             \/ Unsaved(p) /\ \A m \in wire' : m.change = p => m.live
      BY <2>2 DEF OpenChange, Unsaved
    <3>2. /\ client[d].phase = "saving"
          /\ \/ answer[d] # None /\ answer[d].status = "ok"
             \/ answer[d] = None /\ \A m \in wire : ~(m.by = d /\ m.live)
             \/ Unsaved(p) /\ \A m \in wire : m.change = p => m.live
      BY <3>1 DEF FatesInv, OpenChange
    <3>3. p.by = d
      BY <3>1, OnesChange
    <3>4. \A m \in wire' : m.by = d => m \in wire
      BY <2>2 DEF Leaves, Asks
    <3>5. \A m \in wire' : m.change = p => m \in wire
      BY <1>6, <3>1, <3>3, <3>4
    <3>6. QED
      BY <3>2, <3>4, <3>5
  <2>3. QED
    BY <2>1, <2>2
<1>12. QED
  BY <1>3, <1>4, <1>7, <1>8, <1>9, <1>10, <1>11 DEF FatesInv

\* What a controller leaves on the wire when it sends a request and nothing of
\* its own is waited for.
LEMMA SendLeaves ==
  ASSUME FatesInv, WatchlistTypeOK', NEW c \in Client, NEW ch, Send(c, ch),
         client[c].phase = "idle" \/ answer[c] # None,
         client'[c].phase # "idle",
         ch = IF client'[c].phase = "saving" THEN client'[c].pending ELSE None
  PROVE  /\ answer'[c] = None
         /\ \A d \in Client : d # c => answer'[d] = answer[d]
         /\ \A m \in wire : ~(m.by = c /\ m.live)
         /\ \A m \in wire' : m \in wire \/ Asks(c, m)
         /\ \A m \in wire' : Leaves(c, m) \/ Asks(c, m)
<1>1. answer' = [answer EXCEPT ![c] = None] /\ answer \in [Client -> Answer \cup {None}]
  BY DEF Send, FatesInv, WatchlistTypeOK
<1>2. \A m \in wire : ~(m.by = c /\ m.live)
  BY DEF FatesInv, WireAwaited, Awaited
<1>3. PICK r : r = [by |-> c, change |-> ch, live |-> TRUE]
  OBVIOUS
<1>4. wire' = wire \cup {r} /\ Asks(c, r)
  BY <1>3 DEF Send, Asks
<1>5. QED
  BY <1>1, <1>2, <1>4 DEF Leaves

\* Nothing that was started so far is the next change of client c.
LEMMA NextIsNew ==
  ASSUME FatesInv, NEW c \in Client, NEW ch, ch.by = c, ch.serial = client[c].changes + 1
  PROVE  ~Issued(ch)
<1>1. client[c].changes \in Nat
  BY DEF FatesInv, WatchlistTypeOK, Controller
<1>2. QED
  BY <1>1 DEF Issued

LEMMA EditsKeepFates ==
  ASSUME FatesInv, NEW c \in Client, Edits(c)
  PROVE  FatesInv'
<1>1. /\ WatchlistTypeOK /\ client[c] \in Controller /\ WatchlistTypeOK' /\ Waits'
  BY TypesHold DEF FatesInv, WatchlistTypeOK, Next
<1>2. ASSUME NEW l \in SUBSET Entry, StartChange(c, l) PROVE FatesInv'
  <2>1. PICK ch : ch = [by |-> c, serial |-> client[c].changes + 1,
                        expected |-> client[c].shown.revision, entries |-> l]
    OBVIOUS
  <2>2. /\ client[c].phase = "idle" /\ saved' = saved /\ fate' = fate
        /\ client' = [client EXCEPT ![c].pending = ch, ![c].uncertain = FALSE,
                                    ![c].phase = "saving", ![c].changes = ch.serial]
        /\ Send(c, ch) /\ client[c].shown \in List
    BY <1>1, <1>2, <2>1 DEF StartChange, CanEdit, IsIdle, Controller
  <2>3. /\ client'[c].pending = ch /\ ~client'[c].uncertain /\ client'[c].phase = "saving"
        /\ client'[c].changes = ch.serial
        /\ \A d \in Client : d # c => client'[d] = client[d]
    BY <1>1, <2>2 DEF WatchlistTypeOK, Controller
  <2>4. ch.by = c /\ ch.serial = client[c].changes + 1 /\ client[c].changes \in Nat /\ ch # None
    <3>1. ch \in Change
      BY <1>1, <2>1, <2>2 DEF Change, List, Controller
    <3>2. QED
      BY <1>1, <2>1, <3>1, NoneAssumption DEF Controller
  <2>5. ~Issued(ch)
    BY <2>4, NextIsNew
  <2>6. /\ answer'[c] = None
        /\ \A d \in Client : d # c => answer'[d] = answer[d]
        /\ \A m \in wire' : m \in wire \/ Asks(c, m)
        /\ \A m \in wire' : Leaves(c, m) \/ Asks(c, m)
    BY <1>1, <2>2, <2>3, SendLeaves
  <2>7. \A x \in fate["rejected"] : x # ch
    BY <2>5 DEF FatesInv, RefusedForGood
  <2>8. Unsaved(ch)
    BY <2>5 DEF FatesInv, SavedIssued, Unsaved
  <2>9. \A m \in wire' : m.change = ch => m.live
    BY <2>4, <2>5, <2>6 DEF FatesInv, WireIssued, Asks
  <2>10. OpenChange(c)'
    BY <2>2, <2>3, <2>8, <2>9 DEF OpenChange, Unsaved
  <2>11. ConfirmedIsSaved'
    BY <2>2 DEF FatesInv, ConfirmedIsSaved
  <2>12. client'[c].changes >= client[c].changes
    BY <2>3, <2>4
  <2>13. client'[c].pending.by = c /\ client'[c].pending.serial <= client'[c].changes
    BY <2>3, <2>4
  <2>14. \A x \in fate["rejected"] : client'[c].pending # x
    BY <2>3, <2>7
  <2>15. QED
    BY <1>1, <2>2, <2>3, <2>6, <2>10, <2>11, <2>12, <2>13, <2>14, ClientKeepsFates
<1>3. CASE Add(c) \/ Remove(c)
  <2>1. client[c].shown \in List
    BY <1>1, <1>3 DEF Add, Remove, CanEdit, Controller
  <2>2. QED
    BY <1>2, <1>3, <2>1 DEF Add, Remove, List
<1>4. CASE Retry(c) \/ Refresh(c)
  <2>1. /\ client[c].phase = "idle" /\ saved' = saved /\ fate' = fate
        /\ client'[c].pending = client[c].pending
        /\ client'[c].uncertain = client[c].uncertain
        /\ client'[c].changes = client[c].changes
        /\ client'[c].phase \in {"saving", "reading"}
        /\ \A d \in Client : d # c => client'[d] = client[d]
    BY <1>1, <1>4 DEF Retry, Refresh, IsIdle, WatchlistTypeOK, Controller
  <2>2. PICK ch : /\ Send(c, ch)
                  /\ ch = IF client'[c].phase = "saving" THEN client'[c].pending ELSE None
    <3>1. CASE Retry(c)
      <4>1. client'[c].phase = "saving" /\ Send(c, client[c].pending)
        BY <1>1, <3>1 DEF Retry, WatchlistTypeOK, Controller
      <4>2. QED
        BY <2>1, <4>1
    <3>2. CASE Refresh(c)
      <4>1. client'[c].phase = "reading" /\ Send(c, None)
        BY <1>1, <3>2 DEF Refresh, WatchlistTypeOK, Controller
      <4>2. QED
        BY <4>1
    <3>3. QED
      BY <1>4, <3>1, <3>2
  <2>3. /\ answer'[c] = None
        /\ \A d \in Client : d # c => answer'[d] = answer[d]
        /\ \A m \in wire' : Leaves(c, m) \/ Asks(c, m)
    BY <1>1, <2>1, <2>2, SendLeaves
  <2>4. client[c].pending # None => client[c].uncertain
    BY <2>1 DEF FatesInv, OpenChange
  <2>5. OpenChange(c)'
    BY <2>1, <2>4 DEF OpenChange
  <2>6. ConfirmedIsSaved'
    BY <2>1 DEF FatesInv, ConfirmedIsSaved
  <2>7. client'[c].changes >= client[c].changes
    BY <1>1, <2>1 DEF Controller
  <2>8. client'[c].pending # None =>
          client'[c].pending.by = c /\ client'[c].pending.serial <= client'[c].changes
    BY <2>1 DEF FatesInv, PendingIssued, Issued
  <2>9. \A x \in fate["rejected"] : client'[c].pending # x
    BY <2>1 DEF FatesInv, RefusedForGood, Refused
  <2>10. QED
    BY <1>1, <2>1, <2>3, <2>5, <2>6, <2>7, <2>8, <2>9, ClientKeepsFates
<1>5. QED
  BY <1>3, <1>4 DEF Edits

LEMMA HearsKeepFates ==
  ASSUME FatesInv, NEW c \in Client, Hears(c)
  PROVE  FatesInv'
<1>1. /\ WatchlistTypeOK /\ client[c] \in Controller /\ WatchlistTypeOK' /\ Waits' /\ Waits
      /\ saved' = saved /\ answer[c] # None
  BY TypesHold DEF FatesInv, WatchlistTypeOK, Next, Hears, Confirmed, Overtaken, Rejected,
                   Uncertain, Read, NotRead, Saving
<1>2. \A m \in wire : ~(m.by = c /\ m.live)
  BY <1>1 DEF FatesInv, WireAwaited, Awaited
<1>3. PICK p : p = client[c].pending
  OBVIOUS
<1>4. p # None => p \in Change /\ p.by = c
  BY <1>3, OnesChange
\* A change without doubt that no answer confirms will never be saved.
<1>5. ASSUME client[c].phase = "saving", ~client[c].uncertain, answer[c].status # "ok"
      PROVE  p # None /\ Unsaved(p) /\ \A m \in wire : m.change # p
  <2>1. p # None
    BY <1>1, <1>3, <1>5 DEF Waits
  <2>2. Unsaved(p) /\ \A m \in wire : m.change = p => m.live
    BY <1>1, <1>3, <1>5, <2>1 DEF FatesInv, OpenChange
  <2>3. \A m \in wire : m.change = p => m.by = c
    BY <1>4, <2>1 DEF FatesInv, WireIssued
  <2>4. QED
    BY <1>2, <2>1, <2>2, <2>3
<1>6. /\ \A d \in Client : d # c => client'[d] = client[d]
      /\ client'[c].changes = client[c].changes
      /\ client'[c].phase \in {"reading", "idle"}
      /\ \/ client'[c].pending = p
         \/ client'[c].pending = None
  <2>1. CASE Confirmed(c)
    BY <1>1, <1>3, <2>1 DEF Confirmed, Saving, WatchlistTypeOK, Controller
  <2>2. CASE Overtaken(c)
    <3>1. \/ client' = [client EXCEPT ![c].reload = TRUE, ![c].phase = "reading"]
          \/ client' = [client EXCEPT ![c].reload = TRUE, ![c].phase = "reading",
                                      ![c].pending = None]
      BY <2>2 DEF Overtaken
    <3>2. QED
      BY <1>1, <1>3, <3>1 DEF WatchlistTypeOK, Controller
  <2>3. CASE Rejected(c) \/ NotRead(c)
    BY <1>1, <1>3, <2>3 DEF Rejected, NotRead, WatchlistTypeOK, Controller
  <2>4. CASE Uncertain(c)
    BY <1>1, <1>3, <2>4 DEF Uncertain, Doubt, WatchlistTypeOK, Controller
  <2>5. CASE Read(c)
    BY <1>1, <1>3, <2>5 DEF Read, WatchlistTypeOK, Controller
  <2>6. QED
    BY <2>1, <2>2, <2>3, <2>4, <2>5 DEF Hears
<1>7. client'[c].pending # None => client'[c].uncertain
  <2>1. CASE Confirmed(c) \/ Rejected(c)
    BY <1>1, <2>1 DEF Confirmed, Rejected, Saving, WatchlistTypeOK, Controller
  <2>2. CASE Overtaken(c)
    <3>1. CASE client[c].uncertain
      <4>1. client' = [client EXCEPT ![c].reload = TRUE, ![c].phase = "reading"]
        BY <2>2, <3>1 DEF Overtaken
      <4>2. QED
        BY <1>1, <3>1, <4>1 DEF WatchlistTypeOK, Controller
    <3>2. CASE ~client[c].uncertain
      <4>1. client' = [client EXCEPT ![c].reload = TRUE, ![c].phase = "reading",
                                     ![c].pending = None]
        BY <2>2, <3>2 DEF Overtaken
      <4>2. QED
        BY <1>1, <4>1 DEF WatchlistTypeOK, Controller
    <3>3. QED
      BY <3>1, <3>2
  <2>3. CASE Uncertain(c)
    BY <1>1, <2>3 DEF Uncertain, Doubt, WatchlistTypeOK, Controller
  <2>4. CASE Read(c) \/ NotRead(c)
    <3>1. client[c].phase # "saving"
      BY <2>4 DEF Read, NotRead
    <3>2. client[c].pending # None => client[c].uncertain
      BY <3>1 DEF FatesInv, OpenChange
    <3>3. CASE NotRead(c)
      BY <1>1, <3>2, <3>3 DEF NotRead, WatchlistTypeOK, Controller
    <3>4. CASE Read(c)
      <4> DEFINE done == client[c].pending # None /\ Settles(answer[c].list, client[c].pending)
      <4>1. CASE done
        BY <1>1, <3>4, <4>1 DEF Read, WatchlistTypeOK, Controller
      <4>2. CASE ~done
        BY <1>1, <3>2, <3>4, <4>2 DEF Read, WatchlistTypeOK, Controller
      <4>3. QED
        BY <4>1, <4>2
    <3>5. QED
      BY <2>4, <3>3, <3>4
  <2>5. QED
    BY <2>1, <2>2, <2>3, <2>4 DEF Hears
<1>8. OpenChange(c)'
  BY <1>7 DEF OpenChange
<1>9. /\ answer'[c] = None
      /\ \A d \in Client : d # c => answer'[d] = answer[d]
      /\ \A m \in wire' : Leaves(c, m) \/ Asks(c, m)
      /\ \A m \in wire' : m \in wire \/ m.change = None
  <2>1. CASE Confirmed(c) \/ Overtaken(c)
    <3>1. Send(c, None)
      BY <2>1 DEF Confirmed, Overtaken
    <3>2. client'[c].phase = "reading"
      <4>1. CASE Confirmed(c)
        BY <1>1, <4>1 DEF Confirmed, WatchlistTypeOK, Controller
      <4>2. CASE Overtaken(c)
        <5>1. \/ client' = [client EXCEPT ![c].reload = TRUE, ![c].phase = "reading"]
              \/ client' = [client EXCEPT ![c].reload = TRUE, ![c].phase = "reading",
                                          ![c].pending = None]
          BY <4>2 DEF Overtaken
        <5>2. QED
          BY <1>1, <5>1 DEF WatchlistTypeOK, Controller
      <4>3. QED
        BY <2>1, <4>1, <4>2
    <3>3. QED
      BY <1>1, <3>1, <3>2, SendLeaves DEF Asks
  <2>2. CASE Rejected(c) \/ Uncertain(c) \/ Read(c) \/ NotRead(c)
    <3>1. Take(c)
      BY <2>2 DEF Rejected, Uncertain, Read, NotRead
    <3>2. QED
      BY <1>1, <1>2, <3>1 DEF Take, Leaves, WatchlistTypeOK
  <2>3. QED
    BY <2>1, <2>2 DEF Hears
<1>10. ConfirmedIsSaved' /\ \A x \in fate'["rejected"] \ fate["rejected"] :
          /\ x = p /\ Unsaved(x) /\ client'[c].pending = None /\ p # None
          /\ \A m \in wire : m.change # x
  <2>1. fate \in [{"confirmed", "rejected", "forgotten"} -> SUBSET Change]
    BY <1>1 DEF WatchlistTypeOK
  <2>2. CASE fate' = fate
    BY <1>1, <2>2 DEF FatesInv, ConfirmedIsSaved
  <2>3. CASE Confirmed(c)
    <3>1. /\ fate'["confirmed"] = fate["confirmed"] \cup {p} /\ fate'["rejected"] = fate["rejected"]
          /\ answer[c].status = "ok" /\ answer[c].list.revision = p.expected + 1
          /\ answer[c].list.entries = p.entries /\ p # None
      BY <1>1, <1>3, <2>1, <2>3 DEF Confirmed, Confirms, Told, Saving, Waits
    <3>2. p.expected \in Nat
      BY <1>4, <3>1 DEF Change
    <3>3. PICK l : l = answer[c].list
      OBVIOUS
    <3>4. Seen(l)
      BY <1>1, <3>3 DEF FatesInv, AnswersSeen
    <3>5. /\ p.expected + 1 \in 0..Len(saved) /\ Len(saved) \in Nat
          /\ l = ListAt(p.expected + 1)
      BY <1>1, <3>1, <3>3, <3>4 DEF Seen, WatchlistTypeOK
    <3>6. p.expected < Len(saved) /\ saved[p.expected + 1].change.entries = p.entries
      BY <3>1, <3>2, <3>3, <3>5 DEF ListAt
    <3>7. QED
      BY <1>1, <3>1, <3>6 DEF FatesInv, ConfirmedIsSaved
  <2>4. CASE fate' # fate /\ (Overtaken(c) \/ Rejected(c))
    <3>1. /\ client[c].phase = "saving" /\ ~client[c].uncertain /\ answer[c].status # "ok"
          /\ Told(c, "rejected")
      BY <2>4 DEF Overtaken, Rejected, Saving
    <3>2. client'[c].pending = None
      <4>1. CASE Rejected(c)
        BY <1>1, <4>1 DEF Rejected, WatchlistTypeOK, Controller
      <4>2. CASE Overtaken(c)
        <5>1. client' = [client EXCEPT ![c].reload = TRUE, ![c].phase = "reading",
                                       ![c].pending = None]
          BY <3>1, <4>2 DEF Overtaken
        <5>2. QED
          BY <1>1, <5>1 DEF WatchlistTypeOK, Controller
      <4>3. QED
        BY <2>4, <4>1, <4>2
    <3>3. /\ fate'["confirmed"] = fate["confirmed"]
          /\ fate'["rejected"] = fate["rejected"] \cup {p}
      BY <1>3, <2>1, <3>1 DEF Told
    <3>4. ConfirmedIsSaved'
      BY <1>1, <3>3 DEF FatesInv, ConfirmedIsSaved
    <3>5. QED
      BY <1>5, <3>1, <3>2, <3>3, <3>4
  <2>5. Uncertain(c) \/ Read(c) \/ NotRead(c) => fate' = fate
    BY DEF Uncertain, Read, NotRead
  <2>6. QED
    BY <2>2, <2>3, <2>4, <2>5 DEF Hears
<1>11. \A x \in fate'["rejected"] \ fate["rejected"] :
          /\ x = client[c].pending /\ Unsaved(x)
          /\ \A m \in wire' : m.change # x
          /\ client'[c].pending # x
  BY <1>3, <1>9, <1>10
<1>12. client'[c].changes >= client[c].changes
  BY <1>1, <1>6 DEF Controller
<1>13. client'[c].pending # None =>
          client'[c].pending.by = c /\ client'[c].pending.serial <= client'[c].changes
  BY <1>3, <1>6 DEF FatesInv, PendingIssued, Issued
<1>14. \A x \in fate["rejected"] : client'[c].pending # x
  <2>1. \A x \in fate["rejected"] : x # None
    BY <1>1, NoneAssumption DEF WatchlistTypeOK
  <2>2. QED
    BY <1>3, <1>6, <2>1 DEF FatesInv, RefusedForGood, Refused
<1>15. QED
  BY <1>1, <1>6, <1>8, <1>9, <1>10, <1>11, <1>12, <1>13, <1>14, ClientKeepsFates

LEMMA LeavesKeepFates ==
  ASSUME FatesInv, NEW c \in Client, GiveUp(c) \/ Relaunch(c)
  PROVE  FatesInv'
<1>1. /\ WatchlistTypeOK /\ client[c] \in Controller /\ WatchlistTypeOK' /\ Waits'
      /\ saved' = saved
  BY TypesHold DEF FatesInv, WatchlistTypeOK, Next, GiveUp, Relaunch
<1>2. /\ answer'[c] = None
      /\ \A d \in Client : d # c => answer'[d] = answer[d]
  BY <1>1 DEF GiveUp, Relaunch, WatchlistTypeOK
<1>3. \A m \in wire' : Leaves(c, m)
  <2>1. \A r \in wire : /\ [r EXCEPT !.live = FALSE].change = r.change
                        /\ [r EXCEPT !.live = FALSE].by = r.by
                        /\ [r EXCEPT !.live = FALSE].live = FALSE
    BY <1>1 DEF WatchlistTypeOK, Request
  <2>2. wire' = {m \in wire : ~(m.by = c /\ m.live)} \cup
                {[m EXCEPT !.live = FALSE] : m \in {r \in wire : r.by = c /\ r.change # None}}
    BY DEF GiveUp, Relaunch
  <2>3. QED
    BY <2>1, <2>2 DEF Leaves
<1>4. /\ \A d \in Client : d # c => client'[d] = client[d]
      /\ client'[c].changes = client[c].changes
      /\ client'[c].pending \in {client[c].pending, None}
      /\ client'[c].pending # None => client'[c].uncertain
  <2>1. CASE Relaunch(c)
    BY <1>1, <2>1 DEF Relaunch, Blank, WatchlistTypeOK, Controller
  <2>2. CASE GiveUp(c) /\ client[c].phase = "saving"
    <3>1. client' = [client EXCEPT ![c].uncertain = TRUE, ![c].phase = "idle"]
      BY <2>2 DEF GiveUp, Doubt
    <3>2. QED
      BY <1>1, <3>1 DEF WatchlistTypeOK, Controller
  <2>3. CASE GiveUp(c) /\ client[c].phase # "saving"
    <3>1. client' = [client EXCEPT ![c].phase = "idle"]
      BY <2>3 DEF GiveUp
    <3>2. client[c].pending # None => client[c].uncertain
      BY <2>3 DEF FatesInv, OpenChange
    <3>3. QED
      BY <1>1, <3>1, <3>2 DEF WatchlistTypeOK, Controller
  <2>4. QED
    BY <2>1, <2>2, <2>3
<1>5. OpenChange(c)'
  BY <1>4 DEF OpenChange
<1>6. fate'["confirmed"] = fate["confirmed"] /\ fate'["rejected"] = fate["rejected"]
  BY <1>1 DEF GiveUp, Relaunch, Told, WatchlistTypeOK
<1>7. ConfirmedIsSaved'
  BY <1>1, <1>6 DEF FatesInv, ConfirmedIsSaved
<1>8. client'[c].changes >= client[c].changes
  BY <1>1, <1>4 DEF Controller
<1>9. client'[c].pending # None =>
         client'[c].pending.by = c /\ client'[c].pending.serial <= client'[c].changes
  BY <1>4 DEF FatesInv, PendingIssued, Issued
<1>10. \A x \in fate["rejected"] : client'[c].pending # x
  <2>1. \A x \in fate["rejected"] : x # None
    BY <1>1, NoneAssumption DEF WatchlistTypeOK
  <2>2. QED
    BY <1>4, <2>1 DEF FatesInv, RefusedForGood, Refused
<1>11. QED
  BY <1>1, <1>2, <1>3, <1>4, <1>5, <1>6, <1>7, <1>8, <1>9, <1>10, ClientKeepsFates

\* A restored backup forgets what was saved since, and what was confirmed of it;
\* what was refused was not in it.
LEMMA RestoreKeepsFates ==
  ASSUME FatesInv, Restore
  PROVE  FatesInv'
<1>1. WatchlistTypeOK /\ WatchlistTypeOK' /\ Waits'
  BY TypesHold DEF FatesInv, Next
<1>2. /\ wire' = {} /\ client' = client /\ \A c \in Client : answer'[c] = None
      /\ fate'["confirmed"] = {} /\ fate'["rejected"] = fate["rejected"]
  BY <1>1 DEF Restore, WatchlistTypeOK
<1>3. \A k \in DOMAIN saved' : k \in DOMAIN saved /\ saved'[k] = saved[k]
  <2> DEFINE S == [change: Change, at: Nat]
  <2>1. saved \in Seq(S)
    BY <1>1 DEF WatchlistTypeOK
  <2>2. PICK n \in 0..Len(saved) : saved' = SubSeq(saved, 1, n)
    BY DEF Restore
  <2> HIDE DEF S
  <2>3. QED
    BY <2>1, <2>2
<1>4. AnswersSeen' /\ WireIssued' /\ WireAwaited' /\ ConfirmedIsSaved'
  BY <1>2 DEF AnswersSeen, WireIssued, WireAwaited, ConfirmedIsSaved
<1>5. SavedIssued' /\ PendingIssued'
  BY <1>2, <1>3 DEF FatesInv, SavedIssued, PendingIssued, Issued
<1>6. RefusedForGood'
  BY <1>2, <1>3 DEF FatesInv, RefusedForGood, Refused, Unsaved, Issued
<1>7. \A c \in Client : OpenChange(c)'
  BY <1>2 DEF FatesInv, OpenChange
<1>8. QED
  BY <1>1, <1>4, <1>5, <1>6, <1>7 DEF FatesInv

LEMMA InitFates == Init => FatesInv
<1> SUFFICES ASSUME Init PROVE FatesInv
  OBVIOUS
<1>1. WatchlistTypeOK /\ Waits
  BY WatchlistAssumption DEF Init, Blank, Waits, WatchlistTypeOK, Controller
<1>2. /\ saved = <<>> /\ wire = {} /\ fate["confirmed"] = {} /\ fate["rejected"] = {}
      /\ \A c \in Client : client[c].pending = None /\ answer[c] = None
  BY DEF Init, Blank
<1>3. QED
  BY <1>1, <1>2 DEF FatesInv, AnswersSeen, ConfirmedIsSaved, SavedIssued, RefusedForGood,
                    WireIssued, WireAwaited, PendingIssued, OpenChange

LEMMA NextFates == FatesInv /\ [Next]_vars => FatesInv'
<1> SUFFICES ASSUME FatesInv, [Next]_vars PROVE FatesInv'
  OBVIOUS
<1>1. ASSUME NEW m \in wire, Serve(m) \/ Refuse(m) \/ Fail(m) PROVE FatesInv'
  BY <1>1, ServerKeepsFates
<1>2. ASSUME NEW c \in Client, Edits(c) \/ Hears(c) \/ GiveUp(c) \/ Relaunch(c)
      PROVE  FatesInv'
  BY <1>2, EditsKeepFates, HearsKeepFates, LeavesKeepFates
<1>3. CASE SetClock \/ UNCHANGED vars
  <2>1. UNCHANGED <<saved, wire, answer, client, fate, restores>>
    BY <1>3 DEF SetClock, vars
  <2>2. WatchlistTypeOK' /\ Waits'
    BY TypesHold DEF FatesInv
  <2>3. AnswersSeen' /\ ConfirmedIsSaved' /\ SavedIssued' /\ RefusedForGood'
    BY <2>1 DEF FatesInv, AnswersSeen, Seen, ListAt, ConfirmedIsSaved, SavedIssued, RefusedForGood,
                Issued, Refused, Unsaved
  <2>4. WireIssued' /\ WireAwaited' /\ PendingIssued'
    BY <2>1 DEF FatesInv, WireIssued, WireAwaited, PendingIssued, Issued, Awaited
  <2>5. \A c \in Client : OpenChange(c)'
    BY <2>1 DEF FatesInv, OpenChange, Unsaved
  <2>6. QED
    BY <2>2, <2>3, <2>4, <2>5 DEF FatesInv
<1>4. CASE Restore
  BY <1>4, RestoreKeepsFates
<1>5. QED
  BY <1>1, <1>2, <1>3, <1>4 DEF Next

\* What a client tells its user of a change is true, restored backups included:
\* what it calls saved is the next revision, and what it calls refused was not
\* saved and never will be.
THEOREM AnswersAlwaysTrue == Spec => []AnswersAreTrue
<1>1. FatesInv => AnswersAreTrue
  BY DEF FatesInv, RefusedForGood, Refused, Unsaved, AnswersAreTrue, RejectedIsNotSaved
<1>2. QED
  BY <1>1, InitFates, NextFates, PTL DEF Spec
=============================================================================

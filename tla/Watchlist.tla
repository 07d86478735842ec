------------------------------ MODULE Watchlist ------------------------------
(***************************************************************************)
(* The stored watchlist (watchlist.go, migration 026) and the controllers  *)
(* that edit it (watchlist.dart of the client).                            *)
(*                                                                         *)
(* The server keeps one row: a revision, the entries and when they were    *)
(* saved.  An editor sends the whole list it wants and the revision it has *)
(* seen.  Requests and answers may be late or lost: a controller gives up  *)
(* waiting, the request stays on its way, and the change is kept until its *)
(* fate is known.  Restore puts an older database in the server's place.   *)
(*                                                                         *)
(* saved holds every state saved so far; the row is the last of them.      *)
(***************************************************************************)
EXTENDS Integers, Sequences, FiniteSetsExt

CONSTANTS
    Client, Entry,
    None,
    MaxEntries,         \* fifty
    RevisionLimit,      \* watchlistRevisionLimit
    MaxChanges,         \* bound on the changes the clients start
    MaxTime,            \* bound on the clock
    MaxRestores         \* bound on the restores

ASSUME WatchlistAssumption ==
    /\ MaxEntries \in Nat /\ RevisionLimit \in Nat
    /\ MaxChanges \in Nat /\ MaxTime \in Nat \ {0} /\ MaxRestores \in Nat

Change == [by: Client, serial: Nat, expected: Nat, entries: SUBSET Entry]
List == [revision: Nat, entries: SUBSET Entry]
Answer == [status: {"ok", "changed", "rejected", "unavailable"}, list: List]

ASSUME NoneAssumption == None \notin Change \cup List \cup Answer

VARIABLES
    saved,      \* the states of the row, oldest first
    now,        \* the clock of the server
    wire,       \* the requests no one has handled
    answer,     \* the answer each client is about to get, or None
    client,     \* the state of each controller
    fate,       \* what each client was told or lost: confirmed, rejected, forgotten
    restores

vars == <<saved, now, wire, answer, client, fate, restores>>

Request == [by: Client, change: Change \cup {None}, live: BOOLEAN]
Controller == [shown: List \cup {None}, pending: Change \cup {None},
               uncertain: BOOLEAN, reload: BOOLEAN,
               phase: {"idle", "saving", "reading"}, changes: Nat]

WatchlistTypeOK ==
    /\ saved \in Seq([change: Change, at: Nat]) /\ Len(saved) <= RevisionLimit
    /\ now \in Nat
    /\ wire \subseteq Request
    /\ answer \in [Client -> Answer \cup {None}]
    /\ client \in [Client -> Controller]
    /\ fate \in [{"confirmed", "rejected", "forgotten"} -> SUBSET Change]
    /\ restores \in Nat

\* The list of revision k.
ListAt(k) == [revision |-> k, entries |-> IF k = 0 THEN {} ELSE saved[k].change.entries]

Current == ListAt(Len(saved))

Blank == [shown |-> None, pending |-> None, uncertain |-> FALSE, reload |-> FALSE,
          phase |-> "idle", changes |-> 0]

Init ==
    /\ saved = <<>>
    /\ now = 1
    /\ wire = {}
    /\ answer = [c \in Client |-> None]
    /\ client = [c \in Client |-> Blank]
    /\ fate = [f \in {"confirmed", "rejected", "forgotten"} |-> {}]
    /\ restores = 0

-----------------------------------------------------------------------------
(* The server *)

\* canonicalUTCString aside: the clock is before the saved state.
ClockIsBehind == saved # <<>> /\ now < saved[Len(saved)].at

\* Request m is answered; no one waits for the answer of one given up.
Reply(m, status, list) ==
    /\ wire' = wire \ {m}
    /\ answer' = IF m.live
                 THEN [answer EXCEPT ![m.by] = [status |-> status, list |-> list]]
                 ELSE answer

Same(ch) == ch.entries = Current.entries

\* What ch asks for was saved: an earlier request or another editor did it.
IsRetry(ch) == Current.revision = ch.expected + 1 /\ Same(ch)

\* Broken MaySave: the revision is not compared.
MaySaveAny(ch) == ~Same(ch) /\ Len(saved) < RevisionLimit /\ ~ClockIsBehind

MaySave(ch) ==
    /\ Current.revision = ch.expected /\ ~Same(ch)
    /\ Len(saved) < RevisionLimit /\ ~ClockIsBehind

SavedAs(ch) == [revision |-> Current.revision + 1, entries |-> ch.entries]

\* updateWatchlist saves the list as the next revision.
Save(m) ==
    /\ m.change # None /\ Cardinality(m.change.entries) <= MaxEntries
    /\ MaySave(m.change)
    /\ saved' = Append(saved, [change |-> m.change, at |-> now])
    /\ Reply(m, "ok", SavedAs(m.change))
    /\ UNCHANGED <<now, client, fate, restores>>

\* updateWatchlist returns the row as it is.
Acknowledge(m) ==
    /\ m.change # None
    /\ IsRetry(m.change) \/ (Current.revision = m.change.expected /\ Same(m.change))
    /\ Reply(m, "ok", Current)
    /\ UNCHANGED <<saved, now, client, fate, restores>>

\* updateWatchlist ends with errWatchlistChanged.
Conflict(m) ==
    /\ m.change # None
    /\ Current.revision # m.change.expected /\ ~IsRetry(m.change)
    /\ Reply(m, "changed", Current)
    /\ UNCHANGED <<saved, now, client, fate, restores>>

\* The request is refused before it is looked at, for its origin, or because
\* no revision is left.
Refuse(m) ==
    /\ m.change # None
    /\ Reply(m, "rejected", Current)
    /\ UNCHANGED <<saved, now, client, fate, restores>>

\* The row or the clock cannot be confirmed; the transaction is rolled back.
Fail(m) ==
    /\ Reply(m, "unavailable", Current)
    /\ UNCHANGED <<saved, now, client, fate, restores>>

\* watchlist: the report of the row as it is.
Report(m) ==
    /\ m.change = None /\ ~ClockIsBehind
    /\ Reply(m, "ok", Current)
    /\ UNCHANGED <<saved, now, client, fate, restores>>

SetClock ==
    /\ now' \in 1..MaxTime
    /\ now' # now
    /\ UNCHANGED <<saved, wire, answer, client, fate, restores>>

\* The service is started on the restored copy of an older database.  What
\* was on its way is gone, and what was confirmed since is lost.
Restore ==
    /\ restores < MaxRestores
    /\ \E k \in 0..Len(saved) : saved' = SubSeq(saved, 1, k)
    /\ wire' = {}
    /\ answer' = [c \in Client |-> None]
    /\ fate' = [fate EXCEPT !["confirmed"] = {}]
    /\ restores' = restores + 1
    /\ UNCHANGED <<now, client>>

-----------------------------------------------------------------------------
(* WatchlistController *)

\* How many changes the clients have started.
Started == MapThenSumSet(LAMBDA c : client[c].changes, Client)

IsIdle(c) == client[c].phase = "idle"

CanEdit(c) == IsIdle(c) /\ ~client[c].reload /\ client[c].pending = None /\ client[c].shown # None

\* The client waits for the answer to a new request: a change, or None to read.
Send(c, change) ==
    /\ wire' = wire \cup {[by |-> c, change |-> change, live |-> TRUE]}
    /\ answer' = [answer EXCEPT ![c] = None]

\* The user adds or removes one entry; the change is sent.
StartChange(c, entries) ==
    LET ch == [by |-> c, serial |-> client[c].changes + 1,
               expected |-> client[c].shown.revision, entries |-> entries]
    IN  /\ CanEdit(c)
        /\ client' = [client EXCEPT ![c].pending = ch, ![c].uncertain = FALSE,
                                    ![c].phase = "saving", ![c].changes = ch.serial]
        /\ Send(c, ch)
        /\ UNCHANGED <<saved, now, fate, restores>>

Add(c) ==
    /\ CanEdit(c) /\ Started < MaxChanges
    /\ Cardinality(client[c].shown.entries) < MaxEntries
    /\ \E e \in Entry \ client[c].shown.entries :
          StartChange(c, client[c].shown.entries \cup {e})

Remove(c) ==
    /\ CanEdit(c) /\ Started < MaxChanges
    /\ \E e \in client[c].shown.entries : StartChange(c, client[c].shown.entries \ {e})

\* retry: the same change is sent again.
Retry(c) ==
    /\ IsIdle(c) /\ client[c].pending # None
    /\ client' = [client EXCEPT ![c].phase = "saving"]
    /\ Send(c, client[c].pending)
    /\ UNCHANGED <<saved, now, fate, restores>>

\* refresh and ensureLoaded.
Refresh(c) ==
    /\ IsIdle(c)
    /\ client' = [client EXCEPT ![c].phase = "reading"]
    /\ Send(c, None)
    /\ UNCHANGED <<saved, now, fate, restores>>

\* The answer to c is taken; the request it answers is gone.
Take(c) == UNCHANGED wire /\ answer' = [answer EXCEPT ![c] = None]

Told(c, f) == fate' = [fate EXCEPT ![f] = @ \cup {client[c].pending}]

\* The answer says that the pending change is the next revision.
Confirms(c) ==
    /\ answer[c].status = "ok"
    /\ answer[c].list.revision = client[c].pending.expected + 1
    /\ answer[c].list.entries = client[c].pending.entries

Saving(c) == client[c].phase = "saving" /\ answer[c] # None

\* _commit: the change is saved; the prices are read next.
Confirmed(c) ==
    /\ Saving(c) /\ Confirms(c)
    /\ client' = [client EXCEPT ![c].shown = answer[c].list, ![c].pending = None,
                                ![c].uncertain = FALSE, ![c].phase = "reading"]
    /\ Told(c, "confirmed")
    /\ Send(c, None)
    /\ UNCHANGED <<saved, now, restores>>

\* _commit: another revision was saved; the list is read before the next edit.
\* The change is dropped unless an earlier request may have been the one.
Overtaken(c) ==
    /\ Saving(c) /\ answer[c].status = "changed"
    /\ IF client[c].uncertain
       THEN /\ client' = [client EXCEPT ![c].reload = TRUE, ![c].phase = "reading"]
            /\ UNCHANGED fate
       ELSE /\ client' = [client EXCEPT ![c].reload = TRUE, ![c].phase = "reading",
                                        ![c].pending = None]
            /\ Told(c, "rejected")
    /\ Send(c, None)
    /\ UNCHANGED <<saved, now, restores>>

\* _commit: the first request was refused; the change is dropped.
Rejected(c) ==
    /\ Saving(c) /\ answer[c].status = "rejected" /\ ~client[c].uncertain
    /\ client' = [client EXCEPT ![c].pending = None, ![c].phase = "idle"]
    /\ Told(c, "rejected")
    /\ Take(c)
    /\ UNCHANGED <<saved, now, restores>>

\* Broken Doubt: the controller forgets that it is uncertain.
DoubtForgotten(c) == client' = [client EXCEPT ![c].phase = "idle"]

Doubt(c) == client' = [client EXCEPT ![c].uncertain = TRUE, ![c].phase = "idle"]

\* _commit: any other answer leaves it open whether the change was saved.
Uncertain(c) ==
    /\ Saving(c) /\ ~Confirms(c) /\ answer[c].status # "changed"
    /\ answer[c].status = "rejected" => client[c].uncertain
    /\ Doubt(c)
    /\ Take(c)
    /\ UNCHANGED <<saved, now, fate, restores>>

\* Forty seconds are over or the connection is lost.  The server may still
\* handle the request.
GiveUp(c) ==
    /\ ~IsIdle(c)
    /\ wire' = {m \in wire : ~(m.by = c /\ m.live)} \cup
               {[m EXCEPT !.live = FALSE] : m \in {r \in wire : r.by = c /\ r.change # None}}
    /\ answer' = [answer EXCEPT ![c] = None]
    /\ IF client[c].phase = "saving"
       THEN Doubt(c)
       ELSE client' = [client EXCEPT ![c].phase = "idle"]
    /\ UNCHANGED <<saved, now, fate, restores>>

\* A list that was read ends the wait for change ch.
Settles(list, ch) ==
    \/ list.revision > ch.expected
    \/ list.revision = ch.expected /\ list.entries = ch.entries

\* _read
Read(c) ==
    /\ client[c].phase = "reading" /\ answer[c] # None /\ answer[c].status = "ok"
    /\ LET list == answer[c].list
           done == client[c].pending # None /\ Settles(list, client[c].pending)
       IN  client' = [client EXCEPT
               ![c].shown = list, ![c].reload = FALSE, ![c].phase = "idle",
               ![c].pending = IF done THEN None ELSE @,
               ![c].uncertain = IF done THEN FALSE ELSE @]
    /\ Take(c)
    /\ UNCHANGED <<saved, now, fate, restores>>

\* _read fails; what is shown stays.
NotRead(c) ==
    /\ client[c].phase = "reading" /\ answer[c] # None /\ answer[c].status # "ok"
    /\ client' = [client EXCEPT ![c].phase = "idle"]
    /\ Take(c)
    /\ UNCHANGED <<saved, now, fate, restores>>

\* The app is closed and opened again; a pending change is forgotten.
Relaunch(c) ==
    /\ client' = [client EXCEPT ![c] = [Blank EXCEPT !.changes = client[c].changes]]
    /\ wire' = {m \in wire : ~(m.by = c /\ m.live)} \cup
               {[m EXCEPT !.live = FALSE] : m \in {r \in wire : r.by = c /\ r.change # None}}
    /\ answer' = [answer EXCEPT ![c] = None]
    /\ IF client[c].pending = None THEN UNCHANGED fate ELSE Told(c, "forgotten")
    /\ UNCHANGED <<saved, now, restores>>

-----------------------------------------------------------------------------
Serve(m) == Save(m) \/ Acknowledge(m) \/ Conflict(m) \/ Report(m)

Edits(c) == Add(c) \/ Remove(c) \/ Retry(c) \/ Refresh(c)

Hears(c) ==
    Confirmed(c) \/ Overtaken(c) \/ Rejected(c) \/ Uncertain(c) \/ Read(c) \/ NotRead(c)

Next ==
    \/ \E m \in wire : Serve(m) \/ Refuse(m) \/ Fail(m)
    \/ \E c \in Client : Edits(c) \/ Hears(c) \/ GiveUp(c) \/ Relaunch(c)
    \/ SetClock
    \/ Restore

Spec == Init /\ [][Next]_vars

-----------------------------------------------------------------------------
(* Properties *)

\* As long as no backup is restored, every saved revision adds or removes one
\* entry of the revision before it: an edit never undoes one its editor has
\* not seen, however late its request comes.
Shared == INSTANCE SharedList WITH list <- Current.entries, revision <- Current.revision

EditsAreAtomic ==
    Shared!ListInit /\ [][restores' = 0 => Shared!Edit]_(Shared!listVars)

\* A change the user was told is saved is the revision after the one it was
\* made from.
ConfirmedIsSaved == \A ch \in fate["confirmed"] :
    /\ ch.expected < Len(saved)
    /\ saved[ch.expected + 1].change.entries = ch.entries

\* A change the user was told is refused was never saved.
RejectedIsNotSaved ==
    \A k \in DOMAIN saved : saved[k].change \notin fate["rejected"]

\* What a client tells its user of a change is true, although requests come
\* late and answers are lost (apps/client/lib/watchlist.dart).
AnswersAreTrue == ConfirmedIsSaved /\ RejectedIsNotSaved
=============================================================================

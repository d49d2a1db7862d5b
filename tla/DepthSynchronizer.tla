--------------------------- MODULE DepthSynchronizer ---------------------------
(***************************************************************************)
(* The aggregate book that the market-data collector keeps per symbol      *)
(* (data_capture/sequence.py): it buffers depth updates until a snapshot   *)
(* arrives, installs the snapshot, applies the updates that follow it, and *)
(* gives up at a gap.  The object is one record, each method an operator.  *)
(*                                                                         *)
(* The exchange is external: Truth[i] is its book after update i.  An      *)
(* update event [first, final] carries the final quantity of every level   *)
(* that one of the updates first..final has changed.                       *)
(***************************************************************************)
EXTENDS Integers, Sequences, FiniteSets

CONSTANTS
  Prices,   \* prices of either side
  LastId,   \* the exchange's last update identifier
  Truth     \* the exchange's book after each of its updates

Level == {"bid", "ask"} \X Prices
Book  == [Level -> Nat]          \* a quantity of zero is an absent level

ASSUME SynchronizerAssumption ==
  /\ Prices \subseteq Nat
  /\ LastId \in Nat
  /\ Truth \in [0 .. LastId -> Book]

NoId    == -1                    \* local_update_id is None
EmptyBook == [l \in Level |-> 0]

\* A depth event.  The levels of an unbookable one are refused by the book.
Update == {u \in [first : 1 .. LastId, final : 1 .. LastId, bookable : BOOLEAN] :
             u.first <= u.final}

\* The levels that a depth event brings: external, what the feed promises.
Changes(u) ==
  [l \in {l \in Level : \E k \in (u.first - 1) .. u.final : Truth[k][l] # Truth[u.final][l]}
     |-> Truth[u.final][l]]

-----------------------------------------------------------------------------
(* The book.                                                               *)

\* _assert_not_crossed; a side without levels crosses nothing.
Crossed(book) ==
  \E p, q \in Prices : p >= q /\ book[<<"bid", p>>] > 0 /\ book[<<"ask", q>>] > 0

\* LocalOrderBook.apply: replacement quantities, zero removes a level.
Replaced(book, u) ==
  [l \in Level |-> IF l \in DOMAIN Changes(u) THEN Changes(u)[l] ELSE book[l]]

\* Whether apply raises: a level that does not parse, or a crossed result.
Refuses(book, u) == ~u.bookable \/ Crossed(Replaced(book, u))

-----------------------------------------------------------------------------
(* The synchronizer.                                                       *)

Synchronizer ==
  [state : {"BUFFERING", "SYNCHRONIZED", "INVALID"},
   book : Book,
   local : {NoId} \cup (0 .. LastId),       \* local_update_id
   buffer : Seq(Update),
   start : {NoId} \cup (0 .. LastId),       \* _interval_start
   intervals : SUBSET ((0 .. LastId) \X (0 .. LastId))]

NewSynchronizer ==
  [state |-> "BUFFERING", book |-> EmptyBook, local |-> NoId, buffer |-> << >>,
   start |-> NoId, intervals |-> {}]

\* The interval that ends here, if one is open.
CloseInterval_bug(s) ==
  IF s.state = "SYNCHRONIZED" /\ s.start # NoId
    THEN s.intervals \cup {<<s.start, NoId>>}
    ELSE s.intervals

CloseInterval(s) ==
  IF s.state = "SYNCHRONIZED" /\ s.start # NoId
    THEN s.intervals \cup {<<s.start, s.local>>}
    ELSE s.intervals

begin_resynchronization(s) ==
  [s EXCEPT !.intervals = CloseInterval(s), !.state = "BUFFERING", !.local = NoId,
            !.start = NoId, !.buffer = << >>]

invalidate(s) ==
  [s EXCEPT !.intervals = CloseInterval(s), !.state = "INVALID", !.local = NoId,
            !.start = NoId, !.buffer = << >>]

finalize(s) == [s EXCEPT !.intervals = CloseInterval(s), !.start = NoId]

\* What _apply_update does with an event, once the book has an identifier.
Outcome_bug(s, u) ==
  CASE u.final < s.local      -> "ignored_old"
    [] u.final = s.local      -> "duplicate"
    [] u.first > s.local + 2  -> "gap"
    [] OTHER                  -> IF Refuses(s.book, u) THEN "refused" ELSE "applied"

Outcome(s, u) ==
  CASE u.final < s.local      -> "ignored_old"
    [] u.final = s.local      -> "duplicate"
    [] u.first > s.local + 1  -> "gap"
    [] OTHER                  -> IF Refuses(s.book, u) THEN "refused" ELSE "applied"

\* _apply_update; the event that reveals a gap is kept for the next snapshot.
apply_update(s, u) ==
  CASE Outcome(s, u) = "gap"     -> [invalidate(s) EXCEPT !.buffer = <<u>>]
    [] Outcome(s, u) = "refused" -> invalidate(s)
    [] Outcome(s, u) = "applied" -> [s EXCEPT !.book = Replaced(s.book, u), !.local = u.final]
    [] OTHER                     -> s

\* ingest: buffered unless the book is synchronized.
ingest(s, u) ==
  IF s.state = "SYNCHRONIZED" THEN apply_update(s, u)
                              ELSE [s EXCEPT !.buffer = Append(@, u)]

-----------------------------------------------------------------------------
(* install_snapshot, up to the loop over the buffered events.  The events  *)
(* that the code filters out of the rest of the buffer are those that      *)
(* _apply_update ignores.                                                  *)

\* The position of the first buffered event that the snapshot does not cover.
FirstNewer(s, last) ==
  {k \in DOMAIN s.buffer :
     s.buffer[k].final > last /\ \A j \in 1 .. (k - 1) : s.buffer[j].final <= last}

\* The first such event has to overlap the snapshot.
Overlaps(s, last) ==
  \A k \in FirstNewer(s, last) : s.buffer[k].first <= last /\ last <= s.buffer[k].final

\* The buffered events that are applied on top of the snapshot.
Remaining(s, last) ==
  IF FirstNewer(s, last) = {} THEN << >>
  ELSE LET k == CHOOSE k \in FirstNewer(s, last) : TRUE
       IN SubSeq(s.buffer, k, Len(s.buffer))

\* A snapshot that overlaps, before the buffered events are applied.
install_snapshot(s, last) ==
  [s EXCEPT !.book = Truth[last], !.local = last, !.state = "SYNCHRONIZED",
            !.start = last, !.buffer = << >>]

\* A snapshot that does not: the book is loaded all the same.
reject_snapshot(s, last) ==
  [s EXCEPT !.book = Truth[last], !.local = NoId, !.state = "BUFFERING",
            !.buffer = Remaining(s, last)]
=============================================================================

------------------------------- MODULE OrderBook -------------------------------
(***************************************************************************)
(* The copy of a token's order book that strategies look at:               *)
(* state/order_book.rs, fed by websocket/market.rs through the channel to  *)
(* the event loop (orchestrator/handlers.rs).  A snapshot replaces the     *)
(* copy, a level update changes one price of it.                           *)
(*                                                                         *)
(* `updates` says whether the stream sends level updates besides the first *)
(* snapshot.  The SDK's does not ("this variant is never produced"); the   *)
(* handler, and update_level() with its tests, are for one that does.      *)
(*                                                                         *)
(* Every price has at most one level and no level is of size 0.  A book is *)
(* read through its first levels: best_bid(), ask_depth() and so on.       *)
(***************************************************************************)
EXTENDS Integers, Sequences, FiniteSets, SequencesExt

CONSTANTS
    BookPrices, BookSizes,
    Streams,            \* the values of `updates` considered
    MaxUnread           \* bound on the messages in the channel

ASSUME BookAssumption ==
    /\ BookPrices \subseteq Nat \ {0} /\ IsFiniteSet(BookPrices)
    /\ BookSizes \subseteq Nat \ {0}
    /\ Streams \subseteq BOOLEAN /\ MaxUnread \in Nat \ {0}

BookSides == {"bids", "asks"}

VARIABLES
    updates,            \* the configuration
    exchange,           \* the exchange's book: the size at each price, 0 for none
    stream,             \* "down"; "up": subscribed; "live": the first snapshot was sent
    unread,             \* market_ws_rx
    book                \* BookSnapshot: levels, best first; absent until the first message

bookVars == <<updates, exchange, stream, unread, book>>

NoLevels == [s \in BookSides |-> <<>>]

BookInit ==
    /\ updates \in Streams
    /\ exchange = [s \in BookSides |-> [p \in BookPrices |-> 0]]
    /\ stream = "down" /\ unread = <<>> /\ book = NoLevels

-----------------------------------------------------------------------------
(* The exchange *)

Levels(s) == {[price |-> p, size |-> exchange[s][p]] :
                p \in {q \in BookPrices : exchange[s][q] > 0}}

Level(s, p, n) == [kind |-> "level", side |-> s, price |-> p, size |-> n]

\* Bids stay below asks.
Uncrossed(e) == \A p, q \in BookPrices :
    e["bids"][p] > 0 /\ e["asks"][q] > 0 => p < q

Send(message) == Len(unread) < MaxUnread /\ unread' = Append(unread, message)

\* A level of the exchange's book changes; a stream of level updates sends it, in a
\* stream of snapshots it waits for the next one.
ChangeLevel(s, p, n) ==
    /\ exchange[s][p] # n
    /\ exchange' = [exchange EXCEPT ![s][p] = n]
    /\ Uncrossed(exchange')
    /\ IF updates /\ stream # "down" THEN Send(Level(s, p, n)) /\ stream' = stream
       ELSE unread' = unread /\ stream' = IF stream = "live" THEN "up" ELSE stream
    /\ UNCHANGED <<updates, book>>

\* The whole book, in whatever order the SDK delivers its levels.
SendSnapshot ==
    /\ stream = "up"
    /\ \E bids \in SetToSeqs(Levels("bids")), asks \in SetToSeqs(Levels("asks")) :
        Send([kind |-> "book", bids |-> bids, asks |-> asks])
    /\ stream' = "live"
    /\ UNCHANGED <<updates, exchange, book>>

\* subscribe_orderbook().
Subscribe ==
    /\ stream = "down" /\ stream' = "up"
    /\ UNCHANGED <<updates, exchange, unread, book>>

\* The stream ends or breaks; what was read from it is in the channel.
Disconnected ==
    /\ stream # "down" /\ stream' = "down"
    /\ UNCHANGED <<updates, exchange, unread, book>>

\* refresh_markets() aborts the task and drops the channel with what is in it.
Restarted ==
    /\ stream' = "down" /\ unread' = <<>>
    /\ UNCHANGED <<updates, exchange, book>>

-----------------------------------------------------------------------------
(* handle_market_message() *)

Better(s, p, q) == IF s = "bids" THEN p > q ELSE p < q

\* The best level first, then by worse and worse prices.
Ranked(s, levels) == \A i, j \in DOMAIN levels :
    i < j => Better(s, levels[i].price, levels[j].price)

\* The sort of a snapshot, whose levels have different prices.
BestFirst(s, levels) == CHOOSE q \in SetToSeqs(ToSet(levels)) : Ranked(s, q)

\* handle_book_snapshot(): update_book().
UpdateBook(m) ==
    /\ m.kind = "book"
    /\ book' = [s \in BookSides |-> BestFirst(s, m[s])]

\* Mutant: bids are inserted in the order of asks.
InsertAscending(s, levels, level) ==
    LET worse == SelectInSeq(levels, LAMBDA l : l.price > level.price)
    IN  InsertAt(levels, IF worse = 0 THEN Len(levels) + 1 ELSE worse, level)

\* Before the first level that is worse.
Insert(s, levels, level) ==
    LET worse == SelectInSeq(levels, LAMBDA l : Better(s, level.price, l.price))
    IN  InsertAt(levels, IF worse = 0 THEN Len(levels) + 1 ELSE worse, level)

\* update_level() of one side.
Updated(s, levels, level) ==
    LET at == SelectInSeq(levels, LAMBDA l : l.price = level.price) IN
    CASE level.size = 0 /\ at > 0 -> RemoveAt(levels, at)
      [] level.size = 0 /\ at = 0 -> levels
      [] level.size > 0 /\ at > 0 -> ReplaceAt(levels, at, level)
      [] OTHER                    -> Insert(s, levels, level)

\* handle_level_update(): the book is created if this is its first message.
UpdateLevel(m) ==
    /\ m.kind = "level"
    /\ book' = [book EXCEPT ![m.side] =
                    Updated(m.side, @, [price |-> m.price, size |-> m.size])]

HandleMessage ==
    /\ unread # <<>> /\ unread' = Tail(unread)
    /\ UpdateBook(Head(unread)) \/ UpdateLevel(Head(unread))
    /\ UNCHANGED <<updates, exchange, stream>>

BookNext ==
    \/ \E s \in BookSides, p \in BookPrices, n \in BookSizes \union {0} : ChangeLevel(s, p, n)
    \/ SendSnapshot \/ Subscribe \/ Disconnected \/ Restarted \/ HandleMessage

BookSpec == BookInit /\ [][BookNext]_bookVars

-----------------------------------------------------------------------------
(* Properties *)

\* Once everything that was sent has been handled, the copy is the exchange's book,
\* the best levels first, whatever a broken stream or a replaced channel has swallowed
\* and whatever order the levels came in.
BookAgrees == (stream = "live" /\ unread = <<>>) => \A s \in BookSides :
    /\ ToSet(book[s]) = Levels(s) /\ Len(book[s]) = Cardinality(Levels(s))
    /\ Ranked(s, book[s])
=============================================================================

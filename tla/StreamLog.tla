------------------------------ MODULE StreamLog ------------------------------
(***************************************************************************)
(* What the message store promises its users, without queues, counters,    *)
(* limits or books: a stream is a log of numbered entries that only gives  *)
(* up its oldest ones, and a reader goes through it one number at a time.  *)
(*                                                                         *)
(* It is the contract of the calls StoreManager (zetmq-server/store.rs)    *)
(* forwards to memory.rs and consumer.rs of zetmq-store.                   *)
(***************************************************************************)
EXTENDS Naturals

CONSTANTS Names, Entries, Readers

VARIABLES
    open,       \* the streams there are
    era,        \* how often a name was opened: numbers start anew
    last,       \* the number of the newest entry
    log,        \* the retained entries by number
    attached,   \* the readers there are
    cursor,     \* the number a reader is given next
    got         \* what a reader was given

streamVars == <<open, era, last, log>>
readerVars == <<attached, cursor, got>>
vars == <<streamVars, readerVars>>

Nothing == [s \in {} |-> s]

Init ==
    /\ open = {}
    /\ era = [n \in Names |-> 0]
    /\ last = [n \in Names |-> 0]
    /\ log = [n \in Names |-> Nothing]
    /\ attached = {}
    /\ cursor = [k \in Readers |-> 0]
    /\ got = [k \in Readers |-> {}]

Opened(n) ==
    /\ open' = open \cup {n}
    /\ era' = [era EXCEPT ![n] = IF n \in open THEN @ ELSE @ + 1]

Open(n) ==
    /\ n \notin open
    /\ Opened(n)
    /\ UNCHANGED <<last, log, readerVars>>

Drop(n) ==
    /\ n \in open
    /\ open' = open \ {n}
    /\ last' = [last EXCEPT ![n] = 0]
    /\ log' = [log EXCEPT ![n] = Nothing]
    /\ UNCHANGED <<era, readerVars>>

\* An entry gets the next number, for as long as it is retained; any of the oldest may go, and
\* those that stay keep their numbers
Add(n) ==
    LET number == last[n] + 1
    IN  /\ Opened(n)
        /\ last' = [last EXCEPT ![n] = number]
        /\ log' = [log EXCEPT ![n] = log'[n]]
        /\ \E cut \in 0..(number + 1) :
              DOMAIN log'[n] = {s \in DOMAIN log[n] \cup {number} : s >= cut}
        /\ \A s \in DOMAIN log'[n] :
              IF s = number THEN log'[n][s] \in Entries ELSE log'[n][s] = log[n][s]
        /\ UNCHANGED readerVars

\* A reader starts at a number of its choice
Attach(k) ==
    /\ k \notin attached
    /\ attached' = attached \cup {k}
    /\ cursor' = [cursor EXCEPT ![k] = cursor'[k]] /\ cursor'[k] \in Nat
    /\ got' = [got EXCEPT ![k] = {}]
    /\ UNCHANGED streamVars

Detach(k) ==
    /\ k \in attached
    /\ attached' = attached \ {k}
    /\ UNCHANGED <<cursor, got, streamVars>>

\* It is given the entry with the number it has come to, and goes on
Take(n, k) ==
    /\ k \in attached
    /\ cursor' = [cursor EXCEPT ![k] = @ + 1]
    /\ cursor[k] \in DOMAIN log[n]
    /\ got' = [got EXCEPT ![k] = @ \cup {[stream |-> n, epoch |-> era[n], sequence |-> cursor[k],
                                          subject |-> log[n][cursor[k]].subject]}]
    /\ UNCHANGED <<attached, streamVars>>

Next ==
    \/ \E n \in Names : Open(n) \/ Drop(n) \/ Add(n)
    \/ \E k \in Readers : Attach(k) \/ Detach(k) \/ \E n \in Names : Take(n, k)

Spec == Init /\ [][Next]_vars

===============================================================================

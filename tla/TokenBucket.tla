---------------------------- MODULE TokenBucket ----------------------------
(***************************************************************************)
(* What the rate limiter of an OFT peer promises: a bucket that gets       *)
(* `rate` tokens with every second and never holds more than `capacity`.   *)
(* What is sent to the peer takes tokens out, what is received from it     *)
(* puts them back.  Without a bucket there is no limit.                    *)
(***************************************************************************)
EXTENDS Integers

CONSTANTS
  Value,     \* the amounts, capacities and rates, some naturals
  NONE       \* no limit, or a parameter that is not set

VARIABLES
  bucket     \* capacity, level and rate

Lesser(a, b) == IF a <= b THEN a ELSE b

Filled(n) == [bucket EXCEPT !.level = Lesser(bucket.capacity, @ + n)]

Init == bucket = NONE

Second ==
  /\ bucket # NONE
  /\ bucket' = Filled(bucket.rate)

Take(amount) ==
  /\ bucket # NONE
  /\ amount <= bucket.level
  /\ bucket' = [bucket EXCEPT !.level = @ - amount]

PutBack(amount) ==
  /\ bucket # NONE
  /\ bucket' = Filled(amount)

(* A new capacity comes with a full bucket; a new rate counts from now on. *)
Or(new, old) == IF new # NONE THEN new ELSE old
Configure(capacity, rate) ==
  LET old == IF bucket # NONE THEN bucket ELSE [capacity |-> 0, level |-> 0, rate |-> 0]
  IN  bucket' = [capacity |-> Or(capacity, old.capacity),
                 level    |-> Or(capacity, old.level),
                 rate     |-> Or(rate, old.rate)]

Remove == bucket' = NONE

Next ==
  \/ Second
  \/ \E amount \in Value : Take(amount) \/ PutBack(amount)
  \/ \E capacity, rate \in Value \cup {NONE} : Configure(capacity, rate)
  \/ Remove

Spec == Init /\ [][Next]_bucket
=============================================================================

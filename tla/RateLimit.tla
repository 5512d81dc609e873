------------------------------ MODULE RateLimit ------------------------------
(***************************************************************************)
(* The limit of requests per owner and minute (src/app/ratelimit/): a      *)
(* counter per owner and minute in Postgres, raised by one statement.  One *)
(* kind of request; Retry-After and the table's old rows are left out.     *)
(***************************************************************************)
EXTENDS Naturals, FiniteSets

CONSTANTS
  Hits,       \* requests that depend on the limit
  Owners,     \* values of X-Owner-External-Id
  NoOwner,
  Limit,
  MaxMinute   \* bound: the last minute of the run

ASSUME RateLimitConstants ==
  /\ Limit \in Nat \ {0} /\ MaxMinute \in Nat
  /\ NoOwner \notin Owners
  /\ IsFiniteSet(Hits)

VARIABLES
  minute,   \* the clock of the application
  hit,      \* the requests
  counter   \* rate_limits: (owner, bucket) -> count

rateVars == <<minute, hit, counter>>

Hit == [phase : {"new", "counting", "passed", "rejected", "failed"},
        owner : Owners \cup {NoOwner},
        minute : 0 .. MaxMinute,
        count : Nat]           \* what the statement returned, 0: nothing

RateTypeOK ==
  /\ minute \in 0 .. MaxMinute
  /\ hit \in [Hits -> Hit]
  /\ counter \in [Owners -> [0 .. MaxMinute -> Nat]]

RateInit ==
  /\ minute = 0
  /\ hit = [h \in Hits |->
              [phase |-> "new", owner |-> NoOwner, minute |-> 0, count |-> 0]]
  /\ counter = [o \in Owners |-> [b \in 0 .. MaxMinute |-> 0]]

(* Without the header, or without a database, nothing is counted.           *)
ArriveUnnamed(h) ==
  /\ hit[h].phase = "new"
  /\ hit' = [hit EXCEPT ![h].phase = "passed"]
  /\ UNCHANGED <<minute, counter>>

(* The minute is read before the statement is sent.                         *)
Arrive(h, o) ==
  /\ hit[h].phase = "new"
  /\ hit' = [hit EXCEPT ![h].phase = "counting", ![h].owner = o,
                        ![h].minute = minute]
  /\ UNCHANGED <<minute, counter>>

Count(h) == counter[hit[h].owner][hit[h].minute] + 1

(* Faulty variant: the session is closed without a commit.                  *)
IncrementUncommitted(h) ==
  /\ hit[h].phase = "counting"
  /\ hit' = [hit EXCEPT ![h].count = Count(h),
               ![h].phase = IF Count(h) <= Limit THEN "passed" ELSE "rejected"]
  /\ UNCHANGED <<minute, counter>>

(* INSERT ... ON CONFLICT DO UPDATE ... RETURNING and its commit: the row   *)
(* is locked in between.                                                    *)
IncrementAndCheck(h) ==
  /\ hit[h].phase = "counting"
  /\ counter' = [counter EXCEPT
       ![hit[h].owner][hit[h].minute] = Count(h)]
  /\ hit' = [hit EXCEPT ![h].count = Count(h),
               ![h].phase = IF Count(h) <= Limit THEN "passed" ELSE "rejected"]
  /\ UNCHANGED minute

(* The statement fails and nothing is counted ...                           *)
DatabaseFails(h) ==
  /\ hit[h].phase = "counting"
  /\ hit' = [hit EXCEPT ![h].phase = "failed"]
  /\ UNCHANGED <<minute, counter>>

(* ... or only the answer to the commit is lost.                            *)
CommitLost(h) ==
  /\ hit[h].phase = "counting"
  /\ counter' = [counter EXCEPT
       ![hit[h].owner][hit[h].minute] = Count(h)]
  /\ hit' = [hit EXCEPT ![h].phase = "failed", ![h].count = Count(h)]
  /\ UNCHANGED minute

Tick ==
  /\ minute < MaxMinute
  /\ minute' = minute + 1
  /\ UNCHANGED <<hit, counter>>

RateNext ==
  \/ Tick
  \/ \E h \in Hits :
       \/ ArriveUnnamed(h) \/ IncrementAndCheck(h) \/ DatabaseFails(h)
       \/ CommitLost(h)
       \/ \E o \in Owners : Arrive(h, o)

RateSpec == RateInit /\ [][RateNext]_rateVars

-------------------------------------------------------------------------------
OfMinute(o, m) == {h \in Hits : hit[h].owner = o /\ hit[h].minute = m}
Counted(o, m) == {h \in OfMinute(o, m) : hit[h].count # 0}
Admitted(o, m) == {h \in Counted(o, m) : hit[h].count <= Limit}
Passed(o, m) == {h \in OfMinute(o, m) : hit[h].phase = "passed"}
Rejected(o, m) == {h \in OfMinute(o, m) : hit[h].phase = "rejected"}

(* However many requests and workers overlap, no more than Limit requests   *)
(* of an owner that came in one minute pass; and one is turned away only    *)
(* when Limit others of that owner and minute were counted before it: never *)
(* for what somebody else did, nor for another minute.                      *)
LimitKept ==
  \A o \in Owners, m \in 0 .. MaxMinute :
    /\ Cardinality(Passed(o, m)) <= Limit
    /\ Rejected(o, m) # {} => Cardinality(Admitted(o, m)) = Limit
===============================================================================

------------------------ MODULE ApiRequests_proofs ------------------------
(***************************************************************************)
(* Proofs about ApiRequests: one charge and one answer under a key, and    *)
(* errors that cost nothing, for any number of keys, requests, retries and *)
(* faults.                                                                 *)
(***************************************************************************)
EXTENDS ApiRequests, TLAPS

OwnerPoints == {"validate", "cache", "reserve", "enqueue", "work", "contacts", "charge", "usage",
                "finish", "save", "replay", "refund", "fail"}

Before == {"none", "limit", "claim", "lookup", "validate", "cache", "reserve", "contacts", "charge",
           "replay"}

\* The handler that inserted the key, for as long as anything shows that it did.
Owned(h) == \/ pc[h] \in OwnerPoints
            \/ paid[h] # 0
            \/ reply[h] = Result(h)
            \/ key[h[1]] = Result(h)

Types ==
    /\ call \in [Clients -> {"idle", "waiting", "sleeping", "returned", "raised"}]
    /\ tries \in [Clients -> 0 .. MaxRetries]
    /\ sent \in [Clients -> 0 .. MaxSends]
    /\ route \in [Clients -> Routes]
    /\ pc \in [Handlers -> Points]
    /\ reply \in [Handlers -> Replies \cup {NoReply}]
    /\ charged \in [Handlers -> BOOLEAN]
    /\ key \in [Clients -> Replies \cup {Absent, Claimed}]
    /\ balance \in Nat
    /\ document \in BOOLEAN /\ contacts \in BOOLEAN
    /\ paid \in [Handlers -> -1 .. 2]
    /\ faults \in 0 .. MaxFaults

\* A call has the requests it still may need.
RequestsLeft ==
    \A c \in Clients :
        /\ call[c] \in {"waiting", "sleeping"} => sent[c] + MaxRetries - tries[c] <= MaxSends
        /\ call[c] = "sleeping" => tries[c] < MaxRetries
        /\ \A n \in 1 .. MaxSends : n > sent[c] => pc[<<c, n>>] = "none"

\* What a handler has charged, by its place and its route.
Paying(h) ==
    /\ pc[h] \in Before => paid[h] = 0
    /\ pc[h] \in {"reserve", "replay"} => RouteOf(h) # "enrich"
    /\ pc[h] = "enqueue" => RouteOf(h) = "research"
    /\ pc[h] \in {"work", "usage"} => RouteOf(h) # "research"
    /\ pc[h] \in {"contacts", "charge"} => RouteOf(h) = "enrich"
    /\ pc[h] = "finish" => RouteOf(h) = "clay"
    /\ charged[h] => RouteOf(h) = "enrich"
    /\ pc[h] = "work" /\ RouteOf(h) = "enrich" => paid[h] = 0
    /\ pc[h] \in {"work", "usage", "finish", "save", "refund"} /\ RouteOf(h) = "clay" => paid[h] = 2
    /\ pc[h] \in {"usage", "save", "refund"} /\ RouteOf(h) = "enrich" => paid[h] \in {0, 1}
    /\ pc[h] = "refund" => RouteOf(h) # "research"
    /\ pc[h] = "refund" /\ RouteOf(h) = "enrich" => faults > 0
    /\ pc[h] = "fail" /\ faults = 0 => paid[h] = 0
    /\ pc[h] = "done" /\ ~Success(reply[h]) /\ faults = 0 => paid[h] = 0

\* One handler inserts the key, and the row stays.
Exclusive ==
    \A g, h \in Handlers : g[1] = h[1] /\ Owned(g) /\ Owned(h) => g = h
KeyHeld == \A h \in Handlers : Owned(h) => key[h[1]] # Absent

\* A success is a handler's own, or the one the row holds, which some handler wrote.
Replied == \A h \in Handlers : Success(reply[h]) => reply[h] = Result(h) \/ reply[h] = key[h[1]]
KeyWritten ==
    \A c \in Clients : \/ key[c] \in {Absent, Claimed}
                       \/ \E h \in Handlers : h[1] = c /\ key[c] = Result(h)

RequestInv == /\ Types /\ RequestsLeft
              /\ \A h \in Handlers : Paying(h)
              /\ Exclusive /\ KeyHeld /\ Replied /\ KeyWritten
-----------------------------------------------------------------------------
(* What every statement of a handler does to the invariant. *)

\* The row is as it was; nothing new is owned, and a success is its own or the row's.
LeavesKey(h) ==
    /\ key'[h[1]] = key[h[1]]
    /\ Owned(h)' => Owned(h)
    /\ Success(reply[h])' => reply'[h] \in {Result(h), key[h[1]], reply[h]}

InsertsKey(h) == key[h[1]] = Absent /\ key'[h[1]] = Claimed /\ reply'[h] = reply[h]

WritesKey(h) == /\ Owned(h) /\ key'[h[1]] = Result(h)
                /\ Success(reply[h])' => reply'[h] \in {Result(h), reply[h]}

Step(h) ==
    /\ Types'
    /\ UNCHANGED client
    /\ faults <= faults'
    /\ \A g \in Handlers \ {h} : /\ pc'[g] = pc[g] /\ reply'[g] = reply[g]
                                 /\ paid'[g] = paid[g] /\ charged'[g] = charged[g]
    /\ \A c \in Clients \ {h[1]} : key'[c] = key[c]
    /\ pc[h] # "none"
    /\ Paying(h)'
    /\ LeavesKey(h) \/ InsertsKey(h) \/ WritesKey(h)

\* A handler is a client and a number.
LEMMA HandlerParts ==
    /\ \A h \in Handlers : h[1] \in Clients /\ h[2] \in 1 .. MaxSends /\ h = <<h[1], h[2]>>
    /\ \A c \in Clients, n \in 1 .. MaxSends : <<c, n>> \in Handlers /\ <<c, n>>[1] = c
BY DEF Handlers

\* The result of a request is a success, and tells whose it is.
LEMMA Results ==
    /\ \A h \in Handlers : Result(h) \in Replies /\ Success(Result(h))
    /\ \A g, h \in Handlers : Result(g) = Result(h) => g = h
    /\ ~Success(Absent) /\ ~Success(Claimed)
<1>1. \A h \in Handlers : /\ Result(h).code \in {200, 202} /\ Result(h).of = h
                          /\ Result(h) \in Replies
  BY DEF Result, Replies
<1>2. ~Success(Absent) /\ ~Success(Claimed)
  BY DEF Success, Absent, Claimed, NoReply
<1> QED
  BY <1>1, <1>2 DEF Success

LEMMA StepPreserves ==
    ASSUME RequestInv, NEW h \in Handlers, Step(h)
    PROVE  RequestInv'
<1> USE DEF RequestInv
<1>1. Types'
  BY DEF Step
<1>2. \A g \in Handlers : Result(g)' = Result(g) /\ RouteOf(g)' = RouteOf(g)
  BY DEF Step, client, Result, RouteOf
<1>3. h[1] \in Clients
  BY HandlerParts
<1>4. RequestsLeft'
  <2>1. \A c \in Clients, n \in 1 .. MaxSends : pc[<<c, n>>] = "none" => pc'[<<c, n>>] = "none"
    BY HandlerParts DEF Step
  <2> QED
    BY <2>1 DEF RequestsLeft, Step, client
<1>5. ASSUME NEW g \in Handlers PROVE Paying(g)'
  <2>1. CASE g = h
    BY <2>1 DEF Step
  <2>2. CASE g # h
    <3>1. Paying(g)
      OBVIOUS
    <3>2. /\ pc'[g] = pc[g] /\ reply'[g] = reply[g] /\ paid'[g] = paid[g]
          /\ charged'[g] = charged[g]
      BY <2>2 DEF Step
    <3>3. faults' = 0 => faults = 0
      BY DEF Step, Types
    <3>4. faults > 0 => faults' > 0
      BY RequestConstants DEF Step, Types
    <3> QED
      BY <1>2, <3>1, <3>2, <3>3, <3>4 DEF Paying, Success
  <2> QED
    BY <2>1, <2>2
<1>6. \A g \in Handlers : Owned(g)' /\ g # h => Owned(g)
  <2> SUFFICES ASSUME NEW g \in Handlers, Owned(g)', g # h PROVE Owned(g)
    OBVIOUS
  <2>1. pc'[g] = pc[g] /\ reply'[g] = reply[g] /\ paid'[g] = paid[g]
    BY DEF Step
  <2>2. key'[g[1]] = Result(g) => key[g[1]] = Result(g)
    BY <1>3, HandlerParts, Results DEF Step, Types, LeavesKey, InsertsKey, WritesKey, Success
  <2> QED
    BY <1>2, <2>1, <2>2 DEF Owned
<1>7. CASE LeavesKey(h)
  <2>1. \A c \in Clients : key'[c] = key[c]
    BY <1>7 DEF Step, LeavesKey
  <2>2. \A g \in Handlers : Owned(g)' => Owned(g)
    BY <1>6, <1>7 DEF LeavesKey
  <2>3. Exclusive' /\ KeyHeld'
    BY <2>1, <2>2, HandlerParts DEF Exclusive, KeyHeld
  <2>4. Replied'
    <3> SUFFICES ASSUME NEW g \in Handlers, Success(reply[g])'
                 PROVE  reply'[g] = Result(g) \/ reply'[g] = key'[g[1]]
      BY <1>2 DEF Replied
    <3>1. CASE g = h
      BY <1>7, <2>1, <3>1, HandlerParts DEF LeavesKey, Replied, Success
    <3>2. CASE g # h
      BY <2>1, <3>2, HandlerParts DEF Step, Replied, Success
    <3> QED
      BY <3>1, <3>2
  <2>5. KeyWritten'
    BY <1>2, <2>1 DEF KeyWritten
  <2> QED
    BY <1>1, <1>4, <1>5, <2>3, <2>4, <2>5
<1>8. CASE InsertsKey(h)
  <2>1. \A g \in Handlers : g[1] = h[1] => ~Owned(g)
    BY <1>8 DEF InsertsKey, KeyHeld
  <2>2. \A g \in Handlers : g[1] = h[1] /\ Owned(g)' => g = h
    BY <1>6, <2>1
  <2>3. Exclusive'
    <3> SUFFICES ASSUME NEW f \in Handlers, NEW g \in Handlers, f[1] = g[1], Owned(f)', Owned(g)'
                 PROVE  f = g
      BY DEF Exclusive
    <3> QED
      BY <1>6, <2>2 DEF Exclusive
  <2>4. KeyHeld'
    BY <1>6, <1>8, HandlerParts, <2>2 DEF KeyHeld, InsertsKey, Step, Absent, Claimed, NoReply
  <2>5. Replied'
    <3> SUFFICES ASSUME NEW g \in Handlers, Success(reply[g])'
                 PROVE  reply'[g] = Result(g) \/ reply'[g] = key'[g[1]]
      BY <1>2 DEF Replied
    <3>1. reply'[g] = reply[g]
      BY <1>8 DEF InsertsKey, Step
    <3>2. reply[g] = Result(g) \/ reply[g] = key[g[1]]
      BY <3>1 DEF Replied, Success
    <3>3. CASE g[1] = h[1]
      BY <1>8, <3>1, <3>2, <3>3, Results DEF InsertsKey, Types, Success
    <3>4. CASE g[1] # h[1]
      BY <3>1, <3>2, <3>4, HandlerParts DEF Step
    <3> QED
      BY <3>3, <3>4
  <2>6. KeyWritten'
    BY <1>2, <1>8 DEF KeyWritten, InsertsKey, Step
  <2> QED
    BY <1>1, <1>4, <1>5, <2>3, <2>4, <2>5, <2>6
<1>9. CASE WritesKey(h)
  <2>1. \A g \in Handlers : Owned(g)' => Owned(g)
    BY <1>6, <1>9 DEF WritesKey
  <2>2. Exclusive'
    BY <2>1 DEF Exclusive
  <2>3. \A g \in Handlers : g[1] = h[1] /\ Owned(g) => g = h
    BY <1>9 DEF Exclusive, WritesKey
  <2>4. KeyHeld'
    <3> SUFFICES ASSUME NEW g \in Handlers, Owned(g)' PROVE key'[g[1]] # Absent
      BY DEF KeyHeld, Absent
    <3>1. CASE g[1] = h[1]
      BY <1>9, <3>1, Results DEF WritesKey, Types
    <3>2. CASE g[1] # h[1]
      BY <2>1, <3>2, HandlerParts DEF KeyHeld, Step
    <3> QED
      BY <3>1, <3>2
  <2>5. Replied'
    <3> SUFFICES ASSUME NEW g \in Handlers, Success(reply[g])'
                 PROVE  reply'[g] = Result(g) \/ reply'[g] = key'[g[1]]
      BY <1>2 DEF Replied
    <3>0. reply'[g] = Result(g) \/ reply'[g] = reply[g]
      BY <1>9 DEF WritesKey, Step
    <3>1. CASE reply'[g] = Result(g)
      BY <3>1
    <3>2. CASE reply'[g] = reply[g] /\ g[1] # h[1]
      BY <3>2, HandlerParts DEF Step, Replied, Success
    <3>3. CASE reply'[g] = reply[g] /\ g[1] = h[1] /\ reply[g] # Result(g)
      <4>1. Success(reply[g]) /\ reply[g] = key[h[1]]
        BY <3>3 DEF Replied, Success
      <4>2. PICK f \in Handlers : f[1] = h[1] /\ key[h[1]] = Result(f)
        BY <1>3, <4>1, Results DEF KeyWritten, Types
      <4>3. f = h
        BY <2>3, <4>2 DEF Owned
      <4> QED
        BY <1>9, <3>3, <4>1, <4>2, <4>3 DEF WritesKey
    <3> QED
      BY <3>0, <3>1, <3>2, <3>3
  <2>6. KeyWritten'
    BY <1>2, <1>9 DEF KeyWritten, WritesKey, Step
  <2> QED
    BY <1>1, <1>4, <1>5, <2>2, <2>4, <2>5, <2>6
<1> QED
  BY <1>7, <1>8, <1>9 DEF Step
-----------------------------------------------------------------------------
(* Every action is such a step, or disturbs little. *)

\* What is neither the handler's place nor its answer nor the key.
Around(h) ==
    /\ balance' \in Nat /\ document' \in BOOLEAN /\ contacts' \in BOOLEAN
    /\ paid' \in [Handlers -> -1 .. 2]
    /\ \A g \in Handlers \ {h} : paid'[g] = paid[g]
    /\ faults' \in 0 .. MaxFaults /\ faults <= faults'

\* A handler that is answered with an error, having charged nothing unless something failed.
LEMMA ErrorStep ==
    ASSUME RequestInv, NEW h \in Handlers, NEW code \in {402, 409, 422, 429, 500, 504},
           Answer(h, code), pc[h] # "none", UNCHANGED key, Around(h),
           paid'[h] # 0 => Owned(h) /\ faults' > 0
    PROVE  Step(h)
<1> USE DEF RequestInv
<1> DEFINE r == [code |-> code, of |-> h]
<1>1. r \in Replies /\ ~Success(r) /\ r # Result(h)
  BY DEF Replies, Success, Result
<1>2. /\ pc' \in [Handlers -> Points] /\ pc'[h] = "done"
      /\ reply' \in [Handlers -> Replies \cup {NoReply}] /\ reply'[h] = r
      /\ charged' = charged
      /\ \A g \in Handlers \ {h} : pc'[g] = pc[g] /\ reply'[g] = reply[g]
      /\ UNCHANGED client
  BY <1>1 DEF Answer, AnswerWith, Goto, Types, Points
<1>3. Types'
  BY <1>2 DEF Types, Around, client
<1>4. Result(h)' = Result(h) /\ RouteOf(h)' = RouteOf(h)
  BY <1>2 DEF Result, RouteOf, client
<1>5. LeavesKey(h)
  BY <1>1, <1>2, <1>4 DEF LeavesKey, Owned, OwnerPoints, Success
<1>6. Paying(h)
  OBVIOUS
<1>7. Paying(h)'
  BY <1>1, <1>2, <1>4, <1>6 DEF Paying, Before, Types, Around
<1> QED
  BY <1>2, <1>3, <1>5, <1>7, HandlerParts DEF Step, Around

\* A handler that goes on to a point it may be at.
LEMMA ContinueStep ==
    ASSUME RequestInv, NEW h \in Handlers, NEW point \in Points, Continue(h, point),
           pc[h] # "none", point # "none", UNCHANGED key, Around(h),
           (point \in OwnerPoints \/ paid'[h] # 0) => Owned(h),
           Paying(h)'
    PROVE  Step(h)
<1> USE DEF RequestInv
<1>1. /\ pc' \in [Handlers -> Points] /\ pc'[h] = point
      /\ \A g \in Handlers \ {h} : pc'[g] = pc[g]
      /\ UNCHANGED <<client, reply, charged>>
  BY DEF Continue, Goto, Types
<1>2. Types'
  BY <1>1 DEF Types, Around, client
<1>3. LeavesKey(h)
  BY <1>1 DEF LeavesKey, Owned, client, Result, RouteOf
<1> QED
  BY <1>1, <1>2, <1>3, HandlerParts DEF Step, Around

\* A handler that is answered with a success of its own, or with the one the row holds.
LEMMA SuccessStep ==
    ASSUME RequestInv, NEW h \in Handlers, NEW r \in Replies,
           AnswerWith(h, r), pc[h] # "none", UNCHANGED key, Around(h),
           Success(r), (r = Result(h) /\ Owned(h)) \/ r = key[h[1]], paid'[h] # 0 => Owned(h)
    PROVE  Step(h)
<1> USE DEF RequestInv
<1>1. /\ pc' \in [Handlers -> Points] /\ pc'[h] = "done"
      /\ reply' \in [Handlers -> Replies \cup {NoReply}] /\ reply'[h] = r
      /\ charged' = charged
      /\ \A g \in Handlers \ {h} : pc'[g] = pc[g] /\ reply'[g] = reply[g]
      /\ UNCHANGED client
  BY DEF AnswerWith, Goto, Types, Points
<1>2. Types'
  BY <1>1 DEF Types, Around, client
<1>3. Result(h)' = Result(h) /\ RouteOf(h)' = RouteOf(h)
  BY <1>1 DEF Result, RouteOf, client
<1>4. LeavesKey(h)
  BY <1>1, <1>3 DEF LeavesKey, Owned, OwnerPoints
<1>5. Paying(h)
  OBVIOUS
<1>6. Paying(h)'
  BY <1>1, <1>3, <1>5 DEF Paying, Before, Success
<1> QED
  BY <1>1, <1>2, <1>4, <1>6, HandlerParts DEF Step, Around

\* What is a handler's own.
Placed(h) ==
    /\ pc' \in [Handlers -> Points]
    /\ reply' \in [Handlers -> Replies \cup {NoReply}]
    /\ charged' \in [Handlers -> BOOLEAN]
    /\ \A g \in Handlers \ {h} : pc'[g] = pc[g] /\ reply'[g] = reply[g] /\ charged'[g] = charged[g]
    /\ UNCHANGED client

\* A handler that goes on or is answered changes nothing of the others.
LEMMA Placing ==
    ASSUME Types, NEW h \in Handlers, NEW point \in Points, NEW r \in Replies,
           Continue(h, point) \/ AnswerWith(h, r)
    PROVE  Placed(h)
BY DEF Placed, Continue, AnswerWith, Goto, Types, Points

\* A handler that writes its row.
LEMMA WriteStep ==
    ASSUME RequestInv, NEW h \in Handlers, NEW k \in {Claimed, Result(h)},
           key' = [key EXCEPT ![h[1]] = k], Placed(h), Around(h), Paying(h)', pc[h] # "none",
           \/ k = Claimed /\ key[h[1]] = Absent /\ reply'[h] = reply[h]
           \/ /\ k = Result(h) /\ Owned(h)
              /\ Success(reply[h])' => reply'[h] \in {Result(h), reply[h]}
    PROVE  Step(h)
<1> USE DEF RequestInv
<1>1. key' \in [Clients -> Replies \cup {Absent, Claimed}] /\ key'[h[1]] = k
  BY HandlerParts, Results DEF Types
<1>2. \A c \in Clients \ {h[1]} : key'[c] = key[c]
  BY HandlerParts DEF Types
<1>3. Types'
  BY <1>1 DEF Types, Placed, Around, client
<1>4. InsertsKey(h) \/ WritesKey(h)
  BY <1>1 DEF InsertsKey, WritesKey
<1> QED
  BY <1>2, <1>3, <1>4, HandlerParts DEF Step, Placed, Around

\* Where a handler is after it goes on.
LEMMA Continued ==
    ASSUME Types, NEW h \in Handlers, NEW point \in Points, Continue(h, point)
    PROVE  pc'[h] = point /\ UNCHANGED <<client, reply, charged>> /\ RouteOf(h)' = RouteOf(h)
BY DEF Continue, Goto, Types, RouteOf, client

\* Every statement of a handler, failed or not, is a step of it.
LEMMA HandlerSteps ==
    ASSUME RequestInv, NEW h \in Handlers,
           Statement(h) \/ Raises(h) \/ ReplyLost(h) \/ Dies(h)
    PROVE  Step(h)
<1> USE RequestConstants DEF RequestInv
<1>0. Types /\ Paying(h) /\ h[1] \in Clients
  BY HandlerParts
<1>1. CASE Limit(h)
  <2>1. pc[h] # "none" /\ Around(h)
    BY <1>0, <1>1 DEF Limit, Around, Types, money, company
  <2>2. CASE Answer(h, 429)
    BY <1>0, <1>1, <2>1, <2>2, ErrorStep DEF Limit, Paying, Before, money, Types, Owned
  <2>3. CASE Continue(h, "claim")
    <3>1. Paying(h)'
      BY <1>0, <1>1, <2>3, Continued DEF Limit, Paying, Before, Points, money, Types
    <3> QED
      BY <1>0, <1>1, <2>1, <2>3, <3>1, ContinueStep
         DEF Limit, Points, OwnerPoints, Owned, money
  <2> QED
    BY <1>1, <2>2, <2>3 DEF Limit
<1>2. CASE Lookup(h)
  <2>1. pc[h] # "none" /\ Around(h)
    BY <1>0, <1>2 DEF Lookup, Around, Types, money, company
  <2>2. CASE Answer(h, 409)
    BY <1>0, <1>2, <2>1, <2>2, ErrorStep DEF Lookup, Paying, Before, money, Types, Owned
  <2>3. CASE AnswerWith(h, key[h[1]]) /\ key[h[1]] \notin {Absent, Claimed}
    BY <1>0, <1>2, <2>1, <2>3, SuccessStep, Results
       DEF Lookup, Paying, Before, money, Types, Success, Replies, KeyWritten, Owned
  <2> QED
    BY <1>2, <2>2, <2>3 DEF Lookup
<1>3. CASE Validate(h)
  <2>1. pc[h] # "none" /\ Around(h)
    BY <1>0, <1>3 DEF Validate, Around, Types, money, company
  <2>2. CASE Answer(h, 422)
    BY <1>0, <1>3, <2>1, <2>2, ErrorStep DEF Validate, Paying, Before, money, Types, Owned
  <2>3. CASE Continue(h, "cache")
    <3>1. Paying(h)'
      BY <1>0, <1>3, <2>3, Continued DEF Validate, Paying, Before, Points, money, Types
    <3> QED
      BY <1>0, <1>3, <2>1, <2>3, <3>1, ContinueStep
         DEF Validate, Points, OwnerPoints, Owned, money
  <2> QED
    BY <1>3, <2>2, <2>3 DEF Validate
<1>4. CASE Uncached(h)
  <2>1. pc[h] # "none" /\ Around(h)
    BY <1>0, <1>4 DEF Uncached, Around, Types, money, company
  <2>2. CASE Answer(h, 402)
    BY <1>0, <1>4, <2>1, <2>2, ErrorStep DEF Uncached, Paying, Before, money, Types, Owned
  <2>3. CASE RouteOf(h) = "enrich" /\ Continue(h, "work")
    <3>1. Paying(h)'
      BY <1>0, <1>4, <2>3, Continued DEF Uncached, Paying, Before, Points, money, Types
    <3> QED
      BY <1>0, <1>4, <2>1, <2>3, <3>1, ContinueStep
         DEF Uncached, Points, OwnerPoints, Owned, money
  <2>4. CASE RouteOf(h) # "enrich" /\ Continue(h, "reserve")
    <3>1. Paying(h)'
      BY <1>0, <1>4, <2>4, Continued DEF Uncached, Paying, Before, Points, money, Types
    <3> QED
      BY <1>0, <1>4, <2>1, <2>4, <3>1, ContinueStep
         DEF Uncached, Points, OwnerPoints, Owned, money
  <2> QED
    BY <1>4, <2>2, <2>3, <2>4 DEF Uncached
<1>5. CASE Reserve(h)
  <2>1. pc[h] # "none" /\ Around(h)
    BY <1>0, <1>5 DEF Reserve, Around, Types, money, company, Pay, Paying, Before
  <2>2. CASE UNCHANGED money /\ Answer(h, 402)
    BY <1>0, <1>5, <2>1, <2>2, ErrorStep DEF Reserve, Paying, Before, money, Types, Owned
  <2>3. CASE Pay(h, 2) /\ RouteOf(h) = "research" /\ Continue(h, "enqueue")
    <3>1. Paying(h)'
      BY <1>0, <1>5, <2>3, Continued DEF Reserve, Paying, Before, Points, money, Types, Pay
    <3> QED
      BY <1>0, <1>5, <2>1, <2>3, <3>1, ContinueStep
         DEF Reserve, Points, OwnerPoints, Owned, money, Pay
  <2>4. CASE Pay(h, 2) /\ RouteOf(h) # "research" /\ Continue(h, "work")
    <3>1. Paying(h)'
      BY <1>0, <1>5, <2>4, Continued DEF Reserve, Paying, Before, Points, money, Types, Pay
    <3> QED
      BY <1>0, <1>5, <2>1, <2>4, <3>1, ContinueStep
         DEF Reserve, Points, OwnerPoints, Owned, money, Pay
  <2> QED
    BY <1>5, <2>2, <2>3, <2>4 DEF Reserve
<1>6. CASE Enqueue(h)
  <2>1. pc[h] # "none" /\ Around(h)
    BY <1>0, <1>6 DEF Enqueue, Around, Types, money, company
  <2>2. CASE Continue(h, "save")
    <3>1. Paying(h)'
      BY <1>0, <1>6, <2>2, Continued
         DEF Enqueue, Paying, Before, Points, money, Types, RouteOf, Routes
    <3> QED
      BY <1>0, <1>6, <2>1, <2>2, <3>1, ContinueStep
         DEF Enqueue, Points, OwnerPoints, Owned, money, RouteOf, Routes
  <2> QED
    BY <1>6, <2>2 DEF Enqueue
<1>7. CASE WorkEnds(h)
  <2>1. pc[h] # "none" /\ Around(h)
    <3>1. UNCHANGED <<key, money, contacts, faults>> /\ pc[h] = "work"
      BY <1>7 DEF WorkEnds
    <3>2. document' \in BOOLEAN
      BY <1>0, <1>7 DEF WorkEnds, Types
    <3> QED
      BY <1>0, <3>1, <3>2 DEF Around, Types, money
  <2>2. CASE RouteOf(h) # "clay" /\ Continue(h, "contacts")
    <3>1. Paying(h)'
      BY <1>0, <1>7, <2>2, Continued
         DEF WorkEnds, Paying, Before, Points, money, Types, RouteOf, Routes
    <3> QED
      BY <1>0, <1>7, <2>1, <2>2, <3>1, ContinueStep
         DEF WorkEnds, Points, OwnerPoints, Owned, money, RouteOf, Routes
  <2>3. CASE Continue(h, "usage")
    <3>1. Paying(h)'
      BY <1>0, <1>7, <2>3, Continued
         DEF WorkEnds, Paying, Before, Points, money, Types, RouteOf, Routes
    <3> QED
      BY <1>0, <1>7, <2>1, <2>3, <3>1, ContinueStep
         DEF WorkEnds, Points, OwnerPoints, Owned, money, RouteOf, Routes
  <2> QED
    BY <1>7, <2>2, <2>3 DEF WorkEnds
<1>8. CASE WorkRaises(h)
  <2>1. pc[h] # "none" /\ Around(h)
    <3>1. UNCHANGED <<key, money, contacts, faults>> /\ pc[h] = "work"
      BY <1>8 DEF WorkRaises
    <3>2. document' \in BOOLEAN
      BY <1>0, <1>8 DEF WorkRaises, Types
    <3> QED
      BY <1>0, <3>1, <3>2 DEF Around, Types, money
  <2>2. CASE RouteOf(h) = "clay" /\ Continue(h, "refund")
    <3>1. Paying(h)'
      BY <1>0, <1>8, <2>2, Continued
         DEF WorkRaises, Paying, Before, Points, money, Types, RouteOf, Routes
    <3> QED
      BY <1>0, <1>8, <2>1, <2>2, <3>1, ContinueStep
         DEF WorkRaises, Points, OwnerPoints, Owned, money, RouteOf, Routes
  <2>3. CASE RouteOf(h) # "clay" /\ Answer(h, 500)
    BY <1>0, <1>8, <2>1, <2>3, ErrorStep
       DEF WorkRaises, Paying, Before, money, Types, Owned, RouteOf, Routes
  <2> QED
    BY <1>8, <2>2, <2>3 DEF WorkRaises
<1>9. CASE SaveContacts(h)
  <2>1. pc[h] # "none" /\ Around(h)
    BY <1>0, <1>9 DEF SaveContacts, Around, Types, money, company
  <2>2. CASE Continue(h, "charge")
    <3>1. Paying(h)'
      BY <1>0, <1>9, <2>2, Continued DEF SaveContacts, Paying, Before, Points, money, Types
    <3> QED
      BY <1>0, <1>9, <2>1, <2>2, <3>1, ContinueStep
         DEF SaveContacts, Points, OwnerPoints, Owned, money
  <2> QED
    BY <1>9, <2>2 DEF SaveContacts
<1>10. CASE Usage(h)
  <2>1. pc[h] # "none" /\ Around(h)
    BY <1>0, <1>10 DEF Usage, Around, Types, money, company
  <2>2. CASE Continue(h, "finish")
    <3>1. Paying(h)'
      BY <1>0, <1>10, <2>2, Continued
         DEF Usage, Paying, Before, Points, money, Types, RouteOf, Routes
    <3> QED
      BY <1>0, <1>10, <2>1, <2>2, <3>1, ContinueStep
         DEF Usage, Points, OwnerPoints, Owned, money, RouteOf, Routes
  <2>3. CASE Continue(h, "save")
    <3>1. Paying(h)'
      BY <1>0, <1>10, <2>3, Continued
         DEF Usage, Paying, Before, Points, money, Types, RouteOf, Routes
    <3> QED
      BY <1>0, <1>10, <2>1, <2>3, <3>1, ContinueStep
         DEF Usage, Points, OwnerPoints, Owned, money, RouteOf, Routes
  <2> QED
    BY <1>10, <2>2, <2>3 DEF Usage
<1>11. CASE Finish(h)
  <2>1. pc[h] # "none" /\ Around(h)
    BY <1>0, <1>11 DEF Finish, Around, Types, money, company
  <2>2. CASE Continue(h, "save")
    <3>1. Paying(h)'
      BY <1>0, <1>11, <2>2, Continued DEF Finish, Paying, Before, Points, money, Types
    <3> QED
      BY <1>0, <1>11, <2>1, <2>2, <3>1, ContinueStep
         DEF Finish, Points, OwnerPoints, Owned, money
  <2> QED
    BY <1>11, <2>2 DEF Finish
<1>12. CASE Refund(h)
  <2>1. pc[h] # "none" /\ Around(h)
    BY <1>0, <1>12
       DEF Refund, Around, Types, money, company, Pay, Price, Paying, RouteOf, Routes
  <2>2. CASE Continue(h, "fail")
    <3>1. Paying(h)'
      BY <1>0, <1>12, <2>2, Continued
         DEF Refund, Paying, Before, Points, money, Types, Pay, Price, RouteOf, Routes
    <3> QED
      BY <1>0, <1>12, <2>1, <2>2, <3>1, ContinueStep
         DEF Refund, Points, OwnerPoints, Owned, money, Pay, Price, RouteOf, Routes
  <2> QED
    BY <1>12, <2>2 DEF Refund
<1>13. CASE Fail(h)
  <2>1. pc[h] # "none" /\ Around(h)
    BY <1>0, <1>13 DEF Fail, Around, Types, money, company
  <2>2. CASE Answer(h, 500)
    BY <1>0, <1>13, <2>1, <2>2, ErrorStep DEF Fail, Paying, Before, money, Types, Owned
  <2>3. CASE Answer(h, 504)
    BY <1>0, <1>13, <2>1, <2>3, ErrorStep DEF Fail, Paying, Before, money, Types, Owned
  <2> QED
    BY <1>13, <2>2, <2>3 DEF Fail
<1>14. CASE Raises(h)
  <2>1. pc[h] # "none" /\ Around(h)
    BY <1>0, <1>14 DEF Raises, Around, Types, money, company, Fault
  <2>2. CASE InTry(h) /\ Continue(h, "refund")
    <3>1. Paying(h)'
      BY <1>0, <1>14, <2>2, Continued
         DEF Raises, Paying, Before, Points, money, Types, Fault, InTry, RouteOf,
             Routes
    <3> QED
      BY <1>0, <1>14, <2>1, <2>2, <3>1, ContinueStep
         DEF Raises, Points, OwnerPoints, Owned, money, Fault, InTry, RouteOf, Routes
  <2>3. CASE ~InTry(h) /\ Answer(h, 500)
    BY <1>0, <1>14, <2>1, <2>3, ErrorStep
       DEF Raises, Paying, Before, money, Types, Owned, Fault
  <2> QED
    BY <1>14, <2>2, <2>3 DEF Raises, Except
<1>15. CASE Cached(h)
  <2>1. pc[h] # "none" /\ Around(h)
    BY <1>0, <1>15 DEF Cached, Around, Types, money, company
  <2>2. CASE RouteOf(h) = "enrich" /\ Answer(h, 200)
    BY <1>0, <1>15, <2>1, <2>2, SuccessStep, Results
       DEF Cached, Answer, Result, Paying, Before, money, Types,
       Owned, OwnerPoints
  <2>3. CASE RouteOf(h) # "enrich" /\ Continue(h, "replay")
    <3>1. Paying(h)'
      BY <1>0, <1>15, <2>3, Continued DEF Cached, Paying, Before, Points, money, Types
    <3> QED
      BY <1>0, <1>15, <2>1, <2>3, <3>1, ContinueStep
         DEF Cached, Points, OwnerPoints, Owned, money
  <2> QED
    BY <1>15, <2>2, <2>3 DEF Cached
<1>16. CASE Claim(h)
  <2>1. pc[h] # "none" /\ Around(h)
    BY <1>0, <1>16 DEF Claim, Around, Types, money, company
  <2>2. CASE key[h[1]] = Absent
    <3>1. Continue(h, "validate") /\ key' = [key EXCEPT ![h[1]] = Claimed]
      BY <1>16, <2>2 DEF Claim
    <3>2. Placed(h)
      BY <1>0, <3>1, Placing, Results DEF Points
    <3>3. Paying(h)' /\ reply'[h] = reply[h]
      BY <1>0, <1>16, <3>1, Continued DEF Claim, Paying, Before, Points, money
    <3> QED
      BY <2>2, <2>1, <3>1, <3>2, <3>3, WriteStep
  <2>3. CASE Continue(h, "lookup") /\ UNCHANGED key
    <3>1. Paying(h)'
      BY <1>0, <1>16, <2>3, Continued DEF Claim, Paying, Before, Points, money, Types
    <3> QED
      BY <1>0, <1>16, <2>1, <2>3, <3>1, ContinueStep
         DEF Claim, Points, OwnerPoints, Owned, money
  <2> QED
    BY <1>16, <2>2, <2>3 DEF Claim
<1>17. CASE Charge(h)
  <2>1. pc[h] # "none" /\ Around(h)
    BY <1>0, <1>17
       DEF Charge, Around, Types, money, company, ChargeIfFunds, Pay, Paying, Before
  <2>2. /\ Placed(h) /\ pc'[h] = "usage" /\ charged'[h] = TRUE
        /\ UNCHANGED <<client, reply, key>>
    BY <1>0, <1>17 DEF Charge, Placed, Goto, Types, Points
  <2>3. RouteOf(h) = "enrich" /\ paid'[h] \in {0, 1}
    BY <1>0, <1>17 DEF Charge, ChargeIfFunds, Pay, Paying, Before, Types, money
  <2>4. Paying(h)'
    BY <1>0, <1>17, <2>2, <2>3 DEF Charge, Paying, Before, RouteOf, client
  <2>5. LeavesKey(h)
    BY <1>17, <2>2 DEF Charge, LeavesKey, Owned, OwnerPoints, Result, RouteOf, client
  <2>6. Types'
    BY <1>0, <2>1, <2>2 DEF Types, Placed, Around, client
  <2> QED
    BY <2>1, <2>2, <2>4, <2>5, <2>6 DEF Step, Placed, Around
<1>18. CASE Save(h)
  <2>1. pc[h] # "none" /\ Around(h)
    BY <1>0, <1>18 DEF Save, Around, Types, money, company
  <2>2. AnswerWith(h, Result(h)) /\ Placed(h)
    BY <1>0, <1>18, Placing, Results DEF Save, Points
  <2>3. pc'[h] = "done" /\ reply'[h] = Result(h)
    BY <1>0, <2>2 DEF AnswerWith, Goto, Types
  <2>4. Result(h)' = Result(h) /\ RouteOf(h)' = RouteOf(h)
    BY <2>2 DEF Placed, Result, RouteOf, client
  <2>5. Paying(h)'
    BY <1>0, <1>18, <2>2, <2>3, <2>4, Results DEF Save, Paying, Before, Success, AnswerWith
  <2> QED
    BY <1>18, <2>1, <2>2, <2>3, <2>5, WriteStep DEF Save, Owned, OwnerPoints
<1>19. CASE ReplyLost(h)
  <2>1. pc[h] # "none" /\ Around(h)
    BY <1>0, <1>19
       DEF ReplyLost, Around, Types, money, company, Fault, ChargeIfFunds, Pay, Paying,
           Before
  <2>2. CASE pc[h] = "reserve"
    BY <1>0, <1>19, <2>1, <2>2, ErrorStep
       DEF ReplyLost, Except, InTry, Fault, Owned, OwnerPoints, Types, Paying
  <2>3. CASE pc[h] = "charge"
    BY <1>0, <1>19, <2>1, <2>3, ErrorStep
       DEF ReplyLost, Except, InTry, Fault, Owned, OwnerPoints, Types, Paying
  <2>4. CASE pc[h] \in {"save", "replay"} /\ InTry(h)
    <3>1. Continue(h, "refund") /\ key' = [key EXCEPT ![h[1]] = Result(h)] /\ UNCHANGED money
      BY <1>19, <2>4 DEF ReplyLost, Except
    <3>2. Placed(h)
      BY <1>0, <3>1, Placing, Results DEF Points
    <3>3. Paying(h)' /\ reply'[h] = reply[h]
      BY <1>0, <1>19, <2>4, <2>1, <3>1, Continued
         DEF ReplyLost, Fault, InTry, Paying, Before, Points, money, RouteOf, Routes, Types
    <3> QED
      BY <2>4, <2>1, <3>1, <3>2, <3>3, WriteStep DEF Owned, OwnerPoints
  <2>5. CASE pc[h] \in {"save", "replay"} /\ ~InTry(h)
    <3> DEFINE r == [code |-> 500, of |-> h]
    <3>1. AnswerWith(h, r) /\ key' = [key EXCEPT ![h[1]] = Result(h)]
      BY <1>19, <2>5 DEF ReplyLost, Except, Answer
    <3>2. r \in Replies /\ ~Success(r)
      BY DEF Replies, Success
    <3>3. Placed(h)
      BY <1>0, <3>1, <3>2, Placing DEF Points
    <3>4. reply'[h] = r /\ pc'[h] = "done" /\ charged' = charged
      BY <1>0, <3>1 DEF AnswerWith, Goto, Types
    <3>5. Paying(h)'
      BY <1>0, <1>19, <3>3, <3>4
         DEF ReplyLost, Fault, Paying, Before, RouteOf, Placed, client, Types
    <3>6. Owned(h) /\ ~Success(reply[h])'
      BY <2>5, <3>2, <3>4 DEF Owned, OwnerPoints, Success
    <3> QED
      BY <2>5, <2>1, <3>1, <3>3, <3>5, <3>6, WriteStep
  <2> QED
    BY <1>19, <2>2, <2>3, <2>4, <2>5 DEF ReplyLost
<1>20. CASE Dies(h)
  <2>1. pc[h] # "none" /\ Around(h)
    BY <1>0, <1>20 DEF Dies, Around, Types, money, company, Fault
  <2>2. Placed(h) /\ pc'[h] = "done" /\ UNCHANGED <<client, reply, charged, key, money>>
    BY <1>0, <1>20 DEF Dies, Placed, Goto, Types, Points
  <2>3. Paying(h)'
    BY <1>0, <1>20, <2>2 DEF Dies, Fault, Paying, Before, RouteOf, Types, client
  <2>4. LeavesKey(h)
    BY <2>2 DEF LeavesKey, Owned, OwnerPoints, Result, RouteOf, client, money
  <2>5. Types'
    BY <1>0, <2>1, <2>2 DEF Types, Placed, Around, client
  <2> QED
    BY <2>1, <2>2, <2>3, <2>4, <2>5 DEF Step, Placed, Around
<1> QED
  BY <1>1, <1>2, <1>3, <1>4, <1>5, <1>6, <1>7, <1>8, <1>9, <1>10, <1>11, <1>12, <1>13, <1>14,
     <1>15, <1>16, <1>17, <1>18, <1>19, <1>20
     DEF Statement

\* A client sends once more, which starts a handler that nothing has happened to.
LEMMA SendPreserves ==
    ASSUME RequestInv, NEW c \in Clients, Send(c) \/ Retry(c)
    PROVE  RequestInv'
<1> USE RequestConstants DEF RequestInv
<1> DEFINE h == <<c, sent[c] + 1>>
<1>1. Post(c) /\ sent[c] < MaxSends
  <2>1. CASE Send(c)
    BY <2>1 DEF Send, Types
  <2>2. CASE Retry(c)
    BY <2>2 DEF Retry, Types, RequestsLeft
  <2> QED
    BY <2>1, <2>2
<1>2. h \in Handlers /\ h[1] = c /\ pc[h] = "none"
  BY <1>1, HandlerParts DEF Types, RequestsLeft
<1>3. /\ UNCHANGED <<route, reply, charged, key, balance, paid, document, contacts, faults>>
      /\ pc' = [pc EXCEPT ![h] = "limit"]
      /\ call' = [call EXCEPT ![c] = "waiting"] /\ sent' = [sent EXCEPT ![c] = @ + 1]
  BY <1>1 DEF Post, money, company
<1>4. Types'
  <2>1. tries' \in [Clients -> 0 .. MaxRetries]
    BY DEF Types, Send, Retry, RequestsLeft
  <2>2. /\ sent' \in [Clients -> 0 .. MaxSends]
        /\ call' \in [Clients -> {"idle", "waiting", "sleeping", "returned", "raised"}]
    BY <1>1, <1>3 DEF Types
  <2>3. pc' \in [Handlers -> Points]
    BY <1>2, <1>3 DEF Types, Points
  <2> QED
    BY <1>3, <2>1, <2>2, <2>3 DEF Types
<1>5. RequestsLeft'
  <2> SUFFICES ASSUME NEW d \in Clients
               PROVE  /\ call'[d] \in {"waiting", "sleeping"}
                             => sent'[d] + MaxRetries - tries'[d] <= MaxSends
                      /\ call'[d] = "sleeping" => tries'[d] < MaxRetries
                      /\ \A n \in 1 .. MaxSends : n > sent'[d] => pc'[<<d, n>>] = "none"
    BY DEF RequestsLeft
  <2>1. CASE d = c
    <3>1. call'[c] = "waiting" /\ sent'[c] = sent[c] + 1
      BY <1>3 DEF Types
    <3>2. sent'[c] + MaxRetries - tries'[c] <= MaxSends
      BY <3>1 DEF Send, Retry, RequestsLeft, Types
    <3>3. \A n \in 1 .. MaxSends : n > sent'[c] => pc'[<<c, n>>] = "none"
      <4> SUFFICES ASSUME NEW n \in 1 .. MaxSends, n > sent'[c] PROVE pc'[<<c, n>>] = "none"
        OBVIOUS
      <4>1. n > sent[c] /\ n # sent[c] + 1
        BY <3>1 DEF Types
      <4>2. pc[<<c, n>>] = "none" /\ <<c, n>> # h /\ <<c, n>> \in Handlers
        BY <4>1, HandlerParts DEF RequestsLeft
      <4> QED
        BY <1>3, <4>2 DEF Types
    <3> QED
      BY <2>1, <3>1, <3>2, <3>3
  <2>2. CASE d # c
    <3>1. call'[d] = call[d] /\ sent'[d] = sent[d] /\ tries'[d] = tries[d]
      BY <1>3, <2>2 DEF Types, Send, Retry
    <3>2. \A n \in 1 .. MaxSends : pc'[<<d, n>>] = pc[<<d, n>>]
      BY <1>3, <2>2, HandlerParts DEF Types
    <3> QED
      BY <3>1, <3>2 DEF RequestsLeft
  <2> QED
    BY <2>1, <2>2
<1>6. \A g \in Handlers : /\ g # h => pc'[g] = pc[g]
                          /\ g = h => pc'[g] = "limit"
  BY <1>2, <1>3 DEF Types
<1>7. \A g \in Handlers : Result(g)' = Result(g) /\ RouteOf(g)' = RouteOf(g)
  BY <1>3 DEF Result, RouteOf
<1>8. \A g \in Handlers : Owned(g)' => Owned(g)
  BY <1>3, <1>6, <1>7 DEF Owned, OwnerPoints
<1>9. ASSUME NEW g \in Handlers PROVE Paying(g)'
  <2>1. Paying(g)
    OBVIOUS
  <2>2. CASE g = h
    BY <1>2, <1>3, <1>6, <1>7, <2>1, <2>2 DEF Paying, Before
  <2>3. CASE g # h
    BY <1>3, <1>6, <1>7, <2>1, <2>3 DEF Paying, Success
  <2> QED
    BY <2>2, <2>3
<1>10. Exclusive' /\ KeyHeld'
  BY <1>3, <1>8 DEF Exclusive, KeyHeld, Absent
<1>11. Replied' /\ KeyWritten'
  BY <1>3, <1>7 DEF Replied, KeyWritten, Success
<1> QED
  BY <1>4, <1>5, <1>9, <1>10, <1>11

\* The key expires: its handlers are done and forgotten.
LEMMA KeyExpiresPreserves ==
    ASSUME RequestInv, NEW c \in Clients, KeyExpires(c)
    PROVE  RequestInv'
<1> USE RequestConstants DEF RequestInv
<1>1. /\ key' = [key EXCEPT ![c] = Absent] /\ call' = [call EXCEPT ![c] = "idle"]
      /\ tries' = [tries EXCEPT ![c] = 0] /\ sent' = [sent EXCEPT ![c] = 0]
      /\ UNCHANGED <<route, balance, document, contacts, faults>>
  BY DEF KeyExpires, company
<1>2. \A h \in Handlers : h[1] = c => /\ pc'[h] = "none" /\ reply'[h] = NoReply
                                      /\ charged'[h] = FALSE /\ paid'[h] = 0
  BY DEF KeyExpires
<1>3. \A h \in Handlers : h[1] # c => /\ pc'[h] = pc[h] /\ reply'[h] = reply[h]
                                      /\ charged'[h] = charged[h] /\ paid'[h] = paid[h]
  BY DEF KeyExpires
<1>4. Types'
  <2>1. pc' \in [Handlers -> Points] /\ reply' \in [Handlers -> Replies \cup {NoReply}]
    BY DEF KeyExpires, Types, Points
  <2>2. charged' \in [Handlers -> BOOLEAN]
    BY DEF KeyExpires, Types
  <2>3. paid' \in [Handlers -> -1 .. 2]
    <3>1. paid' = [h \in Handlers |-> IF h[1] = c THEN 0 ELSE paid[h]]
      BY DEF KeyExpires
    <3>2. 0 \in -1 .. 2
      OBVIOUS
    <3> QED
      BY <3>1, <3>2 DEF Types
  <2>4. /\ key' \in [Clients -> Replies \cup {Absent, Claimed}]
        /\ call' \in [Clients -> {"idle", "waiting", "sleeping", "returned", "raised"}]
        /\ tries' \in [Clients -> 0 .. MaxRetries] /\ sent' \in [Clients -> 0 .. MaxSends]
    BY <1>1 DEF Types
  <2> QED
    BY <1>1, <2>1, <2>2, <2>3, <2>4 DEF Types
<1>5. RequestsLeft'
  BY <1>1, <1>2, <1>3, HandlerParts DEF RequestsLeft, Types
<1>6. \A h \in Handlers : Result(h)' = Result(h) /\ RouteOf(h)' = RouteOf(h)
  BY <1>1 DEF Result, RouteOf
<1>7. \A h \in Handlers : h[1] = c => ~Owned(h)'
  <2> SUFFICES ASSUME NEW h \in Handlers, h[1] = c PROVE ~Owned(h)'
    OBVIOUS
  <2>1. pc'[h] = "none" /\ reply'[h] = NoReply /\ paid'[h] = 0 /\ key'[h[1]] = NoReply
    BY <1>1, <1>2 DEF Types, Absent
  <2>2. Result(h) # NoReply /\ Result(h)' = Result(h)
    BY <1>6, Results DEF Absent
  <2> QED
    BY <2>1, <2>2 DEF Owned, OwnerPoints
<1>8. \A h \in Handlers : h[1] # c => key'[h[1]] = key[h[1]] /\ (Owned(h)' => Owned(h))
  BY <1>1, <1>3, <1>6, HandlerParts DEF Owned, Types
<1>9. ASSUME NEW h \in Handlers PROVE Paying(h)'
  <2>1. Paying(h)
    OBVIOUS
  <2>2. CASE h[1] = c
    BY <1>2, <2>2 DEF Paying, Before
  <2>3. CASE h[1] # c
    BY <1>1, <1>3, <1>6, <2>1, <2>3 DEF Paying, Success
  <2> QED
    BY <2>2, <2>3
<1>10. Exclusive' /\ KeyHeld'
  BY <1>7, <1>8 DEF Exclusive, KeyHeld, Absent
<1>11. Replied'
  BY <1>2, <1>3, <1>6, <1>8, Results DEF Replied, Success, Absent, NoReply
<1>12. KeyWritten'
  BY <1>1, <1>6 DEF KeyWritten, Types
<1> QED
  BY <1>4, <1>5, <1>9, <1>10, <1>11, <1>12

\* Whatever changes no key and no handler.
LEMMA OthersPreserve ==
    ASSUME RequestInv, Types', RequestsLeft', UNCHANGED <<route, handler, key, paid, faults>>
    PROVE  RequestInv'
<1> USE DEF RequestInv, handler
<1>1. \A h \in Handlers : Result(h)' = Result(h) /\ RouteOf(h)' = RouteOf(h)
  BY DEF Result, RouteOf
<1>2. \A h \in Handlers : Owned(h)' = Owned(h)
  BY <1>1 DEF Owned
<1>3. \A h \in Handlers : Paying(h)'
  BY <1>1 DEF Paying, Success
<1>4. Exclusive' /\ KeyHeld' /\ Replied' /\ KeyWritten'
  BY <1>1, <1>2 DEF Exclusive, KeyHeld, Replied, KeyWritten, Success, Absent
<1> QED
  BY <1>3, <1>4

\* The inductive invariant: types, requests left, what each place has charged, one handler per
\* key, and where successes come from.
THEOREM RequestInductive == ApiSpec => []RequestInv
<1> USE RequestConstants
<1>1. ApiInit => RequestInv
  <2> SUFFICES ASSUME ApiInit PROVE RequestInv
    OBVIOUS
  <2>1. Types
    <3>1. 0 \in -1 .. 2 /\ 0 \in 0 .. MaxRetries /\ 0 \in 0 .. MaxSends /\ 0 \in 0 .. MaxFaults
      OBVIOUS
    <3>2. /\ tries \in [Clients -> 0 .. MaxRetries] /\ sent \in [Clients -> 0 .. MaxSends]
          /\ paid \in [Handlers -> -1 .. 2]
      BY <3>1 DEF ApiInit
    <3>3. /\ call \in [Clients -> {"idle", "waiting", "sleeping", "returned", "raised"}]
          /\ pc \in [Handlers -> Points] /\ reply \in [Handlers -> Replies \cup {NoReply}]
          /\ charged \in [Handlers -> BOOLEAN] /\ key \in [Clients -> Replies \cup {Absent, Claimed}]
      BY DEF ApiInit, Points
    <3> QED
      BY <3>1, <3>2, <3>3 DEF ApiInit, Types
  <2>2. RequestsLeft
    BY HandlerParts DEF ApiInit, RequestsLeft
  <2>3. \A h \in Handlers : Paying(h) /\ ~Owned(h) /\ ~Success(reply[h])
    BY HandlerParts, Results
       DEF ApiInit, Paying, Before, Owned, OwnerPoints, Absent, NoReply, Success
  <2>4. Exclusive /\ KeyHeld /\ Replied
    BY <2>3 DEF Exclusive, KeyHeld, Replied
  <2>5. KeyWritten
    BY DEF ApiInit, KeyWritten
  <2> QED
    BY <2>1, <2>2, <2>3, <2>4, <2>5 DEF RequestInv
<1>2. RequestInv /\ [ApiNext]_apiVars => RequestInv'
  <2> SUFFICES ASSUME RequestInv, [ApiNext]_apiVars PROVE RequestInv'
    OBVIOUS
  <2>1. ASSUME NEW c \in Clients, Send(c) \/ Retry(c) PROVE RequestInv'
    BY <2>1, SendPreserves
  <2>2. ASSUME NEW c \in Clients, Receive(c) \/ TimesOut(c) PROVE RequestInv'
    <3>1. UNCHANGED <<tries, sent, route, handler, key, money, company, faults>>
      BY <2>2 DEF Receive, TimesOut
    <3>2. Types'
      BY <2>2, <3>1 DEF RequestInv, Types, Receive, TimesOut, handler, money, company
    <3>3. RequestsLeft'
      BY <2>2, <3>1 DEF RequestInv, RequestsLeft, Receive, TimesOut, Transient, Types, handler
    <3> QED
      BY <3>1, <3>2, <3>3, OthersPreserve DEF money
  <2>3. ASSUME NEW c \in Clients, KeyExpires(c) PROVE RequestInv'
    BY <2>3, KeyExpiresPreserves
  <2>4. ASSUME NEW h \in Handlers, Statement(h) \/ Raises(h) \/ ReplyLost(h) \/ Dies(h)
        PROVE  RequestInv'
    BY <2>4, HandlerSteps, StepPreserves
  <2>5. CASE DocumentAppears \/ DocumentAges \/ OthersCharge
    <3>1. UNCHANGED <<client, handler, key, paid, contacts, faults>>
      BY <2>5 DEF DocumentAppears, DocumentAges, OthersCharge, money, company
    <3>2. balance' \in Nat
      BY <2>5 DEF DocumentAppears, DocumentAges, OthersCharge, money, RequestInv, Types
    <3>3. document' \in BOOLEAN
      BY <2>5 DEF DocumentAppears, DocumentAges, OthersCharge, company, RequestInv, Types
    <3>4. Types'
      BY <3>1, <3>2, <3>3 DEF RequestInv, Types, client, handler
    <3>5. RequestsLeft'
      BY <3>1 DEF RequestInv, RequestsLeft, client, handler
    <3> QED
      BY <3>1, <3>4, <3>5, OthersPreserve DEF client
  <2>6. CASE UNCHANGED apiVars
    <3>1. UNCHANGED <<client, handler, key, money, company, faults>>
      BY <2>6 DEF apiVars
    <3>2. Types' /\ RequestsLeft'
      BY <3>1 DEF RequestInv, Types, RequestsLeft, client, handler, money, company
    <3> QED
      BY <3>1, <3>2, OthersPreserve DEF client, money
  <2> QED
    BY <2>1, <2>2, <2>3, <2>4, <2>5, <2>6 DEF ApiNext
<1> QED
  BY <1>1, <1>2, PTL DEF ApiSpec

\* Every variable keeps its type: no charge overdraws the balance, and no handler refunds more
\* than enrich's half credit that it did not charge.
THEOREM ApiTypeCorrect == ApiSpec => []ApiTypeOK
<1>1. RequestInv => ApiTypeOK
  <2> SUFFICES ASSUME RequestInv PROVE ApiTypeOK
    OBVIOUS
  <2>1. ASSUME NEW c \in Clients PROVE key[c] \in {Absent, Claimed} \/ Success(key[c])
    <3>1. CASE key[c] \in {Absent, Claimed}
      BY <3>1
    <3>2. CASE \E h \in Handlers : key[c] = Result(h)
      BY <3>2, Results
    <3> QED
      BY <3>1, <3>2 DEF RequestInv, KeyWritten
  <2>2. \A h \in Handlers : reply[h] \in Replies \cup {NoReply}
    BY DEF RequestInv, Types
  <2> QED
    BY <2>1, <2>2 DEF RequestInv, Types, ApiTypeOK
<1> QED
  BY <1>1, RequestInductive, PTL

\* However often a key is sent, one of its requests at most is charged.
THEOREM ChargedOnce == ApiSpec => []PaidOncePerKey
<1>1. RequestInv => PaidOncePerKey
  <2> SUFFICES ASSUME RequestInv, NEW g \in Handlers, NEW h \in Handlers, g[1] = h[1],
                      paid[g] > 0, paid[h] > 0
               PROVE  g = h
    BY DEF PaidOncePerKey
  <2>1. Owned(g) /\ Owned(h)
    BY DEF Owned, RequestInv, Types
  <2> QED
    BY <2>1 DEF RequestInv, Exclusive
<1> QED
  BY <1>1, RequestInductive, PTL

\* Every success told under one key is the same.
THEOREM OneAnswer == ApiSpec => []AnswersAgree
<1>1. RequestInv => AnswersAgree
  <2> SUFFICES ASSUME RequestInv, NEW g \in Handlers, NEW h \in Handlers, g[1] = h[1],
                      Success(reply[g]), Success(reply[h])
               PROVE  reply[g] = reply[h]
    BY DEF AnswersAgree
  <2>1. ASSUME NEW f \in Handlers, Success(reply[f])
        PROVE  \E owner \in Handlers : /\ owner[1] = f[1] /\ Owned(owner)
                                       /\ reply[f] = Result(owner)
    <3>1. CASE reply[f] = Result(f)
      BY <3>1 DEF Owned
    <3>2. CASE reply[f] = key[f[1]]
      <4>1. key[f[1]] \notin {Absent, Claimed} /\ f[1] \in Clients
        BY <2>1, <3>2, Results, HandlerParts
      <4>2. PICK owner \in Handlers : owner[1] = f[1] /\ key[f[1]] = Result(owner)
        BY <4>1 DEF RequestInv, KeyWritten
      <4> QED
        BY <3>2, <4>2 DEF Owned
    <3> QED
      BY <2>1, <3>1, <3>2 DEF RequestInv, Replied
  <2> QED
    BY <2>1 DEF RequestInv, Exclusive
<1> QED
  BY <1>1, RequestInductive, PTL

\* Unless a statement failed, an error costs nothing.
THEOREM ErrorsCostNothing == ApiSpec => []ErrorsAreFree
<1>1. RequestInv => ErrorsAreFree
  BY DEF RequestInv, Paying, ErrorsAreFree
<1> QED
  BY <1>1, RequestInductive, PTL
=============================================================================

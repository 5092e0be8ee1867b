--------------------------- MODULE DispatchProofs ---------------------------
(***************************************************************************)
(* What Dispatch guarantees for any requests, services and number of       *)
(* calls, and for ids of any length in any base. An interface is counted   *)
(* by the closures that hold it, that is, by the calls that are out for    *)
(* its request; every action changes that set and the phase together. The  *)
(* ids are counted with: what a carry does to digits is what adding 1 does *)
(* to the number they stand for.                                           *)
(***************************************************************************)
EXTENDS Dispatch, WellFoundedInduction, TLAPS

-----------------------------------------------------------------------------
(* The digit that a carry ends at *)

NatLess == { p \in Nat \X Nat : p[1] < p[2] }

LEMMA NatLessWellFounded == IsWellFoundedOn(NatLess, Nat)
BY NatLessThanWellFounded DEF OpToRel, NatLess

LEMMA Minimum ==
  ASSUME NEW S \in SUBSET Nat, S # {}
  PROVE  \E n \in S : \A m \in S : n <= m
<1>1. PICK n \in S : \A m \in S : ~(<<m, n>> \in NatLess)
  BY NatLessWellFounded, WFMin
<1>2. ASSUME NEW m \in S PROVE n <= m
  <2>1. <<m, n>> \in Nat \X Nat /\ <<m, n>>[1] = m /\ <<m, n>>[2] = n
    OBVIOUS
  <2>2. ~(m < n)
    BY <1>1, <2>1, Zenon DEF NatLess
  <2> QED
    BY <2>2
<1> QED
  BY <1>2

LEMMA Maximum ==
  ASSUME NEW n \in Nat, NEW S \in SUBSET (1 .. n), S # {}
  PROVE  \E i \in S : \A j \in S : j <= i
<1> DEFINE T == { n - i : i \in S }
<1>1. T \in SUBSET Nat /\ T # {}
  <2>1. \A i \in 1 .. n : n - i \in Nat
    OBVIOUS
  <2> QED
    BY <2>1
<1>2. PICK t \in T : \A u \in T : t <= u
  BY <1>1, Minimum
<1>3. PICK i \in S : t = n - i
  BY <1>2
<1>4. ASSUME NEW j \in S PROVE j <= i
  <2>1. n - i <= n - j
    BY <1>2, <1>3
  <2> QED
    BY <2>1
<1> QED
  BY <1>4

-----------------------------------------------------------------------------
\* The carry stays within the digits.
LEMMA IncrementedType ==
  ASSUME NEW no \in Digits
  PROVE  Incremented(no) \in Digits
<1> DEFINE below == { i \in 1 .. g_msg_id_length : no[i] # Nine }
           last  == CHOOSE i \in below : \A j \in below : j <= i
<1>1. CASE below = {}
  <2>1. ZeroId \in Digits
    BY BaseAssumption DEF ZeroId, Digits
  <2> QED
    BY <1>1, <2>1 DEF Incremented
<1>2. CASE below # {}
  <2>1. \E i \in below : \A j \in below : j <= i
    BY <1>2, Maximum, LengthAssumption
  <2>2. last \in below
    BY <2>1
  <2>3. last \in 1 .. g_msg_id_length /\ no[last] # Nine /\ no[last] \in 0 .. Base - 1
    BY <2>2 DEF Digits
  <2>4. no[last] + 1 \in 0 .. Base - 1
    BY <2>3, BaseAssumption DEF Nine
  <2>5. Incremented(no) = [ i \in 1 .. g_msg_id_length |->
               IF i < last THEN no[i] ELSE IF i = last THEN no[i] + 1 ELSE 0 ]
    BY <1>2 DEF Incremented
  <2>6. ASSUME NEW i \in 1 .. g_msg_id_length
        PROVE  (IF i < last THEN no[i] ELSE IF i = last THEN no[i] + 1 ELSE 0) \in 0 .. Base - 1
    <3> HIDE DEF last
    <3>1. no[i] \in 0 .. Base - 1
      BY DEF Digits
    <3>2. 0 \in 0 .. Base - 1
      BY BaseAssumption
    <3> QED
      BY <2>4, <3>1, <3>2
  <2> HIDE DEF last
  <2> QED
    BY <2>5, <2>6 DEF Digits
<1> QED
  BY <1>1, <1>2

LEMMA GenerateType ==
  ASSUME NEW g \in Generators, NEW random \in Digits
  PROVE  generateMsgId(g, random) \in Generators
<1>1. CASE Draws(g)
  BY <1>1 DEF generateMsgId, Generators
<1>2. CASE ~Draws(g)
  <2>1. g.no \in Digits
    BY <1>2 DEF Draws, Generators
  <2>2. Incremented(g.no) \in Digits
    BY <2>1, IncrementedType
  <2>3. ASSUME NEW no \in Digits PROVE [g EXCEPT !.no = no] \in Generators
    BY DEF Generators
  <2>4. [g EXCEPT !.no = Incremented(g.no)] \in Generators
    BY <2>2, <2>3
  <2> QED
    BY <1>2, <2>4, Zenon DEF generateMsgId
<1> QED
  BY <1>1, <1>2

-----------------------------------------------------------------------------
LEMMA CallIdType ==
  ASSUME NEW current \in Requests \cup {NoRequest}, NEW g \in Generators
  PROVE  CallId(current, g) \in Ids
BY DEF CallId, Ids, Generators

\* The calls a service makes join those there are.
LEMMA CallsForType ==
  ASSUME generator \in Generators, NEW r \in Requests, NEW n \in Nat,
         NEW current \in Requests \cup {NoRequest}
  PROVE  /\ CallsFor(r, n, current) \in Seq(Calls)
         /\ Len(CallsFor(r, n, current)) = n
         /\ \A i \in 1 .. n : CallsFor(r, n, current)[i].for = r /\ CallsFor(r, n, current)[i].out
<1>1. Call(r, CallId(current, generator)) \in Calls
  BY CallIdType DEF Call, Calls
<1>2. CallsFor(r, n, current) \in [1 .. n -> Calls]
  BY <1>1 DEF CallsFor
<1>3. \A i \in 1 .. n : CallsFor(r, n, current)[i] = Call(r, CallId(current, generator))
  BY DEF CallsFor
<1> QED
  BY <1>2, <1>3 DEF Call

LEMMA AnswerType ==
  ASSUME TypeOK, NEW r \in Requests, NEW code \in Codes, Released(r, code)
  PROVE  phase' \in [Requests -> Phases] /\ replies' \in [Requests -> Seq(Codes)]
<1>1. Append(replies[r], code) \in Seq(Codes)
  BY DEF TypeOK
<1> QED
  BY <1>1 DEF Released, TypeOK, Phases

LEMMA ReleaseType ==
  ASSUME TypeOK, NEW r \in Requests, NEW code \in Codes, NEW out, ReleasedUnless(out, r, code)
  PROVE  phase' \in [Requests -> Phases] /\ replies' \in [Requests -> Seq(Codes)]
<1>1. CASE out = {}
  BY <1>1, AnswerType DEF ReleasedUnless
<1>2. CASE out # {}
  BY <1>2 DEF ReleasedUnless, Keeps, TypeOK, Phases
<1> QED
  BY <1>1, <1>2

LEMMA EndedType ==
  ASSUME calls \in Seq(Calls), NEW k \in DOMAIN calls
  PROVE  /\ [calls EXCEPT ![k].out = FALSE] \in Seq(Calls)
         /\ Len([calls EXCEPT ![k].out = FALSE]) = Len(calls)
<1>1. ASSUME NEW c \in Calls PROVE [c EXCEPT !.out = FALSE] \in Calls
  BY DEF Calls
<1>2. calls[k] \in Calls
  OBVIOUS
<1>3. [calls[k] EXCEPT !.out = FALSE] \in Calls
  BY <1>1, <1>2
<1> QED
  BY <1>3

LEMMA ForType ==
  ASSUME calls \in Seq(Calls), NEW k \in DOMAIN calls, calls[k].for # NoRequest
  PROVE  calls[k].for \in Requests
<1>1. calls[k] \in Calls
  OBVIOUS
<1> QED
  BY <1>1 DEF Calls

LEMMA StepTypes ==
  ASSUME TypeOK, [Next]_vars
  PROVE  TypeOK'
<1> USE DEF TypeOK
<1>1. ASSUME NEW name \in DOMAIN Services, RegisterService(name) PROVE TypeOK'
  BY <1>1 DEF RegisterService
<1>2. ASSUME NEW r \in Requests, NEW name \in Names, NEW well_formed \in BOOLEAN,
             DispatchFails(r, name, well_formed) PROVE TypeOK'
  <2>1. Obstacle(name, well_formed) \in ErrorCodes
    BY <1>2, Zenon DEF DispatchFails, Obstacle, ErrorCodes
  <2> QED
    BY <1>2, <2>1 DEF DispatchFails, Phases, Codes
<1>3. ASSUME NEW r \in Requests, NEW name \in Names, NEW n \in 0 .. 2, NEW code \in Answers,
             DispatchGenerated(r, name, n, code) PROVE TypeOK'
  <2>1. code \in Codes /\ runtime' = r /\ n \in Nat
    BY <1>3 DEF DispatchGenerated, Answers, Codes
  <2>2. calls' \in Seq(Calls)
    <3>1. CallsFor(r, n, r) \in Seq(Calls)
      BY <2>1, CallsForType
    <3> QED
      BY <1>3, <2>1, <3>1 DEF DispatchGenerated
  <2>3. phase' \in [Requests -> Phases] /\ replies' \in [Requests -> Seq(Codes)]
    BY <1>3, <2>1, ReleaseType DEF DispatchGenerated
  <2> QED
    BY <1>3, <2>1, <2>2, <2>3 DEF DispatchGenerated
<1>4. ASSUME NEW r \in Requests, NEW name \in Names, NEW answers \in BOOLEAN,
             DispatchPlain(r, name, answers) PROVE TypeOK'
  <2>1. CASE answers
    BY <1>4, <2>1, AnswerType DEF DispatchPlain, Codes
  <2>2. CASE ~answers
    BY <1>4, <2>2 DEF DispatchPlain, Phases, Codes
  <2> QED
    BY <2>1, <2>2
<1>5. ASSUME NEW k \in DOMAIN calls, CallFails(k) PROVE TypeOK'
  <2>1. calls[k].for \in Requests
    BY <1>5, ForType DEF CallFails
  <2>2. phase' \in [Requests -> Phases] /\ replies' \in [Requests -> Seq(Codes)]
    BY <1>5, <2>1, ReleaseType DEF CallFails
  <2>3. calls' \in Seq(Calls)
    BY <1>5, EndedType DEF CallFails
  <2> QED
    BY <1>5, <2>2, <2>3 DEF CallFails
<1>6. ASSUME NEW k \in DOMAIN calls, NEW n \in 0 .. 1, NEW code \in Answers,
             CallReturns(k, n, code) PROVE TypeOK'
  <2>1. calls[k].for \in Requests /\ code \in Codes /\ n \in Nat
    BY <1>6, ForType DEF CallReturns, Answers, Codes
  <2>2. phase' \in [Requests -> Phases] /\ replies' \in [Requests -> Seq(Codes)]
    BY <1>6, <2>1, ReleaseType DEF CallReturns
  <2>3. CallsFor(calls[k].for, n, runtime) \in Seq(Calls)
    BY <2>1, CallsForType
  <2>4. calls' \in Seq(Calls)
    BY <1>6, <2>3, EndedType DEF CallReturns
  <2> QED
    BY <1>6, <2>1, <2>2, <2>4 DEF CallReturns
<1>7. ASSUME NEW random \in Digits, OwnCall(random) PROVE TypeOK'
  <2> DEFINE next == generateMsgId(generator, random)
  <2>1. next \in Generators
    BY GenerateType
  <2>2. [Call(NoRequest, CallId(runtime, next)) EXCEPT !.out = FALSE] \in Calls
    BY <2>1, CallIdType DEF Call, Calls
  <2> HIDE DEF next
  <2>3. generator' \in Generators
    BY <1>7, <2>1 DEF OwnCall, next
  <2>4. calls' \in Seq(Calls)
    BY <1>7, <2>2 DEF OwnCall, next
  <2> QED
    BY <1>7, <2>3, <2>4 DEF OwnCall
<1>8. CASE OwnCallUnread
  <2>1. [Call(NoRequest, Unread) EXCEPT !.out = FALSE] \in Calls
    BY DEF Call, Calls, Ids
  <2> QED
    BY <1>8, <2>1 DEF OwnCallUnread
<1>9. CASE UNCHANGED vars
  BY <1>9 DEF vars
<1> QED
  BY <1>1, <1>2, <1>3, <1>4, <1>5, <1>6, <1>7, <1>8, <1>9 DEF Next, Dispatched, Ends

\* Every variable of the dispatcher stays in its type: in particular the carry of an id
\* never leaves the digits, and every id that a call carries is a request's or a
\* generated one.
THEOREM DispatchTypeCorrect == Spec => []TypeOK
<1>1. Init => TypeOK
  BY DEF Init, TypeOK, Generators, NoId, Codes, Phases
<1>2. TypeOK /\ [Next]_vars => TypeOK'
  BY StepTypes
<1> QED
  BY <1>1, <1>2, PTL DEF Spec

-----------------------------------------------------------------------------
(* The answer of an interface. OutIn counts its holders in any sequence of calls: calls
   that join add their own, a call that ends takes itself away.                        *)
OutIn(some, r) == { k \in DOMAIN some : some[k].for = r /\ some[k].out }

LEMMA JoinedOut ==
  ASSUME NEW some \in Seq(Calls), NEW more \in Seq(Calls), NEW r
  PROVE  OutIn(some \o more, r) = {} <=> OutIn(some, r) = {} /\ OutIn(more, r) = {}
<1>1. ASSUME NEW k \in OutIn(some, r) PROVE k \in OutIn(some \o more, r)
  BY DEF OutIn
<1>2. ASSUME NEW k \in OutIn(more, r) PROVE Len(some) + k \in OutIn(some \o more, r)
  <2>1. k \in 1 .. Len(more) /\ more[k].for = r /\ more[k].out
    BY DEF OutIn
  <2>2. Len(some) + k \in DOMAIN (some \o more) /\ (some \o more)[Len(some) + k] = more[k]
    BY <2>1
  <2> QED
    BY <2>1, <2>2 DEF OutIn
<1>3. ASSUME NEW k \in OutIn(some \o more, r)
      PROVE  k \in OutIn(some, r) \/ k - Len(some) \in OutIn(more, r)
  <2>1. k \in 1 .. Len(some) + Len(more) /\ (some \o more)[k].for = r /\ (some \o more)[k].out
    BY DEF OutIn
  <2>2. CASE k <= Len(some)
    BY <2>1, <2>2 DEF OutIn
  <2>3. CASE k > Len(some)
    <3>1. k - Len(some) \in 1 .. Len(more) /\ (some \o more)[k] = more[k - Len(some)]
      BY <2>1, <2>3
    <3> QED
      BY <2>1, <3>1 DEF OutIn
  <2> QED
    BY <2>1, <2>2, <2>3
<1> QED
  BY <1>1, <1>2, <1>3

LEMMA NewOut ==
  ASSUME NEW r \in Requests, NEW n \in Nat, NEW current, NEW q
  PROVE  OutIn(CallsFor(r, n, current), q) = IF q = r THEN 1 .. n ELSE {}
BY DEF OutIn, CallsFor, Call

LEMMA EndedOut ==
  ASSUME calls \in Seq(Calls), NEW k \in DOMAIN calls, NEW q
  PROVE  OutIn([calls EXCEPT ![k].out = FALSE], q) = OutFor(q) \ {k}
<1> DEFINE ended == [calls EXCEPT ![k].out = FALSE]
<1>1. DOMAIN ended = DOMAIN calls
  OBVIOUS
<1>2. \A j \in DOMAIN calls : j # k => ended[j] = calls[j]
  OBVIOUS
<1>3. calls[k] \in Calls /\ ended[k] = [calls[k] EXCEPT !.out = FALSE]
  OBVIOUS
<1>4. ended[k].out = FALSE
  BY <1>3 DEF Calls
<1> HIDE DEF ended
<1>5. OutIn(ended, q) = OutFor(q) \ {k}
  BY <1>1, <1>2, <1>4 DEF OutIn, OutFor
<1> QED
  BY <1>5 DEF ended

(* The heart of the argument: if an interface is released exactly when its last holder
   goes, and nothing else changes for the other requests, the invariant survives.      *)
LEMMA ReleaseKeeps ==
  ASSUME TypeOK, AnsweredOnRelease, NEW r \in Requests, NEW code \in Codes, NEW out,
         ReleasedUnless(out, r, code), phase[r] \in {"new", "kept"},
         response' = [response EXCEPT ![r] = code],
         OutIn(calls', r) = {} <=> out = {},
         \A q \in Requests \ {r} : OutIn(calls', q) = {} <=> OutFor(q) = {}
  PROVE  AnsweredOnRelease'
<1>1. OutIn(calls', r) = OutFor(r)' /\ \A q \in Requests : OutIn(calls', q) = OutFor(q)'
  BY DEF OutIn, OutFor
<1>2. replies[r] = <<>>
  BY DEF AnsweredOnRelease
<1>3. response'[r] = code /\ \A q \in Requests \ {r} : response'[q] = response[q]
  BY DEF TypeOK
<1>4. ASSUME NEW q \in Requests \ {r}
      PROVE  /\ phase'[q] = phase[q] /\ replies'[q] = replies[q]
  BY DEF ReleasedUnless, Released, Keeps, TypeOK
<1>5. CASE out = {}
  <2>1. phase'[r] = "answered" /\ replies'[r] = Append(replies[r], code)
    BY <1>5 DEF ReleasedUnless, Released, TypeOK
  <2>2. replies'[r] = << code >>
    BY <1>2, <2>1
  <2>3. OutFor(r)' = {}
    BY <1>1, <1>5
  <2> QED
    BY <1>1, <1>3, <1>4, <2>1, <2>2, <2>3, ZenonT(40) DEF AnsweredOnRelease
<1>6. CASE out # {}
  <2>1. phase'[r] = "kept" /\ replies'[r] = <<>>
    BY <1>2, <1>6 DEF ReleasedUnless, Keeps, TypeOK
  <2>2. OutFor(r)' # {}
    BY <1>1, <1>6, <2>1
  <2> QED
    BY <1>1, <1>3, <1>4, <2>1, <2>2, Zenon DEF AnsweredOnRelease
<1> QED
  BY <1>5, <1>6

LEMMA StepAnswers ==
  ASSUME TypeOK, AnsweredOnRelease, [Next]_vars
  PROVE  AnsweredOnRelease'
<1>0. \A q : OutIn(calls, q) = OutFor(q) /\ OutIn(calls', q) = OutFor(q)'
  BY DEF OutIn, OutFor
<1>1. ASSUME NEW name \in DOMAIN Services, RegisterService(name) PROVE AnsweredOnRelease'
  BY <1>1 DEF RegisterService, AnsweredOnRelease, OutFor
<1>2. ASSUME NEW r \in Requests, NEW name \in Names, NEW well_formed \in BOOLEAN,
             DispatchFails(r, name, well_formed) PROVE AnsweredOnRelease'
  BY <1>2 DEF DispatchFails, AnsweredOnRelease, OutFor, TypeOK
<1>3. ASSUME NEW r \in Requests, NEW name \in Names, NEW n \in 0 .. 2, NEW code \in Answers,
             DispatchGenerated(r, name, n, code) PROVE AnsweredOnRelease'
  <2>1. /\ code \in Codes /\ runtime' = r /\ n \in Nat
        /\ calls \in Seq(Calls) /\ generator \in Generators
    BY <1>3 DEF DispatchGenerated, Answers, Codes, TypeOK
  <2>2. CallsFor(r, n, r) \in Seq(Calls) /\ calls' = calls \o CallsFor(r, n, r)
    BY <1>3, <2>1, CallsForType DEF DispatchGenerated
  <2>3. \A q : OutIn(calls', q) = {} <=>
               OutFor(q) = {} /\ OutIn(CallsFor(r, n, r), q) = {}
    BY <1>0, <2>1, <2>2, JoinedOut
  <2>4. OutFor(r) = {} /\ phase[r] = "new"
    BY <1>3 DEF DispatchGenerated, AnsweredOnRelease
  <2>5. OutIn(CallsFor(r, n, r), r) = 1 .. n
        /\ \A q \in Requests \ {r} : OutIn(CallsFor(r, n, r), q) = {}
    BY <2>1, NewOut
  <2>6. OutIn(calls', r) = {} <=> 1 .. n = {}
    BY <2>3, <2>4, <2>5
  <2>7. \A q \in Requests \ {r} : OutIn(calls', q) = {} <=> OutFor(q) = {}
    BY <2>3, <2>5
  <2>8. ReleasedUnless(1 .. n, r, code) /\ response' = [response EXCEPT ![r] = code]
    BY <1>3 DEF DispatchGenerated
  <2> QED
    BY <2>1, <2>4, <2>6, <2>7, <2>8, ReleaseKeeps
<1>4. ASSUME NEW r \in Requests, NEW name \in Names, NEW answers \in BOOLEAN,
             DispatchPlain(r, name, answers) PROVE AnsweredOnRelease'
  <2>1. phase[r] = "new" /\ calls' = calls /\ OutFor(r) = {}
    BY <1>4 DEF DispatchPlain, AnsweredOnRelease
  <2>2. CASE answers
    <3>1. ReleasedUnless({}, r, "ok") /\ response' = [response EXCEPT ![r] = "ok"]
      BY <1>4, <2>2 DEF DispatchPlain, ReleasedUnless
    <3>2. "ok" \in Codes
      BY DEF Codes
    <3>3. \A q \in Requests : OutIn(calls', q) = OutFor(q)
      BY <1>0, <2>1
    <3> QED
      BY <2>1, <3>1, <3>2, <3>3, ReleaseKeeps
  <2>3. CASE ~answers
    <3>1. /\ phase' = [phase EXCEPT ![r] = "given up"]
          /\ response' = [response EXCEPT ![r] = "failed"]
          /\ replies' = replies
      BY <1>4, <2>3 DEF DispatchPlain
    <3>2. /\ phase'[r] = "given up"
          /\ \A q \in Requests \ {r} : phase'[q] = phase[q] /\ response'[q] = response[q]
      BY <3>1 DEF TypeOK
    <3>3. \A q \in Requests : OutFor(q)' = OutFor(q)
      BY <2>1 DEF OutFor
    <3>5. ASSUME NEW q \in Requests
          PROVE  /\ phase'[q] = "kept" <=> OutFor(q)' # {}
                 /\ phase'[q] \in {"new", "kept"} => replies'[q] = <<>>
                 /\ phase'[q] = "answered" => replies'[q] = << response'[q] >>
      <4>1. CASE q = r
        BY <2>1, <3>2, <3>3, <4>1
      <4>2. CASE q # r
        BY <3>1, <3>2, <3>3, <4>2, Zenon DEF AnsweredOnRelease
      <4> QED
        BY <4>1, <4>2
    <3> QED
      BY <3>5, Zenon DEF AnsweredOnRelease
  <2> QED
    BY <2>2, <2>3
<1>5. ASSUME NEW k \in DOMAIN calls, CallFails(k) PROVE AnsweredOnRelease'
  <2> DEFINE r == calls[k].for
  <2>1. r \in Requests /\ calls \in Seq(Calls)
    BY <1>5, ForType DEF CallFails, TypeOK
  <2>2. k \in OutFor(r)
    BY <1>5 DEF CallFails, Out, OutFor
  <2>3. phase[r] = "kept"
    BY <2>1, <2>2 DEF AnsweredOnRelease
  <2>4. \A q : OutIn(calls', q) = OutFor(q) \ {k}
    BY <1>5, <2>1, EndedOut DEF CallFails
  <2>5. \A q \in Requests \ {r} : k \notin OutFor(q)
    BY DEF OutFor
  <2>6. response[r] \in Codes /\ response' = [response EXCEPT ![r] = response[r]]
    BY <1>5, <2>1 DEF CallFails, TypeOK
  <2>7. ReleasedUnless(OutFor(r) \ {k}, r, response[r])
    BY <1>5 DEF CallFails
  <2> HIDE DEF r
  <2>8. \A q \in Requests \ {r} : OutIn(calls', q) = {} <=> OutFor(q) = {}
    BY <2>4, <2>5
  <2> QED
    BY <2>1, <2>3, <2>4, <2>6, <2>7, <2>8, ReleaseKeeps
<1>6. ASSUME NEW k \in DOMAIN calls, NEW n \in 0 .. 1, NEW code \in Answers,
             CallReturns(k, n, code) PROVE AnsweredOnRelease'
  <2> DEFINE r     == calls[k].for
             ended == [calls EXCEPT ![k].out = FALSE]
             more  == CallsFor(r, n, runtime)
  <2>1. /\ r \in Requests /\ code \in Codes /\ n \in Nat
        /\ calls \in Seq(Calls) /\ generator \in Generators
        /\ runtime \in Requests \cup {NoRequest}
    BY <1>6, ForType DEF CallReturns, Answers, Codes, TypeOK
  <2>2. k \in OutFor(r)
    BY <1>6 DEF CallReturns, Out, OutFor
  <2>3. phase[r] = "kept"
    BY <2>1, <2>2 DEF AnsweredOnRelease
  <2>4. ended \in Seq(Calls) /\ \A q : OutIn(ended, q) = OutFor(q) \ {k}
    BY <2>1, EndedType, EndedOut
  <2>5. more \in Seq(Calls) /\ calls' = ended \o more
    BY <1>6, <2>1, CallsForType DEF CallReturns
  <2>6. OutIn(more, r) = 1 .. n /\ \A q \in Requests \ {r} : OutIn(more, q) = {}
    BY <2>1, NewOut
  <2>7. \A q \in Requests \ {r} : k \notin OutFor(q)
    BY DEF OutFor
  <2>8. ReleasedUnless((OutFor(r) \ {k}) \cup (1 .. n), r, code)
        /\ response' = [response EXCEPT ![r] = code]
    BY <1>6 DEF CallReturns
  <2> HIDE DEF r, ended, more
  <2>9. \A q : OutIn(calls', q) = {} <=> OutFor(q) \ {k} = {} /\ OutIn(more, q) = {}
    BY <2>4, <2>5, JoinedOut
  <2>10. OutIn(calls', r) = {} <=> (OutFor(r) \ {k}) \cup (1 .. n) = {}
    BY <2>6, <2>9
  <2>11. \A q \in Requests \ {r} : OutIn(calls', q) = {} <=> OutFor(q) = {}
    BY <2>6, <2>7, <2>9
  <2> QED
    BY <2>1, <2>3, <2>8, <2>10, <2>11, ReleaseKeeps
<1>7. ASSUME NEW call \in Calls, call.for = NoRequest, calls' = Append(calls, call),
             UNCHANGED << phase, response, replies >>
      PROVE  AnsweredOnRelease'
  <2>1. << call >> \in Seq(Calls) /\ calls \in Seq(Calls) /\ calls' = calls \o << call >>
    BY <1>7 DEF TypeOK
  <2>2. \A q \in Requests : OutIn(<< call >>, q) = {}
    BY <1>7, RequestAssumption DEF OutIn
  <2>3. \A q : OutIn(calls', q) = {} <=> OutIn(calls, q) = {} /\ OutIn(<< call >>, q) = {}
    <3> DEFINE one == << call >>
    <3> HIDE DEF one
    <3>1. one \in Seq(Calls) /\ calls \in Seq(Calls) /\ calls' = calls \o one
      BY <2>1 DEF one
    <3>2. \A q : OutIn(calls', q) = {} <=> OutIn(calls, q) = {} /\ OutIn(one, q) = {}
      BY <3>1, JoinedOut
    <3> QED
      BY <3>2 DEF one
  <2>4. ASSUME NEW q \in Requests PROVE OutFor(q)' = {} <=> OutFor(q) = {}
    <3>1. OutIn(calls, q) = OutFor(q) /\ OutIn(calls', q) = OutFor(q)'
      BY <1>0
    <3> QED
      BY <2>2, <2>3, <3>1
  <2> QED
    BY <1>7, <2>4, Zenon DEF AnsweredOnRelease
<1>8. ASSUME NEW random \in Digits, OwnCall(random) PROVE AnsweredOnRelease'
  <2> DEFINE next == generateMsgId(generator, random)
             call == [Call(NoRequest, CallId(runtime, next)) EXCEPT !.out = FALSE]
  <2>1. generator \in Generators /\ runtime \in Requests \cup {NoRequest}
    BY DEF TypeOK
  <2>2. next \in Generators
    BY <2>1, GenerateType
  <2>3. call \in Calls /\ call.for = NoRequest
    BY <2>1, <2>2, CallIdType DEF Call, Calls
  <2>4. calls' = Append(calls, call) /\ UNCHANGED << phase, response, replies >>
    BY <1>8 DEF OwnCall
  <2> HIDE DEF call
  <2> QED
    BY <1>7, <2>3, <2>4
<1>9. CASE OwnCallUnread
  <2> DEFINE call == [Call(NoRequest, Unread) EXCEPT !.out = FALSE]
  <2>1. call \in Calls /\ call.for = NoRequest
    BY DEF Call, Calls, Ids
  <2>2. calls' = Append(calls, call) /\ UNCHANGED << phase, response, replies >>
    BY <1>9 DEF OwnCallUnread
  <2> HIDE DEF call
  <2> QED
    BY <1>7, <2>1, <2>2
<1>10. CASE UNCHANGED vars
  BY <1>10 DEF vars, AnsweredOnRelease, OutFor
<1> QED
  BY <1>1, <1>2, <1>3, <1>4, <1>5, <1>6, <1>8, <1>9, <1>10 DEF Next, Dispatched, Ends

\* Whatever the order in which requests arrive and their calls return or fail, the
\* interface of a request lives exactly while a call for it is out, and its destructor
\* replies once, with the code set last.
THEOREM AnswersOnRelease == Spec => []AnsweredOnRelease
<1>1. Init => AnsweredOnRelease
  BY DEF Init, AnsweredOnRelease, OutFor
<1>2. TypeOK /\ AnsweredOnRelease /\ [Next]_vars => AnsweredOnRelease'
  BY StepAnswers
<1> QED
  BY <1>1, <1>2, DispatchTypeCorrect, PTL DEF Spec

-----------------------------------------------------------------------------
(* What the digits of an id stand for. Value and Power are given by recursive functions: *)
(* they satisfy their equations, since there are functions that do.                      *)

L == g_msg_id_length

Counts(f, n, s, no) ==
  f = [k \in 0 .. n |-> IF k = 0 THEN s ELSE Base * f[k - 1] + no[k]]

LEMMA CountExists ==
  ASSUME NEW s, NEW no, NEW n \in Nat
  PROVE  \E f : Counts(f, n, s, no)
<1> DEFINE Without == { k \in Nat : ~ \E f : Counts(f, k, s, no) }
<1> SUFFICES ASSUME Without # {} PROVE FALSE
  OBVIOUS
<1>1. PICK m \in Without : \A k \in Without : m <= k
  BY Minimum
<1>2. CASE m = 0
  <2> DEFINE f == [k \in 0 .. 0 |-> s]
  <2>1. f = [k \in 0 .. 0 |-> IF k = 0 THEN s ELSE Base * f[k - 1] + no[k]]
    OBVIOUS
  <2>2. Counts(f, 0, s, no)
    BY <2>1 DEF Counts
  <2> QED
    BY <1>2, <2>2
<1>3. CASE m # 0
  <2>1. m - 1 \in Nat /\ m - 1 \notin Without /\ m \in Nat
    BY <1>1, <1>3
  <2>2. PICK f : Counts(f, m - 1, s, no)
    BY <2>1
  <2> DEFINE g == [k \in 0 .. m |-> IF k = m THEN Base * f[m - 1] + no[m] ELSE f[k]]
  <2>3. \A k \in 0 .. m - 1 : f[k] = IF k = 0 THEN s ELSE Base * f[k - 1] + no[k]
    <3>1. f = [k \in 0 .. m - 1 |-> IF k = 0 THEN s ELSE Base * f[k - 1] + no[k]]
      BY <2>2 DEF Counts
    <3> QED
      BY <3>1
  <2>4. ASSUME NEW k \in 0 .. m
        PROVE  g[k] = IF k = 0 THEN s ELSE Base * g[k - 1] + no[k]
    <3>1. CASE k = m
      <4>1. g[k] = Base * f[m - 1] + no[m] /\ g[m - 1] = f[m - 1]
        BY <2>1, <3>1
      <4> QED
        BY <1>3, <3>1, <4>1
    <3>2. CASE k # m /\ k # 0
      <4>1. g[k] = f[k] /\ k - 1 \in 0 .. m - 1 /\ k \in 0 .. m - 1 /\ g[k - 1] = f[k - 1]
        BY <2>1, <3>2
      <4> QED
        BY <2>3, <3>2, <4>1
    <3>3. CASE k # m /\ k = 0
      <4>1. g[k] = f[k] /\ k \in 0 .. m - 1
        BY <2>1, <3>3
      <4> QED
        BY <2>3, <3>3, <4>1
    <3> QED
      BY <3>1, <3>2, <3>3
  <2>5. g = [k \in 0 .. m |-> IF k = 0 THEN s ELSE Base * g[k - 1] + no[k]]
    <3> DEFINE h == [k \in 0 .. m |-> IF k = 0 THEN s ELSE Base * g[k - 1] + no[k]]
    <3>1. \A k \in 0 .. m : g[k] = h[k]
      BY <2>4
    <3>2. g \in [0 .. m -> {g[k] : k \in 0 .. m}] /\ h \in [0 .. m -> {h[k] : k \in 0 .. m}]
      OBVIOUS
    <3> QED
      BY <3>1, <3>2, Zenon
  <2>6. Counts(g, m, s, no)
    BY <2>5 DEF Counts
  <2> QED
    BY <1>1, <2>6
<1> QED
  BY <1>2, <1>3

\* Some numbers from s on, each Base times the one before, and a digit
LEMMA CountsNumber ==
  ASSUME NEW n \in Nat, NEW s \in Nat, NEW no, \A k \in 1 .. n : no[k] \in Nat,
         NEW f, Counts(f, n, s, no)
  PROVE  /\ f[0] = s /\ \A k \in 1 .. n : f[k] = Base * f[k - 1] + no[k]
         /\ \A k \in 0 .. n : f[k] \in Nat
<1>1. f[0] = s /\ \A k \in 1 .. n : f[k] = Base * f[k - 1] + no[k]
  <2>1. f = [k \in 0 .. n |-> IF k = 0 THEN s ELSE Base * f[k - 1] + no[k]]
    BY DEF Counts
  <2>2. \A k \in 0 .. n : f[k] = IF k = 0 THEN s ELSE Base * f[k - 1] + no[k]
    BY <2>1
  <2> QED
    BY <2>2
<1> DEFINE Others == { k \in 0 .. n : f[k] \notin Nat }
<1>2. ASSUME Others # {} PROVE FALSE
  <2>0. Others \in SUBSET Nat
    OBVIOUS
  <2>1. PICK m \in Others : \A k \in Others : m <= k
    <3> HIDE DEF Others
    <3> QED
      BY <1>2, <2>0, Minimum
  <2>2. m # 0 /\ m \in 0 .. n
    BY <1>1, <2>1
  <2>3. m - 1 \in 0 .. n /\ m \in 1 .. n /\ ~(m <= m - 1)
    BY <2>2
  <2>4. f[m - 1] \in Nat
    BY <2>1, <2>3
  <2>5. Base * f[m - 1] \in Nat
    BY <2>4, BaseAssumption
  <2>6. f[m] \in Nat
    BY <1>1, <2>3, <2>5
  <2> QED
    BY <2>1, <2>6
<1> QED
  BY <1>1, <1>2

\* v[k] is the number of the first k digits, p[k] how many numbers k digits have.
Number(n, no, v) ==
  /\ v[0] = 0 /\ \A k \in 0 .. n : v[k] \in Nat
  /\ \A k \in 1 .. n : v[k] = Base * v[k - 1] + no[k]

Powers(n, p) ==
  /\ p[0] = 1 /\ \A k \in 0 .. n : p[k] \in Nat
  /\ \A k \in 1 .. n : p[k] = Base * p[k - 1]

LEMMA ValueCounts ==
  ASSUME NEW no \in Digits
  PROVE  \E f : Value(no) = f[L] /\ Number(L, no, f)
<1> DEFINE f == CHOOSE value :
                  value = [k \in 0 .. L |-> IF k = 0 THEN 0 ELSE Base * value[k - 1] + no[k]]
<1>1. Value(no) = f[L]
  BY DEF Value, L
<1>2. \E value : value = [k \in 0 .. L |-> IF k = 0 THEN 0 ELSE Base * value[k - 1] + no[k]]
  <2>1. L \in Nat
    BY LengthAssumption DEF L
  <2>2. PICK g : Counts(g, L, 0, no)
    BY <2>1, CountExists
  <2> QED
    BY <2>2, Zenon DEF Counts
<1>3. f = [k \in 0 .. L |-> IF k = 0 THEN 0 ELSE Base * f[k - 1] + no[k]]
  BY <1>2
<1> HIDE DEF f
<1>4. Counts(f, L, 0, no)
  BY <1>3 DEF Counts
<1>5. \A k \in 1 .. L : no[k] \in Nat
  BY BaseAssumption DEF Digits, L
<1>6. Number(L, no, f)
  BY <1>4, <1>5, CountsNumber, LengthAssumption DEF L, Number
<1> QED
  BY <1>1, <1>6

LEMMA PowerCounts ==
  \E f : Power(L) = f[L] /\ Powers(L, f)
<1> DEFINE f == CHOOSE power :
                  power = [k \in 0 .. L |-> IF k = 0 THEN 1 ELSE Base * power[k - 1]]
           zeros == [k \in 1 .. L |-> 0]
<1>1. Power(L) = f[L]
  BY DEF Power
<1>2. L \in Nat
  BY LengthAssumption DEF L
<1>3. PICK g : Counts(g, L, 1, zeros)
  BY <1>2, CountExists
<1>4. /\ g[0] = 1 /\ \A k \in 1 .. L : g[k] = Base * g[k - 1] + zeros[k]
      /\ \A k \in 0 .. L : g[k] \in Nat
  <2>1. \A k \in 1 .. L : zeros[k] \in Nat
    OBVIOUS
  <2> HIDE DEF zeros
  <2> QED
    BY <1>2, <1>3, <2>1, CountsNumber
<1>5. \A k \in 1 .. L : g[k] = Base * g[k - 1]
  <2>1. ASSUME NEW k \in 1 .. L PROVE g[k] = Base * g[k - 1]
    <3>1. k - 1 \in 0 .. L
      BY <1>2
    <3>2. Base * g[k - 1] \in Nat
      BY <1>4, <3>1, BaseAssumption
    <3> QED
      BY <1>4, <3>2
  <2> QED
    BY <2>1
<1>6. g = [k \in 0 .. L |-> IF k = 0 THEN 1 ELSE Base * g[k - 1]]
  <2>1. g = [k \in 0 .. L |-> IF k = 0 THEN 1 ELSE Base * g[k - 1] + zeros[k]]
    BY <1>3 DEF Counts
  <2>2. \A k \in 0 .. L : (IF k = 0 THEN 1 ELSE Base * g[k - 1] + zeros[k])
                            = IF k = 0 THEN 1 ELSE Base * g[k - 1]
    <3> SUFFICES ASSUME NEW k \in 0 .. L, k # 0
                 PROVE  Base * g[k - 1] + zeros[k] = Base * g[k - 1]
      OBVIOUS
    <3>1. k \in 1 .. L
      BY <1>2
    <3> HIDE DEF zeros
    <3> QED
      BY <1>4, <1>5, <3>1
  <2> QED
    BY <2>1, <2>2
<1>7. f = [k \in 0 .. L |-> IF k = 0 THEN 1 ELSE Base * f[k - 1]]
  BY <1>6
<1> HIDE DEF f
<1>8. f[0] = 1 /\ \A k \in 1 .. L : f[k] = Base * f[k - 1]
  <2>1. \A k \in 0 .. L : f[k] = IF k = 0 THEN 1 ELSE Base * f[k - 1]
    BY <1>7
  <2> QED
    BY <1>2, <2>1
<1>9. ASSUME { k \in 0 .. L : f[k] \notin Nat } # {} PROVE FALSE
  <2> DEFINE Others == { k \in 0 .. L : f[k] \notin Nat }
  <2>0. Others \in SUBSET Nat /\ Others # {}
    BY <1>2, <1>9
  <2>1. PICK m \in Others : \A k \in Others : m <= k
    <3> HIDE DEF Others
    <3> QED
      BY <2>0, Minimum
  <2>2. m \in 1 .. L /\ m - 1 \in 0 .. L /\ ~(m <= m - 1)
    BY <1>2, <1>8, <2>1
  <2>3. f[m - 1] \in Nat
    BY <2>1, <2>2
  <2>4. f[m] \in Nat
    BY <1>8, <2>2, <2>3, BaseAssumption
  <2> QED
    BY <2>1, <2>4
<1>10. Powers(L, f)
  BY <1>8, <1>9 DEF Powers
<1> QED
  BY <1>1, <1>10

-----------------------------------------------------------------------------
(* What an increment does to the number *)

LEMMA Product ==
  ASSUME NEW a \in Int, NEW b \in Int
  PROVE  Base * (a + b) = Base * a + Base * b /\ Base * a \in Int
BY BaseAssumption

LEMMA Scaled ==
  ASSUME NEW a \in Nat
  PROVE  Base * a \in Nat
BY BaseAssumption

InRange(n, no) == \A k \in 1 .. n : no[k] \in 0 .. Base - 1

\* What digits stand for fits into them; only the nines stand for the last number.
LEMMA BelowPower ==
  ASSUME NEW n \in Nat, NEW no, InRange(n, no), NEW v, Number(n, no, v), NEW p, Powers(n, p)
  PROVE  /\ v[n] < p[n]
         /\ (\A k \in 1 .. n : no[k] = Nine) => v[n] + 1 = p[n]
<1> DEFINE Less(k) == v[k] < p[k] /\ ((\A i \in 1 .. n : no[i] = Nine) => v[k] + 1 = p[k])
           Others == { k \in 0 .. n : ~Less(k) }
<1>1. ASSUME Others # {} PROVE FALSE
  <2>0. Others \in SUBSET Nat
    OBVIOUS
  <2>1. PICK m \in Others : \A k \in Others : m <= k
    <3> HIDE DEF Others
    <3> QED
      BY <1>1, <2>0, Minimum
  <2>2. m # 0 /\ m \in 0 .. n
    <3>1. Less(0)
      BY DEF Number, Powers
    <3> QED
      BY <2>1, <3>1
  <2>3. m - 1 \in 0 .. n /\ m \in 1 .. n /\ ~(m <= m - 1)
    BY <2>2
  <2>4. Less(m - 1)
    BY <2>1, <2>3
  <2>5. PICK d : d = p[m - 1] - v[m - 1]
    OBVIOUS
  <2>6. d \in Nat /\ d >= 1 /\ v[m - 1] + d = p[m - 1] /\ d - 1 \in Nat
    BY <2>3, <2>4, <2>5 DEF Number, Powers
  <2>7. p[m] = Base * v[m - 1] + Base * d
    <3>1. PICK x \in Int : x = v[m - 1]
      BY <2>3 DEF Number
    <3>2. Base * (x + d) = Base * x + Base * d
      BY <2>6, Product
    <3>3. p[m] = Base * p[m - 1] /\ p[m - 1] = x + d
      BY <2>3, <2>6, <3>1 DEF Powers
    <3> QED
      BY <3>1, <3>2, <3>3
  <2>8. Base * d = Base * (d - 1) + Base /\ Base * (d - 1) \in Nat
    <3>1. Base * ((d - 1) + 1) = Base * (d - 1) + Base * 1
      BY <2>6, Product
    <3> QED
      BY <2>6, <3>1, Scaled, BaseAssumption
  <2>9. v[m] = Base * v[m - 1] + no[m] /\ no[m] \in 0 .. Base - 1 /\ Base * v[m - 1] \in Nat
    BY <2>3, Scaled DEF Number, InRange
  <2>10. v[m] < p[m]
    BY <2>7, <2>8, <2>9, BaseAssumption
  <2>11. ASSUME \A i \in 1 .. n : no[i] = Nine PROVE v[m] + 1 = p[m]
    <3>1. d = 1 /\ no[m] = Base - 1
      <4>1. v[m - 1] + 1 = p[m - 1] /\ v[m - 1] \in Nat
        BY <2>3, <2>4, <2>11 DEF Number
      <4> QED
        BY <2>3, <2>5, <2>11, <4>1 DEF Nine
    <3> QED
      BY <2>7, <2>9, <3>1, BaseAssumption
  <2>12. Less(m)
    BY <2>10, <2>11
  <2> QED
    BY <2>1, <2>12
<1>2. n \in 0 .. n
  OBVIOUS
<1>3. Less(n)
  BY <1>1, <1>2
<1> QED
  BY <1>3

\* The zeros stand for 0.
LEMMA ZerosValue ==
  ASSUME NEW n \in Nat, NEW no, \A k \in 1 .. n : no[k] = 0, NEW v, Number(n, no, v)
  PROVE  v[n] = 0
<1> DEFINE Others == { k \in 0 .. n : v[k] # 0 }
<1>1. ASSUME Others # {} PROVE FALSE
  <2>0. Others \in SUBSET Nat
    OBVIOUS
  <2>1. PICK m \in Others : \A k \in Others : m <= k
    <3> HIDE DEF Others
    <3> QED
      BY <1>1, <2>0, Minimum
  <2>2. m # 0 /\ m \in 0 .. n
    BY <2>1 DEF Number
  <2>3. m - 1 \in 0 .. n /\ m \in 1 .. n /\ ~(m <= m - 1)
    BY <2>2
  <2>4. v[m - 1] = 0
    BY <2>1, <2>3
  <2>5. v[m] = 0
    <3>1. v[m] = Base * v[m - 1] + no[m] /\ no[m] = 0
      BY <2>3 DEF Number
    <3>2. Base * 0 = 0
      BY BaseAssumption
    <3> QED
      BY <2>4, <3>1, <3>2
  <2> QED
    BY <2>1, <2>5
<1> QED
  BY <1>1

\* A carry that ends at digit l adds 1 to the number.
Carry(n, no, l, new) ==
  /\ l \in 1 .. n /\ \A k \in l + 1 .. n : no[k] = Nine
  /\ \A k \in 1 .. n : new[k] = IF k < l THEN no[k] ELSE IF k = l THEN no[k] + 1 ELSE 0

LEMMA CarryAdds ==
  ASSUME NEW n \in Nat, NEW no, InRange(n, no), NEW l, NEW new, Carry(n, no, l, new),
         NEW v, Number(n, no, v), NEW w, Number(n, new, w)
  PROVE  w[n] = v[n] + 1
<1> DEFINE Moved(k) == w[k] = IF k < l THEN v[k] ELSE v[k] + 1
           Others == { k \in 0 .. n : ~Moved(k) }
<1>0. l \in 1 .. n
  BY DEF Carry
<1>1. ASSUME Others # {} PROVE FALSE
  <2>0. Others \in SUBSET Nat
    OBVIOUS
  <2>1. PICK m \in Others : \A k \in Others : m <= k
    <3> HIDE DEF Others
    <3> QED
      BY <1>1, <2>0, Minimum
  <2>2. m # 0 /\ m \in 0 .. n
    <3>1. Moved(0)
      BY <1>0 DEF Number
    <3> QED
      BY <2>1, <3>1
  <2>3. m - 1 \in 0 .. n /\ m \in 1 .. n /\ ~(m <= m - 1)
    BY <2>2
  <2>4. Moved(m - 1)
    BY <2>1, <2>3
  <2>5. PICK x \in Nat : x = v[m - 1]
    BY <2>3 DEF Number
  <2>6. PICK d : d = no[m]
    OBVIOUS
  <2>7. v[m] = Base * x + d /\ d \in 0 .. Base - 1 /\ Base * x \in Nat
    BY <2>3, <2>5, <2>6, Scaled DEF Number, InRange
  <2>8. CASE m < l
    <3>1. w[m - 1] = x /\ new[m] = d
      BY <1>0, <2>3, <2>4, <2>5, <2>6, <2>8 DEF Carry
    <3>2. w[m] = Base * x + d
      BY <2>3, <3>1 DEF Number
    <3> QED
      BY <2>1, <2>7, <2>8, <3>2
  <2>9. CASE m = l
    <3>1. w[m - 1] = x /\ new[m] = d + 1
      BY <1>0, <2>3, <2>4, <2>5, <2>6, <2>9 DEF Carry
    <3>2. w[m] = Base * x + (d + 1)
      BY <2>3, <3>1 DEF Number
    <3>3. w[m] = v[m] + 1
      BY <2>7, <3>2
    <3> QED
      BY <2>1, <2>9, <3>3
  <2>10. CASE m > l
    <3>1. w[m - 1] = x + 1 /\ new[m] = 0 /\ d = Base - 1
      BY <1>0, <2>3, <2>4, <2>5, <2>6, <2>10 DEF Carry, Nine
    <3>2. w[m] = Base * (x + 1) + 0
      BY <2>3, <3>1 DEF Number
    <3>3. Base * (x + 1) = Base * x + Base
      BY Product, BaseAssumption
    <3>4. w[m] = v[m] + 1
      BY <2>7, <3>1, <3>2, <3>3, BaseAssumption
    <3> QED
      BY <1>0, <2>1, <2>3, <2>10, <3>4
  <2> QED
    BY <1>0, <2>3, <2>8, <2>9, <2>10
<1>2. n \in 0 .. n /\ ~(n < l)
  BY <1>0
<1>3. Moved(n)
  BY <1>1, <1>2
<1> QED
  BY <1>2, <1>3

LEMMA Remainder ==
  ASSUME NEW p \in Nat, NEW x \in Nat
  PROVE  (x < p => x % p = x) /\ (p > 0 => p % p = 0)
OBVIOUS

\* generateMsgId counts: a carry makes the next number, and the nines wrap to zero.
LEMMA IncrementCounts ==
  ASSUME NEW no \in Digits
  PROVE  Follows(no, Incremented(no))
<1> DEFINE new   == Incremented(no)
           below == { i \in 1 .. g_msg_id_length : no[i] # Nine }
           last  == CHOOSE i \in below : \A j \in below : j <= i
<1>1. new \in Digits
  BY IncrementedType
<1>2. L \in Nat /\ L >= 1 /\ L = g_msg_id_length
  BY LengthAssumption DEF L
<1>3. InRange(L, no) /\ InRange(L, new)
  <2> HIDE DEF new
  <2> QED
    BY <1>1, <1>2 DEF Digits, InRange
<1>4. PICK v : Value(no) = v[L] /\ Number(L, no, v)
  BY ValueCounts
<1>5. PICK w : Value(new) = w[L] /\ Number(L, new, w)
  <2> HIDE DEF new
  <2> QED
    BY <1>1, ValueCounts
<1>6. PICK p : Power(L) = p[L] /\ Powers(L, p)
  BY PowerCounts
<1>7. v[L] < p[L] /\ ((\A k \in 1 .. L : no[k] = Nine) => v[L] + 1 = p[L])
  BY <1>2, <1>3, <1>4, <1>6, BelowPower
<1>8. w[L] < p[L]
  <2> HIDE DEF new
  <2> QED
    BY <1>2, <1>3, <1>5, <1>6, BelowPower
<1>9. v[L] \in Nat /\ w[L] \in Nat /\ p[L] \in Nat
  BY <1>2, <1>4, <1>5, <1>6 DEF Number, Powers
<1>10. CASE below = {}
  <2>1. new = ZeroId
    BY <1>10 DEF Incremented
  <2>2. \A k \in 1 .. L : new[k] = 0
    BY <1>2, <2>1 DEF ZeroId
  <2> HIDE DEF new
  <2>3. w[L] = 0
    BY <1>2, <1>5, <2>2, ZerosValue
  <2>4. v[L] + 1 = p[L]
    BY <1>2, <1>7, <1>10
  <2>5. p[L] % p[L] = 0
    BY <1>9, <2>4, Remainder
  <2> QED
    BY <1>2, <1>4, <1>5, <1>6, <2>3, <2>4, <2>5 DEF Follows, new
<1>11. CASE below # {}
  <2>1. \E i \in below : \A j \in below : j <= i
    BY <1>11, Maximum, LengthAssumption
  <2>2. last \in below /\ \A j \in below : j <= last
    BY <2>1
  <2>3. new = [ i \in 1 .. g_msg_id_length |->
                  IF i < last THEN no[i] ELSE IF i = last THEN no[i] + 1 ELSE 0 ]
    BY <1>11 DEF Incremented
  <2> HIDE DEF new, last
  <2>4. last \in 1 .. L
    BY <1>2, <2>2
  <2>5. \A k \in last + 1 .. L : no[k] = Nine
    <3> SUFFICES ASSUME NEW k \in last + 1 .. L, no[k] # Nine PROVE FALSE
      OBVIOUS
    <3>1. k \in 1 .. L /\ ~(k <= last)
      BY <1>2, <2>4
    <3> QED
      BY <1>2, <2>2, <3>1
  <2>6. Carry(L, no, last, new)
    BY <1>2, <2>3, <2>4, <2>5 DEF Carry
  <2>7. w[L] = v[L] + 1
    BY <1>2, <1>3, <1>4, <1>5, <2>6, CarryAdds
  <2>8. w[L] % p[L] = w[L]
    BY <1>8, <1>9, Remainder
  <2> QED
    BY <1>2, <1>4, <1>5, <1>6, <2>7, <2>8 DEF Follows, new
<1> QED
  BY <1>10, <1>11

-----------------------------------------------------------------------------
(* The ids of calls. Before the first request there is no call for one, so that no       *)
(* service passes on an id of the generator.                                             *)
Unserved == runtime = NoRequest => \A k \in DOMAIN calls : calls[k].for = NoRequest

\* Calls that join those there are are the new ones.
LEMMA NewCalls ==
  ASSUME NEW some \in Seq(Calls), NEW more \in Seq(Calls), Len(some) = Len(calls),
         calls \in Seq(Calls), calls' = some \o more, NEW k \in DOMAIN calls' \ DOMAIN calls
  PROVE  k - Len(some) \in DOMAIN more /\ calls'[k] = more[k - Len(some)]
<1>1. k \in 1 .. Len(some) + Len(more) /\ ~(k \in 1 .. Len(some))
  OBVIOUS
<1> QED
  BY <1>1

LEMMA ServedStep ==
  ASSUME TypeOK, Unserved, [Next]_vars
  PROVE  Unserved'
<1> SUFFICES ASSUME runtime' = NoRequest, NEW k \in DOMAIN calls'
             PROVE  calls'[k].for = NoRequest
  BY DEF Unserved
<1>0. calls \in Seq(Calls)
  BY DEF TypeOK
<1>1. ASSUME runtime' = runtime, calls' = calls PROVE calls'[k].for = NoRequest
  BY <1>1 DEF Unserved
<1>2. ASSUME NEW r \in Requests, runtime' = r PROVE FALSE
  BY <1>2, RequestAssumption
<1>3. ASSUME NEW j \in DOMAIN calls, Ends(j) PROVE FALSE
  <2>1. calls[j].for # NoRequest /\ runtime' = runtime
    BY <1>3 DEF Ends, CallFails, CallReturns
  <2> QED
    BY <1>3, <2>1 DEF Unserved
<1>4. ASSUME NEW id, runtime' = runtime,
             calls' = Append(calls, [Call(NoRequest, id) EXCEPT !.out = FALSE])
      PROVE  calls'[k].for = NoRequest
  <2> DEFINE call == [Call(NoRequest, id) EXCEPT !.out = FALSE]
  <2>1. call.for = NoRequest
    BY DEF Call
  <2>2. calls' = Append(calls, call)
    BY <1>4
  <2> HIDE DEF call
  <2>3. (k \in DOMAIN calls /\ calls'[k] = calls[k]) \/ calls'[k] = call
    BY <1>0, <2>2
  <2> QED
    BY <1>4, <2>1, <2>3 DEF Unserved
<1>5. ASSUME NEW random \in Digits, OwnCall(random) PROVE calls'[k].for = NoRequest
  BY <1>4, <1>5 DEF OwnCall
<1>6. CASE OwnCallUnread
  BY <1>4, <1>6 DEF OwnCallUnread
<1> QED
  BY <1>1, <1>2, <1>3, <1>5, <1>6 DEF Next, Dispatched, RegisterService, DispatchFails,
     DispatchGenerated, DispatchPlain, vars

LEMMA StepIds ==
  ASSUME TypeOK, Unserved, [Next]_vars
  PROVE  NewOwnIds \/ UNCHANGED vars
<1>0. /\ calls \in Seq(Calls) /\ generator \in Generators
      /\ runtime \in Requests \cup {NoRequest}
  BY DEF TypeOK
<1>1. ASSUME DOMAIN calls' = DOMAIN calls PROVE NewOwnIds
  BY <1>1 DEF NewOwnIds
\* A service passes on the id in RunTime.
<1>2. ASSUME NEW some \in Seq(Calls), Len(some) = Len(calls), NEW r \in Requests, NEW n \in Nat,
             NEW current \in Requests, calls' = some \o CallsFor(r, n, current)
      PROVE  NewOwnIds
  <2> DEFINE more == CallsFor(r, n, current)
  <2>1. more \in Seq(Calls) /\ Len(more) = n
    BY <1>0, CallsForType
  <2>2. \A i \in DOMAIN more : more[i].id = IdOf(current) /\ more[i].for = r
    BY RequestAssumption DEF CallsFor, Call, CallId
  <2> HIDE DEF more
  <2>3. ASSUME NEW k \in DOMAIN calls' \ DOMAIN calls
        PROVE  calls'[k].id = IdOf(current) /\ calls'[k].for = r
    <3>1. calls' = some \o more
      BY <1>2 DEF more
    <3>2. k - Len(some) \in DOMAIN more /\ calls'[k] = more[k - Len(some)]
      BY <1>0, <1>2, <2>1, <3>1, NewCalls
    <3> QED
      BY <2>2, <3>2
  <2> QED
    BY <2>3 DEF NewOwnIds, IdOf, Generated
<1>3. ASSUME NEW r \in Requests, NEW name \in Names, NEW n \in 0 .. 2, NEW code \in Answers,
             DispatchGenerated(r, name, n, code) PROVE NewOwnIds
  <2>1. calls' = calls \o CallsFor(r, n, r) /\ n \in Nat
    BY <1>3 DEF DispatchGenerated
  <2> QED
    BY <1>0, <1>2, <2>1
<1>4. ASSUME NEW k \in DOMAIN calls, NEW n \in 0 .. 1, NEW code \in Answers,
             CallReturns(k, n, code) PROVE NewOwnIds
  <2> DEFINE some == [calls EXCEPT ![k].out = FALSE]
             r == calls[k].for
  <2>1. r # NoRequest /\ r \in Requests /\ n \in Nat
    BY <1>0, <1>4, ForType DEF CallReturns
  <2>2. runtime # NoRequest /\ runtime \in Requests
    BY <1>0, <2>1 DEF Unserved
  <2>3. some \in Seq(Calls) /\ Len(some) = Len(calls)
    BY <1>0, EndedType
  <2>4. calls' = some \o CallsFor(r, n, runtime)
    BY <1>4 DEF CallReturns
  <2> HIDE DEF some, r
  <2> QED
    BY <1>2, <2>1, <2>2, <2>3, <2>4
\* A call for no request
<1>5. ASSUME NEW call \in Calls, calls' = Append(calls, call),
             NEW k \in DOMAIN calls' \ DOMAIN calls
      PROVE  calls'[k] = call
  <2>1. k \in 1 .. Len(calls) + 1 /\ ~(k \in 1 .. Len(calls))
    BY <1>0, <1>5
  <2>2. k = Len(calls) + 1
    BY <1>0, <2>1
  <2> QED
    BY <1>0, <1>5, <2>2
<1>6. ASSUME NEW random \in Digits, OwnCall(random) PROVE NewOwnIds
  <2> DEFINE next == generateMsgId(generator, random)
             call == [Call(NoRequest, CallId(runtime, next)) EXCEPT !.out = FALSE]
  <2>1. next \in Generators
    BY <1>0, GenerateType
  <2>2. call \in Calls /\ call.for = NoRequest /\ call.id = CallId(runtime, next)
    BY <1>0, <2>1, CallIdType DEF Call, Calls
  <2>3. /\ calls' = Append(calls, call) /\ runtime' = runtime
        /\ runtime = NoRequest => generator' = next
    BY <1>6 DEF OwnCall
  <2>4. ASSUME generator.no # NoId, next.draws = generator.draws
        PROVE  Follows(generator.no, next.no)
    <3>1. ~Draws(generator)
      <4>1. ASSUME Draws(generator) PROVE FALSE
        <5>1. next.draws = generator.draws + 1 /\ generator.draws \in Nat
          BY <1>0, <4>1 DEF generateMsgId, Generators
        <5> QED
          BY <2>4, <5>1
      <4> QED
        BY <4>1
    <3>2. generator.no \in Digits
      BY <1>0, <2>4 DEF Generators
    <3>3. next.no = Incremented(generator.no)
      BY <1>0, <3>1 DEF generateMsgId, Generators
    <3> QED
      BY <3>2, <3>3, IncrementCounts
  <2> HIDE DEF next, call
  <2>5. ASSUME NEW k \in DOMAIN calls' \ DOMAIN calls
        PROVE  calls'[k].id = CallId(runtime, next) /\ calls'[k].for = NoRequest
    BY <1>5, <2>2, <2>3
  <2>6. CASE runtime = NoRequest
    <3>1. CallId(runtime, next) = Generated(next.no) /\ generator' = next
      BY <2>3, <2>6 DEF CallId, next
    <3>2. \A no : Generated(no) = Generated(next.no) => no = next.no
      BY DEF Generated
    <3> QED
      BY <2>4, <2>5, <3>1, <3>2 DEF NewOwnIds
  <2>7. CASE runtime # NoRequest
    BY <2>5, <2>7 DEF NewOwnIds, CallId, IdOf, Generated
  <2> QED
    BY <2>6, <2>7
<1>7. CASE OwnCallUnread
  <2> DEFINE call == [Call(NoRequest, Unread) EXCEPT !.out = FALSE]
  <2>1. call \in Calls /\ call.id = Unread
    BY DEF Call, Calls, Ids
  <2>2. calls' = Append(calls, call)
    BY <1>7 DEF OwnCallUnread
  <2> HIDE DEF call
  <2>3. ASSUME NEW k \in DOMAIN calls' \ DOMAIN calls PROVE calls'[k].id = Unread
    BY <1>5, <2>1, <2>2
  <2> QED
    BY <2>3 DEF NewOwnIds, Unread, Generated
<1>8. ASSUME NEW k \in DOMAIN calls, CallFails(k) PROVE NewOwnIds
  <2>1. calls' = [calls EXCEPT ![k].out = FALSE]
    BY <1>8 DEF CallFails
  <2>2. DOMAIN calls' = DOMAIN calls
    BY <2>1
  <2> QED
    BY <1>1, <2>2
<1> QED
  BY <1>1, <1>3, <1>4, <1>6, <1>7, <1>8 DEF Next, Dispatched, Ends, RegisterService,
     DispatchFails, DispatchPlain

\* Whatever the requests and the services do: an id that the thread makes up goes to a call
\* that is for no request, and follows the one made up before, for ids of any length in any
\* base, carries and the wrap to zero included.
THEOREM IdsOfCalls == Spec => OwnIdsCount
<1>1. Init => Unserved
  BY DEF Init, Unserved
<1>2. TypeOK /\ Unserved /\ [Next]_vars => Unserved'
  BY ServedStep
<1>3. TypeOK /\ Unserved /\ [Next]_vars => [NewOwnIds]_vars
  BY StepIds
<1> QED
  BY <1>1, <1>2, <1>3, DispatchTypeCorrect, PTL DEF Spec, OwnIdsCount
=============================================================================

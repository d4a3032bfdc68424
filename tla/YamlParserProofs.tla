-------------------------- MODULE YamlParserProofs --------------------------
(***************************************************************************)
(* Proofs about YamlParser, for any number of loads and documents and any  *)
(* depth of nesting.                                                       *)
(***************************************************************************)
EXTENDS YamlParser, FiniteFacts

Signals == {"parse-start", "document-start", "document-end", "error", "parse-end"}

CallFrame == [load : Load, at : Signals \cup {"callback"}, doc : Nat \cup {Null}]

LoadRecord ==
    [at : {"unused", "reading", "parsing", "returned", "callback", "done"},
     async : BOOLEAN, ok : BOOLEAN, failed : BOOLEAN, cancelled : BOOLEAN,
     answer : BOOLEAN \cup {Null}]

Types ==
    /\ load \in [Load -> LoadRecord]
    /\ calls \in Seq(CallFrame)
    /\ numbered \in Nat

\* A parse in progress is a load that is being parsed, a callback one that has
\* returned, and no load is in progress twice.
CallsMatchLoads ==
    /\ \A i \in 1..Len(calls) :
         load[calls[i].load].at = IF calls[i].at = "callback" THEN "callback" ELSE "parsing"
    /\ \A i, j \in 1..Len(calls) : calls[i].load = calls[j].load => i = j

\* An error is always reported, and the answer is given in the callback.
ErrorsReported ==
    \A l \in Load :
      /\ load[l].failed <=> ~load[l].ok
      /\ load[l].answer # Null =>
           /\ load[l].at = "callback"
           /\ load[l].answer <=> (load[l].ok /\ ~load[l].cancelled)

LoadInv == Types /\ CallsMatchLoads /\ ErrorsReported

-----------------------------------------------------------------------------
(* The stack. *)

\* What Front and Last return.
LEMMA FrontAndLast ==
  ASSUME NEW S, NEW s \in Seq(S), s # <<>>
  PROVE  /\ Len(s) \in Nat \ {0}
         /\ Last(s) = s[Len(s)] /\ Last(s) \in S
         /\ Front(s) \in Seq(S) /\ Len(Front(s)) = Len(s) - 1
         /\ \A i \in 1..(Len(s) - 1) : Front(s)[i] = s[i]
<1>1. Len(s) \in Nat \ {0}
  OBVIOUS
<1>2. Last(s) = s[Len(s)] /\ Last(s) \in S
  BY <1>1 DEF Last
<1>3. /\ SubSeq(s, 1, Len(s) - 1) \in Seq(S) /\ Len(SubSeq(s, 1, Len(s) - 1)) = Len(s) - 1
      /\ \A i \in 1..(Len(s) - 1) : SubSeq(s, 1, Len(s) - 1)[i] = s[i]
  <2> DEFINE n == Len(s) - 1
  <2>1. 1 \in Int /\ n \in Int /\ \A i \in 1..n : s[i] \in S
    BY <1>1
  <2>2. /\ SubSeq(s, 1, n) \in Seq(S) /\ Len(SubSeq(s, 1, n)) = IF 1 <= n THEN n - 1 + 1 ELSE 0
        /\ \A i \in 1..(n - 1 + 1) : SubSeq(s, 1, n)[i] = s[1 + i - 1]
    <3> HIDE DEF n
    <3>1. QED
      BY <2>1, SubSeqProperties
  <2>3. n \in Nat /\ n - 1 + 1 = n /\ (1 <= n \/ n = 0)
    <3> DEFINE length == Len(s)
    <3>1. length \in Nat \ {0}
      BY <1>1
    <3> HIDE DEF length
    <3>2. length - 1 \in Nat /\ length - 1 - 1 + 1 = length - 1
            /\ (1 <= length - 1 \/ length - 1 = 0)
      BY <3>1
    <3>3. QED
      BY <3>2 DEF length
  <2>4. \A i \in 1..n : SubSeq(s, 1, n)[i] = s[i]
    <3> HIDE DEF n
    <3>1. ASSUME NEW i \in 1..n
          PROVE  SubSeq(s, 1, n)[i] = s[i]
      <4>1. i \in 1..(n - 1 + 1) /\ 1 + i - 1 = i
        BY <2>3
      <4>2. QED
        BY <2>2, <4>1
    <3>2. QED
      BY <3>1
  <2>5. Len(SubSeq(s, 1, n)) = n
    <3> HIDE DEF n
    <3>1. QED
      BY <2>2, <2>3
  <2>6. QED
    BY <2>2, <2>4, <2>5
<1>4. QED
  BY <1>1, <1>2, <1>3 DEF Front

\* The call in progress goes on at another place.
LEMMA TopReplaced ==
  ASSUME NEW S, NEW s \in Seq(S), s # <<>>, NEW f \in S
  PROVE  /\ Front(s) \o <<f>> \in Seq(S) /\ Len(Front(s) \o <<f>>) = Len(s)
         /\ (Front(s) \o <<f>>)[Len(s)] = f
         /\ \A i \in 1..(Len(s) - 1) : (Front(s) \o <<f>>)[i] = s[i]
<1> DEFINE front == Front(s)
<1>1. /\ Len(s) \in Nat \ {0} /\ front \in Seq(S) /\ Len(front) = Len(s) - 1
      /\ \A i \in 1..(Len(s) - 1) : front[i] = s[i]
  BY FrontAndLast
<1> HIDE DEF front
<1>2. front \o <<f>> \in Seq(S) /\ Len(front \o <<f>>) = Len(front) + 1
  BY <1>1
<1>3. (front \o <<f>>)[Len(front) + 1] = f
  BY <1>1
<1>4. \A i \in 1..Len(front) : (front \o <<f>>)[i] = front[i]
  BY <1>1
<1>5. Len(front) + 1 = Len(s)
  BY <1>1
<1>6. QED
  BY <1>1, <1>2, <1>3, <1>4, <1>5 DEF front

-----------------------------------------------------------------------------
(* How the steps move the stack. *)

\* A parse goes on: the loads stay where they are.
LEMMA ParseGoesOn ==
  ASSUME LoadInv, calls # <<>>, Top.at \in Signals,
         NEW f \in CallFrame, f.load = Top.load, f.at \in Signals,
         calls' = Front(calls) \o <<f>>,
         \A l \in Load : load'[l].at = load[l].at
  PROVE  CallsMatchLoads' /\ calls' \in Seq(CallFrame)
<1>1. /\ calls \in Seq(CallFrame) /\ Len(calls) \in Nat \ {0}
      /\ Top = calls[Len(calls)] /\ Top \in CallFrame
  BY FrontAndLast DEF LoadInv, Types, Top
<1>2. /\ calls' \in Seq(CallFrame) /\ Len(calls') = Len(calls) /\ calls'[Len(calls)] = f
      /\ \A i \in 1..(Len(calls) - 1) : calls'[i] = calls[i]
  BY <1>1, TopReplaced
<1>3. \A i \in 1..Len(calls) :
        /\ calls'[i].load = calls[i].load /\ calls[i].load \in Load
        /\ calls'[i].at = "callback" <=> calls[i].at = "callback"
  <2> SUFFICES ASSUME NEW i \in 1..Len(calls)
      PROVE  /\ calls'[i].load = calls[i].load /\ calls[i].load \in Load
             /\ calls'[i].at = "callback" <=> calls[i].at = "callback"
    OBVIOUS
  <2>1. calls[i] \in CallFrame
    BY <1>1
  <2>2. CASE i = Len(calls)
    BY <1>1, <1>2, <2>1, <2>2 DEF CallFrame, Signals
  <2>3. CASE i # Len(calls)
    <3>1. i \in 1..(Len(calls) - 1)
      BY <1>1, <2>3
    <3>2. QED
      BY <1>2, <2>1, <3>1 DEF CallFrame
  <2>4. QED
    BY <2>2, <2>3
<1>4. ASSUME NEW i \in 1..Len(calls'), NEW j \in 1..Len(calls')
      PROVE  /\ load'[calls'[i].load].at = IF calls'[i].at = "callback" THEN "callback" ELSE "parsing"
             /\ calls'[i].load = calls'[j].load => i = j
  <2>1. i \in 1..Len(calls) /\ j \in 1..Len(calls)
    BY <1>2
  <2>2. /\ load[calls[i].load].at = IF calls[i].at = "callback" THEN "callback" ELSE "parsing"
        /\ calls[i].load = calls[j].load => i = j
    BY <2>1 DEF LoadInv, CallsMatchLoads
  <2>3. load'[calls[i].load].at = load[calls[i].load].at
    BY <1>3, <2>1
  <2>4. QED
    BY <1>3, <2>1, <2>2, <2>3
<1>5. QED
  BY <1>2, <1>4 DEF CallsMatchLoads

\* A parse or a callback returns.
LEMMA CallReturns ==
  ASSUME LoadInv, calls # <<>>, calls' = Front(calls),
         \A l \in Load \ {Top.load} : load'[l] = load[l]
  PROVE  CallsMatchLoads' /\ calls' \in Seq(CallFrame)
<1>1. /\ calls \in Seq(CallFrame) /\ Len(calls) \in Nat \ {0} /\ Top = calls[Len(calls)]
      /\ calls' \in Seq(CallFrame) /\ Len(calls') = Len(calls) - 1
      /\ \A i \in 1..(Len(calls) - 1) : calls'[i] = calls[i]
  BY FrontAndLast DEF LoadInv, Types, Top
<1>2. ASSUME NEW i \in 1..Len(calls')
      PROVE  /\ i \in 1..Len(calls) /\ calls'[i] = calls[i]
             /\ calls[i].load \in Load \ {Top.load}
  <2>1. i \in 1..(Len(calls) - 1) /\ i \in 1..Len(calls) /\ i # Len(calls)
          /\ Len(calls) \in 1..Len(calls)
    BY <1>1
  <2>2. calls[i] \in CallFrame
    BY <1>1, <2>1
  <2>3. calls[i].load # calls[Len(calls)].load
    BY <2>1 DEF LoadInv, CallsMatchLoads
  <2>4. QED
    BY <1>1, <2>1, <2>2, <2>3 DEF CallFrame
<1>3. ASSUME NEW i \in 1..Len(calls'), NEW j \in 1..Len(calls')
      PROVE  /\ load'[calls'[i].load].at = IF calls'[i].at = "callback" THEN "callback" ELSE "parsing"
             /\ calls'[i].load = calls'[j].load => i = j
  <2>1. /\ i \in 1..Len(calls) /\ calls'[i] = calls[i] /\ load'[calls[i].load] = load[calls[i].load]
        /\ j \in 1..Len(calls) /\ calls'[j] = calls[j]
    BY <1>2
  <2>2. /\ load[calls[i].load].at = IF calls[i].at = "callback" THEN "callback" ELSE "parsing"
        /\ calls[i].load = calls[j].load => i = j
    BY <2>1 DEF LoadInv, CallsMatchLoads
  <2>3. QED
    BY <2>1, <2>2
<1>4. QED
  BY <1>1, <1>3 DEF CallsMatchLoads

\* A call begins, of a load that has no call in progress.
LEMMA CallBegins ==
  ASSUME LoadInv, NEW l \in Load, NEW f \in CallFrame, f.load = l,
         load[l].at \notin {"parsing", "callback"},
         load'[l].at = IF f.at = "callback" THEN "callback" ELSE "parsing",
         \A k \in Load \ {l} : load'[k] = load[k],
         calls' = Append(calls, f)
  PROVE  CallsMatchLoads' /\ calls' \in Seq(CallFrame)
<1>1. /\ calls \in Seq(CallFrame) /\ Len(calls) \in Nat
      /\ calls' \in Seq(CallFrame) /\ Len(calls') = Len(calls) + 1
      /\ calls'[Len(calls) + 1] = f
      /\ \A i \in 1..Len(calls) : calls'[i] = calls[i]
  BY DEF LoadInv, Types
<1>2. ASSUME NEW i \in 1..Len(calls)
      PROVE  calls[i].load \in Load \ {l}
  <2>1. calls[i] \in CallFrame
    BY <1>1
  <2>2. load[calls[i].load].at \in {"parsing", "callback"}
    BY DEF LoadInv, CallsMatchLoads
  <2>3. QED
    BY <2>1, <2>2 DEF CallFrame
<1>3. \A i \in 1..Len(calls') : i \in 1..Len(calls) \/ i = Len(calls) + 1
  BY <1>1
<1>4. QED
  BY <1>1, <1>2, <1>3 DEF LoadInv, CallsMatchLoads

\* A load that is not in progress moves on, and one that is may change, but not move.
LEMMA LoadMoves ==
  ASSUME LoadInv, calls' = calls, NEW l \in Load,
         \/ load[l].at \notin {"parsing", "callback"}
         \/ load'[l].at = load[l].at,
         \A k \in Load \ {l} : load'[k] = load[k]
  PROVE  CallsMatchLoads' /\ calls' \in Seq(CallFrame)
<1>1. \A i \in 1..Len(calls) :
        calls[i] \in CallFrame /\ load[calls[i].load].at \in {"parsing", "callback"}
  BY DEF LoadInv, Types, CallsMatchLoads
<1>2. \A i \in 1..Len(calls) :
        calls[i].load \in Load /\ load'[calls[i].load].at = load[calls[i].load].at
  BY <1>1 DEF CallFrame
<1>3. QED
  BY <1>2 DEF LoadInv, Types, CallsMatchLoads

-----------------------------------------------------------------------------
(* The steps. *)

\* What the call in progress is, and that it is of a load.
LEMMA TopCall ==
  ASSUME LoadInv, calls # <<>>
  PROVE  /\ Top \in CallFrame /\ Top.load \in Load /\ Cur \in LoadRecord
         /\ Cur.at = IF Top.at = "callback" THEN "callback" ELSE "parsing"
<1>1. Len(calls) \in Nat \ {0} /\ Top = calls[Len(calls)] /\ Top \in CallFrame
  BY FrontAndLast DEF LoadInv, Types, Top
<1>2. Len(calls) \in 1..Len(calls)
  BY <1>1
<1>3. Top.load \in Load
  BY <1>1 DEF CallFrame
<1>4. QED
  BY <1>1, <1>2, <1>3 DEF LoadInv, Types, CallsMatchLoads, Cur

\* Steps that touch neither loads nor calls.
LEMMA WorkUnchanged ==
  ASSUME LoadInv, UNCHANGED work
  PROVE  LoadInv'
BY DEF LoadInv, Types, CallsMatchLoads, ErrorsReported, work

\* The emission of a signal is over and the parse goes on, with the next signal.
LEMMA GoingOn ==
  ASSUME LoadInv, calls # <<>>, Top.at \in Signals, NEW at \in Signals, GoesTo(at),
         numbered' = numbered, load' = load
  PROVE  LoadInv'
<1>1. Top.load \in Load
  BY TopCall
<1> DEFINE f == Frame(Top.load, at)
<1>2. f \in CallFrame /\ f.load = Top.load /\ f.at \in Signals /\ calls' = Front(calls) \o <<f>>
  BY <1>1 DEF Frame, CallFrame, GoesTo
<1> HIDE DEF f
<1>3. CallsMatchLoads' /\ calls' \in Seq(CallFrame)
  BY <1>2, ParseGoesOn
<1>4. QED
  BY <1>3 DEF LoadInv, Types, ErrorsReported

\* A document is finished: only the calls and the documents change.
LEMMA FinishKeeps ==
  ASSUME LoadInv, NEW immutable \in BOOLEAN, FinishDocument(immutable)
  PROVE  LoadInv'
<1>1. Top.load \in Load /\ numbered + 1 \in Nat /\ Top.at \in Signals /\ calls # <<>>
  BY TopCall DEF FinishDocument, LoadInv, Types, Signals
<1> DEFINE f == [load |-> Top.load, at |-> "document-end", doc |-> numbered + 1]
<1>2. f \in CallFrame /\ f.load = Top.load /\ f.at \in Signals
  BY <1>1 DEF CallFrame, Signals
<1>3. calls' = Front(calls) \o <<f>> /\ numbered' = numbered + 1 /\ load' = load
  BY DEF FinishDocument
<1> HIDE DEF f
<1>4. CallsMatchLoads' /\ calls' \in Seq(CallFrame)
  BY <1>1, <1>2, <1>3, ParseGoesOn
<1>5. QED
  BY <1>1, <1>3, <1>4 DEF LoadInv, Types, ErrorsReported

\* An error is emitted: the load it belongs to has no answer yet.
LEMMA ErrorKeeps ==
  ASSUME LoadInv, ParseError
  PROVE  LoadInv'
<1>1. /\ calls # <<>> /\ Top.at \in Signals /\ Top.at # "callback" /\ GoesTo("error")
      /\ load' = [load EXCEPT ![Top.load].ok = FALSE, ![Top.load].failed = TRUE]
      /\ numbered' = numbered
  BY DEF ParseError, Signals
<1>2. Top.load \in Load /\ Cur \in LoadRecord /\ Cur.at = "parsing"
  BY <1>1, TopCall
<1> DEFINE f == Frame(Top.load, "error")
           l == Top.load
<1>3. f \in CallFrame /\ f.load = l /\ f.at \in Signals /\ calls' = Front(calls) \o <<f>>
  BY <1>1, <1>2 DEF Frame, CallFrame, GoesTo, Signals
<1>4. /\ load' \in [Load -> LoadRecord] /\ load'[l].at = load[l].at
      /\ load'[l].ok = FALSE /\ load'[l].failed = TRUE /\ load'[l].answer = load[l].answer
      /\ \A k \in Load \ {l} : load'[k] = load[k]
  BY <1>1, <1>2 DEF LoadInv, Types, LoadRecord, Cur
<1>5. load[l].answer = Null
  BY <1>2 DEF LoadInv, ErrorsReported, Cur
<1> HIDE DEF f, l
<1>6. CallsMatchLoads' /\ calls' \in Seq(CallFrame)
  <2>1. \A k \in Load : load'[k].at = load[k].at
    BY <1>4
  <2>2. f.load = Top.load
    BY <1>3 DEF l
  <2>3. QED
    BY <1>1, <1>3, <2>1, <2>2, ParseGoesOn
<1>7. ErrorsReported'
  BY <1>4, <1>5 DEF LoadInv, ErrorsReported
<1>8. QED
  BY <1>1, <1>4, <1>6, <1>7 DEF LoadInv, Types

\* A call returns: its load waits for its answer to be given, or is over.
LEMMA ReturnKeeps ==
  ASSUME LoadInv, ParseReturns \/ CallbackReturns
  PROVE  LoadInv'
<1> DEFINE l == Top.load
<1>1. calls # <<>> /\ calls' = Front(calls) /\ numbered' = numbered
  BY DEF ParseReturns, CallbackReturns
<1>2. l \in Load /\ Cur \in LoadRecord /\ Cur = load[l]
  BY <1>1, TopCall DEF Cur
<1>3. Over \in LoadRecord /\ ~Over.failed /\ Over.ok /\ Over.answer = Null
  BY DEF Over, NoLoad, LoadRecord
<1>4. /\ load' \in [Load -> LoadRecord] /\ \A k \in Load \ {l} : load'[k] = load[k]
      /\ \/ load'[l] = Over
         \/ ParseReturns /\ load'[l] = [load[l] EXCEPT !.at = "returned"]
  <2>1. CASE ParseReturns
    <3> DEFINE r == IF Cur.async THEN [load[l] EXCEPT !.at = "returned"] ELSE Over
    <3>1. load' = [load EXCEPT ![l] = r] /\ r \in LoadRecord
      BY <1>2, <1>3, <2>1 DEF ParseReturns, LoadRecord
    <3>2. r = Over \/ r = [load[l] EXCEPT !.at = "returned"]
      OBVIOUS
    <3> HIDE DEF r
    <3>3. load' \in [Load -> LoadRecord] /\ load'[l] = r
      BY <1>2, <3>1 DEF LoadInv, Types
    <3>4. \A k \in Load \ {l} : load'[k] = load[k]
      BY <1>2, <3>1 DEF LoadInv, Types
    <3>5. QED
      BY <2>1, <3>2, <3>3, <3>4
  <2>2. CASE CallbackReturns
    <3>1. load' = [load EXCEPT ![l] = Over]
      BY <2>2 DEF CallbackReturns
    <3>2. QED
      BY <1>2, <1>3, <3>1 DEF LoadInv, Types
  <2>3. QED
    BY <2>1, <2>2
<1>5. CallsMatchLoads' /\ calls' \in Seq(CallFrame)
  BY <1>1, <1>4, CallReturns
<1>6. ErrorsReported'
  <2>1. \A k \in Load \ {l} : load'[k] = load[k]
    BY <1>4
  <2>2. CASE load'[l] = Over
    BY <1>3, <2>1, <2>2 DEF LoadInv, ErrorsReported
  <2>3. CASE ParseReturns /\ load'[l] = [load[l] EXCEPT !.at = "returned"]
    <3>1. Cur.at = "parsing"
      BY <1>1, <2>3, TopCall DEF ParseReturns
    <3>2. load[l].answer = Null
      BY <1>2, <3>1 DEF LoadInv, ErrorsReported
    <3>3. /\ load'[l].ok = load[l].ok /\ load'[l].failed = load[l].failed
          /\ load'[l].answer = Null
      BY <1>2, <2>3, <3>2 DEF LoadRecord
    <3> HIDE DEF l
    <3>4. QED
      BY <1>2, <2>1, <3>3 DEF LoadInv, ErrorsReported
  <2>4. QED
    BY <1>4, <2>2, <2>3
<1>7. QED
  BY <1>1, <1>4, <1>5, <1>6 DEF LoadInv, Types

\* A parse begins.
LEMMA ParseBeginKeeps ==
  ASSUME LoadInv, NEW l \in Load, LoadSync(l) \/ ReadDone(l)
  PROVE  LoadInv'
<1> DEFINE f == Frame(l, "parse-start")
<1>1. /\ load[l].at \in {"unused", "reading"} /\ load' = [load EXCEPT ![l].at = "parsing"]
      /\ numbered' = numbered
  BY DEF LoadSync, ReadDone
<1>2. f \in CallFrame /\ f.load = l /\ f.at = "parse-start"
  BY DEF Frame, CallFrame, Signals
<1>3. calls' = Append(calls, f)
  <2>1. <<f>> = Append(<<>>, f)
    OBVIOUS
  <2> HIDE DEF f
  <2>2. calls' = Append(calls, f) \/ (calls = <<>> /\ calls' = <<f>>)
    BY DEF LoadSync, ReadDone, f
  <2>3. QED
    BY <2>1, <2>2
<1>4. /\ load' \in [Load -> LoadRecord] /\ load'[l].at = "parsing"
      /\ load'[l].ok = load[l].ok /\ load'[l].failed = load[l].failed
      /\ load'[l].answer = load[l].answer
      /\ \A k \in Load \ {l} : load'[k] = load[k]
  BY <1>1 DEF LoadInv, Types, LoadRecord
<1>5. load[l].answer = Null
  BY <1>1 DEF LoadInv, ErrorsReported
<1> HIDE DEF f
<1>6. CallsMatchLoads' /\ calls' \in Seq(CallFrame)
  BY <1>1, <1>2, <1>3, <1>4, CallBegins
<1>7. ErrorsReported'
  BY <1>4, <1>5 DEF LoadInv, ErrorsReported
<1>8. QED
  BY <1>1, <1>4, <1>6, <1>7 DEF LoadInv, Types

\* A callback begins, and its load is answered.
LEMMA CallBackKeeps ==
  ASSUME LoadInv, NEW l \in Load, CallBack(l)
  PROVE  LoadInv'
<1> DEFINE f == Frame(l, "callback")
           answer == load[l].ok /\ ~load[l].cancelled
<1>1. /\ load[l].at = "returned" /\ calls = <<>> /\ calls' = <<f>> /\ numbered' = numbered
      /\ load' = [load EXCEPT ![l].at = "callback", ![l].answer = answer]
  BY DEF CallBack
<1>2. f \in CallFrame /\ f.load = l /\ f.at = "callback"
  BY DEF Frame, CallFrame
<1>3. calls' = Append(calls, f)
  <2> HIDE DEF f
  <2>1. QED
    BY <1>1
<1>4. answer \in BOOLEAN
  OBVIOUS
<1>5. answer <=> load[l].ok /\ ~load[l].cancelled
  OBVIOUS
<1> HIDE DEF f, answer
<1>6. /\ load' \in [Load -> LoadRecord] /\ load'[l].at = "callback"
      /\ load'[l].ok = load[l].ok /\ load'[l].failed = load[l].failed
      /\ load'[l].cancelled = load[l].cancelled /\ load'[l].answer = answer
      /\ \A k \in Load \ {l} : load'[k] = load[k]
  BY <1>1, <1>4 DEF LoadInv, Types, LoadRecord
<1>7. CallsMatchLoads' /\ calls' \in Seq(CallFrame)
  BY <1>1, <1>2, <1>3, <1>6, CallBegins
<1>8. ErrorsReported'
  BY <1>5, <1>6 DEF LoadInv, ErrorsReported
<1>9. QED
  BY <1>1, <1>6, <1>7, <1>8 DEF LoadInv, Types

\* A load starts, or is cancelled, or its source cannot be read.
LEMMA LoadKeeps ==
  ASSUME LoadInv, NEW l \in Load, LoadAsync(l) \/ Cancel(l) \/ ReadFails(l)
  PROVE  LoadInv'
<1>1. load \in [Load -> LoadRecord] /\ load[l] \in LoadRecord
  BY DEF LoadInv, Types
<1>2. load[l].answer = Null
  BY DEF LoadInv, ErrorsReported, LoadAsync, Cancel, ReadFails
<1>3. /\ load' \in [Load -> LoadRecord] /\ load'[l].answer = load[l].answer
      /\ load[l].at \in {"unused", "reading"} \/ load'[l].at = load[l].at
      /\ \/ load'[l].failed = load[l].failed /\ load'[l].ok = load[l].ok
         \/ load'[l].failed = TRUE /\ load'[l].ok = FALSE
      /\ \A k \in Load \ {l} : load'[k] = load[k]
      /\ calls' = calls /\ numbered' = numbered
  <2>1. CASE LoadAsync(l)
    <3>1. load' = [load EXCEPT ![l].at = "reading", ![l].async = TRUE]
            /\ load[l].at = "unused" /\ calls' = calls /\ numbered' = numbered
      BY <2>1 DEF LoadAsync
    <3>2. QED
      BY <1>1, <3>1 DEF LoadRecord
  <2>2. CASE Cancel(l)
    <3>1. load' = [load EXCEPT ![l].cancelled = TRUE] /\ calls' = calls /\ numbered' = numbered
      BY <2>2 DEF Cancel
    <3>2. QED
      BY <1>1, <3>1 DEF LoadRecord
  <2>3. CASE ReadFails(l)
    <3>1. load' = [load EXCEPT ![l].ok = FALSE, ![l].failed = TRUE, ![l].at = "returned"]
            /\ load[l].at = "reading" /\ calls' = calls /\ numbered' = numbered
      BY <2>3 DEF ReadFails
    <3>2. QED
      BY <1>1, <3>1 DEF LoadRecord
  <2>4. QED
    BY <2>1, <2>2, <2>3
<1>4. CallsMatchLoads' /\ calls' \in Seq(CallFrame)
  BY <1>3, LoadMoves
<1>5. ErrorsReported'
  BY <1>2, <1>3 DEF LoadInv, ErrorsReported
<1>6. QED
  BY <1>3, <1>4, <1>5 DEF LoadInv, Types

-----------------------------------------------------------------------------
(* The theorem. *)

\* Nothing is loaded at first.
LEMMA Initially == Init => LoadInv
<1> SUFFICES ASSUME Init PROVE LoadInv
  OBVIOUS
<1>1. calls \in Seq(CallFrame) /\ Len(calls) = 0 /\ numbered \in Nat
  BY DEF Init
<1>2. load \in [Load -> LoadRecord]
  BY DEF Init, NoLoad, LoadRecord
<1>3. CallsMatchLoads
  BY <1>1 DEF CallsMatchLoads
<1>4. ErrorsReported
  BY DEF Init, NoLoad, ErrorsReported
<1>5. QED
  BY <1>1, <1>2, <1>3, <1>4 DEF LoadInv, Types

\* What GLib and the library do on their own keeps the invariant of the loads.
LEMMA StepKeeps == LoadInv /\ Step => LoadInv'
<1> SUFFICES ASSUME LoadInv, Step PROVE LoadInv'
  OBVIOUS
<1>1. CASE NextDocument
  BY <1>1, GoingOn DEF NextDocument, Signals
<1>2. CASE EndOfStream
  BY <1>2, GoingOn DEF EndOfStream, Signals
<1>3. CASE ParseError
  BY <1>3, ErrorKeeps
<1>4. CASE ParseReturns \/ CallbackReturns
  BY <1>4, ReturnKeeps
<1>5. CASE \E immutable \in BOOLEAN : FinishDocument(immutable)
  BY <1>5, FinishKeeps
<1>6. CASE \E l \in Load : ReadDone(l) \/ ReadFails(l) \/ CallBack(l)
  BY <1>6, ParseBeginKeeps, LoadKeeps, CallBackKeeps
<1>7. QED
  BY <1>1, <1>2, <1>3, <1>4, <1>5, <1>6 DEF Step

\* What the program calls keeps it.
LEMMA CallKeeps == LoadInv /\ Call => LoadInv'
<1> SUFFICES ASSUME LoadInv, Call PROVE LoadInv'
  OBVIOUS
<1>1. CASE \E l \in Load : LoadSync(l) \/ LoadAsync(l) \/ Cancel(l)
  BY <1>1, ParseBeginKeeps, LoadKeeps
<1>2. CASE Reset \/ UnrefParser \/ \E i \in DOMAIN documents : StealDocument(i)
  <2>1. UNCHANGED work
    BY <1>2 DEF Reset, UnrefParser, StealDocument
  <2>2. QED
    BY <2>1, WorkUnchanged
<1>3. CASE \E d \in Document :
             \/ DupDocument(d) \/ UnrefDocument(d) \/ UnrefNode(d)
             \/ DupRoot(d) \/ StealRoot(d) \/ SealDocument(d)
             \/ \E n \in Nodes : SetRoot(d, n)
  <2>1. UNCHANGED work
    BY <1>3 DEF DupDocument, UnrefDocument, UnrefNode, DupRoot, StealRoot, SealDocument, SetRoot
  <2>2. QED
    BY <2>1, WorkUnchanged
<1>4. QED
  BY <1>1, <1>2, <1>3 DEF Call

\* Loads and calls in progress match, and errors are reported, in every state.
LEMMA LoadsAreInvariant == Spec => []LoadInv
<1>1. Init => LoadInv
  BY Initially
<1>2. LoadInv /\ [Next]_vars => LoadInv'
  BY StepKeeps, CallKeeps, WorkUnchanged DEF Next, vars
<1>3. QED
  BY <1>1, <1>2, PTL DEF Spec

\* What a program is told of an asynchronous load is true: the load succeeded only if
\* its source was read and parsed to the end, and failed only for a reason of its own,
\* for any number of loads that run, fail or are cancelled in one another's handlers.
THEOREM AnswersAreTrue == Spec => []AnswerIsTrue
<1>1. LoadInv => AnswerIsTrue
  <2> SUFFICES ASSUME LoadInv, NEW l \in Load
      PROVE  /\ load[l].answer = TRUE  => ~load[l].failed
             /\ load[l].answer = FALSE => load[l].failed \/ load[l].cancelled
    BY DEF AnswerIsTrue
  <2>1. Null # TRUE /\ Null # FALSE
    BY ParserAssumption
  <2>2. QED
    BY <2>1 DEF LoadInv, ErrorsReported
<1>2. QED
  BY <1>1, LoadsAreInvariant, PTL

-----------------------------------------------------------------------------
(* What exists.  A document and its root are made with the next number, and nothing     *)
(* refers to a number that was not given out yet.                                       *)

DocRecord  == [refs : Int, root : Document \cup {Null}, sealed : BOOLEAN]
RootRecord == [refs : Int, sealed : BOOLEAN]

TreeTypes ==
    /\ refs \in Int /\ holding \in BOOLEAN
    /\ doc \in [Document -> DocRecord] /\ node \in [Document -> RootRecord]
    /\ docsOwned \in [Document -> Nat] /\ nodesOwned \in [Document -> Nat]
    /\ documents \in Seq(Document) /\ NoneTwice(documents)

\* The parses that are about to make a document.
Starts == {i \in DOMAIN calls : calls[i].at = "document-start"}

\* Only the signal document-end has a document.
FrameKnown(f) == IF f.at = "document-end" THEN f.doc \in 1..numbered ELSE f.doc = Null
StackKnown ==
    /\ numbered + Cardinality(Starts) <= MaxDocuments
    /\ \A i \in 1..Len(calls) : FrameKnown(calls[i])

OnlyNumbered ==
    /\ StackKnown
    /\ \A i \in 1..Len(documents) : documents[i] <= numbered
    /\ \A d \in Document :
         /\ doc[d].root # Null => doc[d].root <= numbered /\ d <= numbered
         /\ d > numbered => doc[d].refs = 0 /\ docsOwned[d] = 0 /\ nodesOwned[d] = 0

\* What a sealed document has for a root is sealed.
SealedRoots ==
    \A d \in Document : doc[d].sealed /\ doc[d].root # Null => node[doc[d].root].sealed

\* Who has a task, and that the parse at the bottom of the stack holds the parser.
TasksKnown ==
    /\ \A l \in Load :
         /\ load[l].at \in {"reading", "returned", "callback"} => load[l].async
         /\ load[l].at = "unused" => ~load[l].async
    /\ calls # <<>> => holding \/ load[calls[1].load].async

KnownInv == LoadInv /\ TreeTypes /\ OnlyNumbered /\ SealedRoots /\ TasksKnown

\* The places that refer to a document and to a root.
Emitting(d) == {i \in DOMAIN calls : calls[i].doc = d}
Listed(d)   == IF \E i \in 1..Len(documents) : documents[i] = d THEN 1 ELSE 0
RootsAt(n)  == {e \in Document : doc[e].root = n}
Tasks       == {l \in Load : load[l].async}
DataTasks   == {l \in Stream : load[l].async}
Handle      == IF holding THEN 1 ELSE 0
Places(d)   == docsOwned[d] + Listed(d) + Cardinality(Emitting(d))

\* The counters are the numbers of these places.
ParserExact == refs = Handle + Cardinality(Tasks) + Cardinality(DataTasks)
DocExact(d)  == doc[d].refs = Places(d)
NodeExact(n) == node[n].refs = nodesOwned[n] + Cardinality(RootsAt(n))
TreesExact   == \A d \in Document : DocExact(d) /\ NodeExact(d)

\* 1 when the two are the same.
Same(a, b) == IF a = b THEN 1 ELSE 0

\* The sets that are counted are finite.
LEMMA CountsAreFinite ==
  ASSUME LoadInv
  PROVE  /\ IsFiniteSet(Starts) /\ Cardinality(Starts) \in Nat
         /\ IsFiniteSet(Tasks) /\ Cardinality(Tasks) \in Nat
         /\ IsFiniteSet(DataTasks) /\ Cardinality(DataTasks) \in Nat
         /\ \A d : /\ IsFiniteSet(Emitting(d)) /\ Cardinality(Emitting(d)) \in Nat
                  /\ IsFiniteSet(RootsAt(d)) /\ Cardinality(RootsAt(d)) \in Nat
                  /\ Listed(d) \in {0, 1}
<1>1. Len(calls) \in Nat /\ DOMAIN calls = 1..Len(calls)
  BY LenProperties DEF LoadInv, Types
<1>2. IsFiniteSet(DOMAIN calls) /\ IsFiniteSet(Document) /\ IsFiniteSet(Load) /\ Stream \in SUBSET Load
  BY <1>1, ParserAssumption, FS_Interval DEF Document
<1>3. IsFiniteSet(Stream)
  BY <1>2, FS_Subset
<1>4. /\ Starts \in SUBSET DOMAIN calls /\ \A d : Emitting(d) \in SUBSET DOMAIN calls
      /\ Tasks \in SUBSET Load /\ DataTasks \in SUBSET Stream
      /\ \A d : RootsAt(d) \in SUBSET Document
  BY DEF Starts, Emitting, Tasks, DataTasks, RootsAt
<1>5. /\ IsFiniteSet(Starts) /\ IsFiniteSet(Tasks) /\ IsFiniteSet(DataTasks)
      /\ \A d : IsFiniteSet(Emitting(d)) /\ IsFiniteSet(RootsAt(d))
  BY <1>2, <1>3, <1>4, FS_Subset
<1>6. \A d : Listed(d) \in {0, 1}
  BY DEF Listed
<1>7. QED
  BY <1>5, <1>6, FS_CardinalityType

\* The documents of a root, before and after a step.
LEMMA RootsAreFinite ==
  \A n : Cardinality(RootsAt(n)) \in Nat /\ Cardinality(RootsAt(n)') \in Nat
<1>1. IsFiniteSet(Document)
  BY ParserAssumption, FS_Interval DEF Document
<1>2. \A n : RootsAt(n) \in SUBSET Document /\ RootsAt(n)' \in SUBSET Document
  BY DEF RootsAt
<1>3. QED
  BY <1>1, <1>2, FS_Subset, FS_CardinalityType

\* The documents that lose their last reference lose their roots, and nothing else moves.
LEMMA DropKeeps ==
  ASSUME LoadInv, TreeTypes, NEW D \in SUBSET Document, DropDocuments(D)
  PROVE  /\ doc' \in [Document -> DocRecord] /\ node' \in [Document -> RootRecord]
         /\ \A d \in Document :
              /\ doc'[d].refs = doc[d].refs - (IF d \in D THEN 1 ELSE 0)
              /\ doc'[d].root = IF d \in D /\ doc[d].refs = 1 THEN Null ELSE doc[d].root
              /\ doc'[d].sealed = doc[d].sealed
              /\ node'[d].sealed = node[d].sealed
              /\ node'[d].refs = node[d].refs + Cardinality(RootsAt(d)') - Cardinality(RootsAt(d))
<1>1. doc' = DocsWithout(D) /\ node' = NodesWithout(D)
  BY DEF DropDocuments
<1>2. ASSUME NEW d \in Document
      PROVE  /\ doc'[d] \in DocRecord
             /\ doc'[d].refs = doc[d].refs - (IF d \in D THEN 1 ELSE 0)
             /\ doc'[d].root = IF d \in D /\ doc[d].refs = 1 THEN Null ELSE doc[d].root
             /\ doc'[d].sealed = doc[d].sealed
  <2>1. doc[d] \in DocRecord
    BY DEF TreeTypes
  <2>2. CASE d \notin D
    <3>1. doc'[d] = doc[d]
      BY <1>1, <2>2 DEF DocsWithout
    <3>2. doc[d].refs \in Int
      BY <2>1 DEF DocRecord
    <3>3. QED
      BY <2>1, <2>2, <3>1, <3>2
  <2>3. CASE d \in D
    <3> DEFINE r == IF doc[d].refs = 1 THEN Null ELSE doc[d].root
    <3>1. doc'[d] = [doc[d] EXCEPT !.refs = @ - 1, !.root = r]
      BY <1>1, <2>3 DEF DocsWithout
    <3>2. r \in Document \cup {Null}
      BY <2>1 DEF DocRecord
    <3> HIDE DEF r
    <3>3. doc'[d] = [refs |-> doc[d].refs - 1, root |-> r, sealed |-> doc[d].sealed]
      BY <2>1, <3>1 DEF DocRecord
    <3>4. doc'[d] \in DocRecord
      BY <2>1, <3>2, <3>3 DEF DocRecord
    <3>5. QED
      BY <2>3, <3>3, <3>4 DEF r
  <2>4. QED
    BY <2>2, <2>3
<1>3. ASSUME NEW n \in Document
      PROVE  /\ node'[n] \in RootRecord /\ node'[n].sealed = node[n].sealed
             /\ node'[n].refs = node[n].refs + Cardinality(RootsAt(n)') - Cardinality(RootsAt(n))
  <2> DEFINE A == RootsAt(n)
             B == {d \in D : doc[d].refs = 1 /\ doc[d].root = n}
             c == Cardinality(B)
  <2>1. IsFiniteSet(A) /\ B \in SUBSET A /\ A \cap B = B
    BY CountsAreFinite DEF RootsAt
  <2>2. RootsAt(n)' = A \ B
    <3>1. n # Null
      BY ParserAssumption DEF Document
    <3>2. QED
      BY <1>2, <3>1 DEF RootsAt
  <2>3. node[n] \in RootRecord /\ node'[n] = [node[n] EXCEPT !.refs = @ - c]
    BY <1>1 DEF TreeTypes, NodesWithout
  <2> HIDE DEF A, B
  <2>4. Cardinality(A \ B) = Cardinality(A) - c /\ c \in Nat /\ Cardinality(A) \in Nat
    BY <2>1, FS_Difference, FS_Subset, FS_CardinalityType
  <2> HIDE DEF c
  <2>5. /\ node'[n] = [refs |-> node[n].refs - c, sealed |-> node[n].sealed]
        /\ node[n].refs \in Int
    BY <2>3, <2>4 DEF RootRecord
  <2>6. node'[n] \in RootRecord
    BY <2>3, <2>4, <2>5 DEF RootRecord
  <2>7. QED
    BY <2>2, <2>4, <2>5, <2>6 DEF A
<1>4. doc' = [d \in Document |-> doc'[d]] /\ node' = [n \in Document |-> node'[n]]
  BY <1>1 DEF DocsWithout, NodesWithout
<1>5. QED
  BY <1>2, <1>3, <1>4

\* What is referred to from the stack when the call in progress goes on at another place.
LEMMA StackGoesOn ==
  ASSUME LoadInv, calls # <<>>, NEW f \in CallFrame, calls' = Front(calls) \o <<f>>
  PROVE  /\ \A d : Cardinality(Emitting(d)')
                    = Cardinality(Emitting(d)) + Same(f.doc, d) - Same(Top.doc, d)
         /\ Cardinality(Starts') = Cardinality(Starts) + Same(f.at, "document-start")
                                                      - Same(Top.at, "document-start")
         /\ \A i \in 1..Len(calls') : calls'[i] = f \/ (i \in 1..Len(calls) /\ calls'[i] = calls[i])
         /\ f.load = Top.load => calls'[1].load = calls[1].load
<1> DEFINE n == Len(calls)
<1>1. /\ n \in Nat \ {0} /\ Top = calls[n]
      /\ Len(calls') = n /\ calls' \in Seq(CallFrame) /\ calls'[n] = f
      /\ \A i \in 1..(n - 1) : calls'[i] = calls[i]
  <2>1. calls \in Seq(CallFrame)
    BY DEF LoadInv, Types
  <2>2. Len(calls) \in Nat \ {0} /\ Top = calls[Len(calls)]
    BY <2>1, FrontAndLast DEF Top
  <2>3. /\ calls' \in Seq(CallFrame) /\ Len(calls') = Len(calls) /\ calls'[Len(calls)] = f
        /\ \A i \in 1..(Len(calls) - 1) : calls'[i] = calls[i]
    BY <2>1, TopReplaced
  <2>4. QED
    BY <2>2, <2>3
<1>2. DOMAIN calls = 1..n /\ DOMAIN calls' = 1..n
  BY <1>1, LenProperties DEF LoadInv, Types
<1> HIDE DEF n
<1>3. \A i \in 1..n : i # n => i \in 1..(n - 1)
  BY <1>1
<1>4. n \in 1..n
  BY <1>1
<1>5. ASSUME NEW d
      PROVE  Cardinality(Emitting(d)') = Cardinality(Emitting(d)) + Same(f.doc, d) - Same(Top.doc, d)
  <2> DEFINE A == Emitting(d)
             B == {i \in DOMAIN calls' : calls'[i].doc = d}
  <2>1. IsFiniteSet(A) /\ A \ {n} = B \ {n} /\ (n \in A <=> Top.doc = d) /\ (n \in B <=> f.doc = d)
    BY <1>1, <1>2, <1>3, <1>4, CountsAreFinite DEF Emitting
  <2>2. B = Emitting(d)'
    BY DEF Emitting
  <2> HIDE DEF A, B
  <2>3. /\ Cardinality(A) \in Nat
        /\ Cardinality(B) = Cardinality(A) + (IF n \in B THEN 1 ELSE 0) - (IF n \in A THEN 1 ELSE 0)
    BY <2>1, OneDiffers
  <2>4. Cardinality(B) = Cardinality(A) + Same(f.doc, d) - Same(Top.doc, d)
    BY <2>1, <2>3 DEF Same
  <2>5. QED
    BY <2>2, <2>4 DEF A
<1>6. Cardinality(Starts') = Cardinality(Starts) + Same(f.at, "document-start")
                                                 - Same(Top.at, "document-start")
  <2> DEFINE A == Starts
             B == {i \in DOMAIN calls' : calls'[i].at = "document-start"}
  <2>1. /\ IsFiniteSet(A) /\ A \ {n} = B \ {n}
        /\ n \in A <=> Top.at = "document-start"
        /\ n \in B <=> f.at = "document-start"
    BY <1>1, <1>2, <1>3, <1>4, CountsAreFinite DEF Starts
  <2>2. B = Starts'
    BY DEF Starts
  <2> HIDE DEF A, B
  <2>3. /\ Cardinality(A) \in Nat
        /\ Cardinality(B) = Cardinality(A) + (IF n \in B THEN 1 ELSE 0) - (IF n \in A THEN 1 ELSE 0)
    BY <2>1, OneDiffers
  <2>4. Cardinality(B) = Cardinality(A) + Same(f.at, "document-start") - Same(Top.at, "document-start")
    BY <2>1, <2>3 DEF Same
  <2>5. QED
    BY <2>2, <2>4 DEF A
<1>7. \A i \in 1..Len(calls') : calls'[i] = f \/ (i \in 1..Len(calls) /\ calls'[i] = calls[i])
  BY <1>1, <1>3 DEF n
<1>8. ASSUME f.load = Top.load
      PROVE  calls'[1].load = calls[1].load
  <2>1. CASE n = 1
    BY <1>1, <1>8, <2>1
  <2>2. CASE n # 1
    <3>1. 1 \in 1..(n - 1)
      BY <1>1, <2>2
    <3>2. QED
      BY <1>1, <3>1
  <2>3. QED
    BY <2>1, <2>2
<1>9. QED
  BY <1>5, <1>6, <1>7, <1>8

\* When a call returns that refers to nothing.
LEMMA StackPops ==
  ASSUME LoadInv, calls # <<>>, calls' = Front(calls), Top.doc = Null, Top.at # "document-start"
  PROVE  /\ \A d \in Document : Emitting(d)' = Emitting(d)
         /\ Starts' = Starts
         /\ \A i \in 1..Len(calls') : i \in 1..Len(calls) /\ calls'[i] = calls[i]
         /\ calls' # <<>> => /\ calls'[1] = calls[1] /\ 1 \in 1..Len(calls)
                            /\ Top.load # calls[1].load
<1> DEFINE n == Len(calls)
<1>1. /\ n \in Nat \ {0} /\ Top = calls[n]
      /\ Len(calls') = n - 1 /\ calls' \in Seq(CallFrame)
      /\ \A i \in 1..(n - 1) : calls'[i] = calls[i]
  BY FrontAndLast DEF LoadInv, Types, Top
<1>2. DOMAIN calls = 1..n /\ DOMAIN calls' = 1..(n - 1)
  BY <1>1, LenProperties DEF LoadInv, Types
<1>3. \A i, j \in 1..n : calls[i].load = calls[j].load => i = j
  BY DEF LoadInv, CallsMatchLoads
<1> HIDE DEF n
<1>4. \A i \in 1..n : i # n => i \in 1..(n - 1)
  BY <1>1
<1>5. \A i \in 1..(n - 1) : i \in 1..n /\ i # n
  BY <1>1
<1>6. \A d \in Document : Emitting(d)' = Emitting(d)
  <2>1. \A d \in Document : d # Null
    BY ParserAssumption DEF Document
  <2>2. QED
    BY <1>1, <1>2, <1>4, <1>5, <2>1 DEF Emitting
<1>7. Starts' = Starts
  BY <1>1, <1>2, <1>4, <1>5 DEF Starts
<1>8. ASSUME calls' # <<>>
      PROVE  calls'[1] = calls[1] /\ 1 \in 1..Len(calls) /\ Top.load # calls[1].load
  <2>1. n - 1 # 0
    BY <1>1, <1>8, EmptySeq
  <2>2. 1 \in 1..(n - 1) /\ 1 \in 1..n /\ n \in 1..n /\ n # 1
    BY <1>1, <2>1
  <2>3. QED
    BY <1>1, <1>3, <2>2 DEF n
<1>9. QED
  BY <1>1, <1>5, <1>6, <1>7, <1>8 DEF n

\* When a call begins.
LEMMA StackPushes ==
  ASSUME LoadInv, NEW f \in CallFrame, calls' = Append(calls, f), f.doc = Null,
         f.at # "document-start"
  PROVE  /\ \A d \in Document : Emitting(d)' = Emitting(d)
         /\ Starts' = Starts
         /\ \A i \in 1..Len(calls') : calls'[i] = f \/ (i \in 1..Len(calls) /\ calls'[i] = calls[i])
         /\ calls'[1] = IF calls = <<>> THEN f ELSE calls[1]
<1> DEFINE n == Len(calls)
<1>1. /\ n \in Nat /\ Len(calls') = n + 1 /\ calls' \in Seq(CallFrame)
      /\ calls'[n + 1] = f
      /\ \A i \in 1..n : calls'[i] = calls[i]
      /\ calls = <<>> <=> n = 0
  BY AppendProperties, LenProperties, EmptySeq DEF LoadInv, Types
<1>2. DOMAIN calls = 1..n /\ DOMAIN calls' = 1..(n + 1)
  BY <1>1, LenProperties DEF LoadInv, Types
<1> HIDE DEF n
<1>3. \A i \in 1..(n + 1) : i = n + 1 \/ i \in 1..n
  BY <1>1
<1>4. \A i \in 1..n : i \in 1..(n + 1)
  BY <1>1
<1>5. \A d \in Document : Emitting(d)' = Emitting(d)
  <2>1. \A d \in Document : d # Null
    BY ParserAssumption DEF Document
  <2>2. QED
    BY <1>1, <1>2, <1>3, <1>4, <2>1 DEF Emitting
<1>6. Starts' = Starts
  BY <1>1, <1>2, <1>3, <1>4 DEF Starts
<1>7. calls'[1] = IF calls = <<>> THEN f ELSE calls[1]
  <2>1. CASE n = 0
    BY <1>1, <2>1
  <2>2. CASE n # 0
    <3>1. 1 \in 1..n
      BY <1>1, <2>2
    <3>2. QED
      BY <1>1, <2>2, <3>1
  <2>3. QED
    BY <2>1, <2>2
<1>8. QED
  BY <1>1, <1>3, <1>5, <1>6, <1>7 DEF n

-----------------------------------------------------------------------------
(* The documents and their roots, step by step. *)

TreesKnown == TreeTypes /\ OnlyNumbered /\ SealedRoots

\* Documents lose a reference: what else changes is who refers to them.
LEMMA DropFollows ==
  ASSUME KnownInv, LoadInv', NEW D \in SUBSET Document, \A d \in D : d <= numbered,
         DropDocuments(D), numbered' = numbered, nodesOwned' = nodesOwned, StackKnown',
         refs' \in Int, holding' \in BOOLEAN,
         documents' \in Seq(Document), NoneTwice(documents'),
         \A i \in 1..Len(documents') : documents'[i] <= numbered,
         docsOwned' \in [Document -> Nat],
         \A d \in Document : d > numbered => docsOwned'[d] = 0
  PROVE  /\ TreesKnown'
         /\ /\ TreesExact
            /\ \A d \in Document : Places(d)' = Places(d) - (IF d \in D THEN 1 ELSE 0)
            => TreesExact'
<1>1. LoadInv /\ TreeTypes /\ OnlyNumbered /\ SealedRoots /\ numbered \in Nat
  BY DEF KnownInv, LoadInv, Types
<1>2. /\ doc' \in [Document -> DocRecord] /\ node' \in [Document -> RootRecord]
      /\ \A d \in Document :
           /\ doc'[d].refs = doc[d].refs - (IF d \in D THEN 1 ELSE 0)
           /\ doc'[d].root = IF d \in D /\ doc[d].refs = 1 THEN Null ELSE doc[d].root
           /\ doc'[d].sealed = doc[d].sealed
           /\ node'[d].sealed = node[d].sealed
           /\ node'[d].refs = node[d].refs + Cardinality(RootsAt(d)') - Cardinality(RootsAt(d))
  BY <1>1, DropKeeps
<1>3. TreeTypes'
  BY <1>1, <1>2 DEF TreeTypes
<1>4. OnlyNumbered'
  <2>1. ASSUME NEW d \in Document
        PROVE  /\ doc'[d].root # Null => doc'[d].root <= numbered /\ d <= numbered
               /\ d > numbered => doc'[d].refs = 0 /\ docsOwned'[d] = 0 /\ nodesOwned'[d] = 0
    <3>1. /\ doc[d].root # Null => doc[d].root <= numbered /\ d <= numbered
          /\ d > numbered => doc[d].refs = 0 /\ nodesOwned[d] = 0
      BY <1>1 DEF OnlyNumbered
    <3>2. d > numbered => d \notin D
      BY <1>1 DEF Document
    <3>3. QED
      BY <1>2, <3>1, <3>2
  <2>2. QED
    BY <2>1 DEF OnlyNumbered
<1>5. SealedRoots'
  <2>1. ASSUME NEW d \in Document, doc'[d].sealed, doc'[d].root # Null
        PROVE  node'[doc'[d].root].sealed
    <3>1. doc[d].sealed /\ doc[d].root # Null /\ doc'[d].root = doc[d].root
      BY <1>2, <2>1
    <3>2. doc[d].root \in Document
      BY <1>1, <3>1 DEF TreeTypes, DocRecord
    <3>3. node[doc[d].root].sealed
      BY <1>1, <3>1 DEF SealedRoots
    <3>4. QED
      BY <1>2, <3>1, <3>2, <3>3
  <2>2. QED
    BY <2>1 DEF SealedRoots
<1>6. ASSUME TreesExact,
             \A d \in Document : Places(d)' = Places(d) - (IF d \in D THEN 1 ELSE 0)
      PROVE  TreesExact'
  <2>1. ASSUME NEW d \in Document PROVE DocExact(d)' /\ NodeExact(d)'
    <3>1. DocExact(d) /\ NodeExact(d)
      BY <1>6 DEF TreesExact
    <3>2. DocExact(d)'
      BY <1>2, <1>6, <3>1 DEF DocExact
    <3>3. /\ Cardinality(RootsAt(d)) \in Nat /\ Cardinality(RootsAt(d)') \in Nat
          /\ nodesOwned[d] \in Nat
      BY <1>1, RootsAreFinite DEF TreeTypes
    <3>4. NodeExact(d)'
      BY <1>2, <3>1, <3>3 DEF NodeExact
    <3>5. QED
      BY <3>2, <3>4
  <2>2. QED
    BY <2>1 DEF TreesExact
<1>7. QED
  BY <1>3, <1>4, <1>5, <1>6 DEF TreesKnown

\* Nothing is lost: a step of a load, of a call, or of the handle.
LEMMA TreesStay ==
  ASSUME KnownInv, UNCHANGED <<documents, doc, node, docsOwned, nodesOwned, numbered>>,
         StackKnown', refs' \in Int, holding' \in BOOLEAN,
         \A d \in Document : Emitting(d)' = Emitting(d)
  PROVE  TreesKnown' /\ (TreesExact => TreesExact')
<1>1. TreesKnown'
  BY DEF KnownInv, TreesKnown, TreeTypes, OnlyNumbered, SealedRoots
<1>2. ASSUME TreesExact PROVE TreesExact'
  <2>1. \A d \in Document : Places(d)' = Places(d) /\ RootsAt(d)' = RootsAt(d)
    BY DEF Places, Listed, RootsAt
  <2>2. QED
    BY <1>2, <2>1 DEF TreesExact, DocExact, NodeExact
<1>3. QED
  BY <1>1, <1>2

\* Steps that let the stack be.
LEMMA StackStays ==
  ASSUME KnownInv, calls' = calls, numbered' = numbered
  PROVE  /\ StackKnown' /\ Starts' = Starts
         /\ \A d : Emitting(d)' = Emitting(d)
BY DEF KnownInv, OnlyNumbered, StackKnown, Starts, Emitting, FrameKnown

\* The parse goes on after a signal, the end of which may be the end of a document.
LEMMA GoesToTrees ==
  ASSUME KnownInv, LoadInv', calls # <<>>, NEW at \in Signals, at # "document-end", GoesTo(at),
         Top.at \in {"parse-start", "document-end", "error"},
         at = "document-start" => numbered + Cardinality(Starts) < MaxDocuments,
         UNCHANGED <<refs, holding, documents, docsOwned, nodesOwned, numbered>>
  PROVE  TreesKnown' /\ (TreesExact => TreesExact')
<1>1. LoadInv /\ TreeTypes /\ OnlyNumbered /\ numbered \in Nat
  BY DEF KnownInv, LoadInv, Types
<1> DEFINE f == Frame(Top.load, at)
           D == EmissionOver
<1>2. f \in CallFrame /\ f.doc = Null /\ f.at = at /\ calls' = Front(calls) \o <<f>>
  BY <1>1, TopCall DEF Frame, CallFrame, GoesTo
<1>3. DropDocuments(D)
  BY DEF GoesTo
<1> HIDE DEF f
<1>4. /\ \A d : Cardinality(Emitting(d)') = Cardinality(Emitting(d)) + Same(f.doc, d) - Same(Top.doc, d)
      /\ Cardinality(Starts') = Cardinality(Starts) + Same(f.at, "document-start")
                                                   - Same(Top.at, "document-start")
      /\ \A i \in 1..Len(calls') : calls'[i] = f \/ (i \in 1..Len(calls) /\ calls'[i] = calls[i])
  BY <1>1, <1>2, StackGoesOn
<1>5. FrameKnown(Top)
  <2>1. Len(calls) \in 1..Len(calls) /\ Top = calls[Len(calls)]
    <3>1. Len(calls) \in Nat \ {0} /\ Top = calls[Len(calls)]
      BY <1>1, FrontAndLast DEF LoadInv, Types, Top
    <3>2. QED
      BY <3>1
  <2>2. QED
    BY <1>1, <2>1 DEF OnlyNumbered, StackKnown
<1>6. Cardinality(Starts) \in Nat /\ MaxDocuments \in Nat
  BY <1>1, CountsAreFinite, ParserAssumption
<1>7. StackKnown'
  <2>1. numbered' + Cardinality(Starts') <= MaxDocuments
    <3>1. numbered + Cardinality(Starts) <= MaxDocuments
      BY <1>1 DEF OnlyNumbered, StackKnown
    <3>2. Same(Top.at, "document-start") = 0 /\ Same(f.at, "document-start") \in {0, 1}
          /\ (Same(f.at, "document-start") = 1 => at = "document-start")
      BY <1>2 DEF Same
    <3>3. QED
      BY <1>1, <1>4, <1>6, <3>1, <3>2
  <2>2. \A i \in 1..Len(calls') : FrameKnown(calls'[i])
    BY <1>1, <1>2, <1>4 DEF OnlyNumbered, StackKnown, FrameKnown
  <2>3. QED
    BY <2>1, <2>2 DEF StackKnown, FrameKnown
<1>8. /\ D \in SUBSET Document /\ \A d \in D : d <= numbered
      /\ \A d \in Document : d \in D <=> Top.doc = d
  <2>1. \A d \in Document : d # Null
    BY ParserAssumption DEF Document
  <2>2. numbered <= MaxDocuments
    BY <1>1, <1>6 DEF OnlyNumbered, StackKnown
  <2>3. 1..numbered \subseteq Document
    BY <1>1, <1>6, <2>2 DEF Document
  <2>4. QED
    BY <1>1, <1>5, <2>1, <2>3 DEF EmissionOver, FrameKnown
<1>9. \A d \in Document : Places(d)' = Places(d) - (IF d \in D THEN 1 ELSE 0)
  <2> SUFFICES ASSUME NEW d \in Document
               PROVE  Places(d)' = Places(d) - (IF d \in D THEN 1 ELSE 0)
    OBVIOUS
  <2>1. d # Null
    BY ParserAssumption DEF Document
  <2>2. Cardinality(Emitting(d)') = Cardinality(Emitting(d)) - (IF d \in D THEN 1 ELSE 0)
    <3>1. Same(f.doc, d) = 0 /\ Same(Top.doc, d) = IF d \in D THEN 1 ELSE 0
      BY <1>2, <1>8, <2>1 DEF Same
    <3>2. Cardinality(Emitting(d)) \in Nat
      BY <1>1, CountsAreFinite
    <3>3. QED
      BY <1>4, <3>1, <3>2
  <2>3. /\ Listed(d)' = Listed(d) /\ docsOwned'[d] = docsOwned[d] /\ docsOwned[d] \in Nat
        /\ Listed(d) \in Nat /\ Cardinality(Emitting(d)) \in Nat
    BY <1>1, CountsAreFinite DEF Listed, TreeTypes
  <2>4. QED
    BY <2>2, <2>3 DEF Places
<1>10. /\ \A i \in 1..Len(documents') : documents'[i] <= numbered
       /\ \A d \in Document : d > numbered => docsOwned'[d] = 0
       /\ documents' \in Seq(Document) /\ NoneTwice(documents')
       /\ docsOwned' \in [Document -> Nat] /\ refs' \in Int /\ holding' \in BOOLEAN
  BY <1>1 DEF OnlyNumbered, TreeTypes
<1> HIDE DEF D
<1>11. QED
  BY <1>3, <1>7, <1>8, <1>9, <1>10, DropFollows

\* A document is made: the array and the signal refer to it, and it to its root.
LEMMA FinishTrees ==
  ASSUME KnownInv, NEW immutable \in BOOLEAN, FinishDocument(immutable)
  PROVE  TreesKnown' /\ (TreesExact => TreesExact')
<1> DEFINE d == numbered + 1
           f == [load |-> Top.load, at |-> "document-end", doc |-> d]
<1>1. /\ LoadInv /\ TreeTypes /\ OnlyNumbered /\ SealedRoots /\ numbered \in Nat
      /\ calls # <<>> /\ Top.at = "document-start"
  BY DEF KnownInv, LoadInv, Types, FinishDocument
<1>2. /\ doc'  = [doc EXCEPT ![d] = [refs |-> 2, root |-> d, sealed |-> immutable]]
      /\ node' = [node EXCEPT ![d] = [refs |-> 1, sealed |-> immutable]]
      /\ documents' = Append(documents, d) /\ numbered' = d
      /\ calls' = Front(calls) \o <<f>>
      /\ UNCHANGED <<refs, holding, docsOwned, nodesOwned>>
  BY DEF FinishDocument, handle, owned
<1>3. f \in CallFrame /\ f.doc = d /\ f.at = "document-end"
  <2>1. Top.load \in Load /\ d \in Nat
    BY <1>1, TopCall
  <2>2. QED
    BY <2>1 DEF CallFrame, Signals
<1> HIDE DEF f
<1>4. Len(calls) \in 1..Len(calls) /\ Top = calls[Len(calls)] /\ DOMAIN calls = 1..Len(calls)
  <2>1. Len(calls) \in Nat \ {0} /\ Top = calls[Len(calls)]
    BY <1>1, FrontAndLast DEF LoadInv, Types, Top
  <2>2. DOMAIN calls = 1..Len(calls)
    BY <1>1, LenProperties DEF LoadInv, Types
  <2>3. QED
    BY <2>1, <2>2
<1>5. /\ \A e : Cardinality(Emitting(e)') = Cardinality(Emitting(e)) + Same(f.doc, e) - Same(Top.doc, e)
      /\ Cardinality(Starts') = Cardinality(Starts) + Same(f.at, "document-start")
                                                   - Same(Top.at, "document-start")
      /\ \A i \in 1..Len(calls') : calls'[i] = f \/ (i \in 1..Len(calls) /\ calls'[i] = calls[i])
  BY <1>1, <1>2, <1>3, StackGoesOn
<1>6. /\ Cardinality(Starts) \in Nat \ {0} /\ MaxDocuments \in Nat
      /\ numbered + Cardinality(Starts) <= MaxDocuments
  <2>1. Len(calls) \in Starts /\ IsFiniteSet(Starts)
    BY <1>1, <1>4, CountsAreFinite DEF Starts
  <2>2. Cardinality(Starts) # 0
    BY <2>1, FS_EmptySet
  <2>3. QED
    BY <1>1, <2>2, CountsAreFinite, ParserAssumption DEF OnlyNumbered, StackKnown
<1>7. d \in Document /\ d # Null /\ Top.doc = Null /\ \A e \in Document : e # Null
  BY <1>1, <1>4, <1>6, ParserAssumption DEF Document, OnlyNumbered, StackKnown, FrameKnown
<1>8. StackKnown'
  <2>1. numbered' + Cardinality(Starts') <= MaxDocuments
    BY <1>1, <1>2, <1>3, <1>5, <1>6 DEF Same
  <2>2. \A i \in 1..Len(calls) : IF calls[i].at = "document-end" THEN calls[i].doc \in 1..d
                                                            ELSE calls[i].doc = Null
    BY <1>1 DEF OnlyNumbered, StackKnown, FrameKnown
  <2>3. f.doc \in 1..d
    BY <1>1, <1>3
  <2>4. \A i \in 1..Len(calls') : IF calls'[i].at = "document-end" THEN calls'[i].doc \in 1..d
                                                             ELSE calls'[i].doc = Null
    BY <1>3, <1>5, <2>2, <2>3
  <2>5. QED
    BY <1>2, <2>1, <2>4 DEF StackKnown, FrameKnown
<1>9. /\ documents' \in Seq(Document) /\ NoneTwice(documents')
      /\ \A x : (\E j \in 1..Len(documents') : documents'[j] = x)
               <=> x = d \/ \E j \in 1..Len(documents) : documents[j] = x
  <2>1. documents \in Seq(Document) /\ NoneTwice(documents)
    BY <1>1 DEF TreeTypes
  <2>2. \A i \in 1..Len(documents) : documents[i] # d
    <3>1. \A i \in 1..Len(documents) : documents[i] \in Document /\ documents[i] <= numbered
      BY <1>1, <2>1, ElementOfSeq DEF OnlyNumbered
    <3>2. QED
      BY <1>1, <3>1 DEF Document
  <2> HIDE DEF d
  <2>3. documents' \in Seq(Document)
    BY <1>2, <1>7, <2>1, AppendProperties
  <2>4. QED
    BY <1>2, <1>7, <2>1, <2>2, <2>3, AppendedOnce
<1>10. /\ doc[d].root = Null /\ docsOwned[d] = 0 /\ nodesOwned[d] = 0
       /\ \A e \in Document : doc[e].root # d
       /\ \A e \in Document : doc[e].root \in Document \cup {Null}
  <2>1. d > numbered /\ ~(d <= numbered)
    BY <1>1
  <2>2. QED
    BY <1>1, <1>7, <2>1 DEF OnlyNumbered, TreeTypes, DocRecord
<1>11. /\ \A e \in Document : doc'[e] = IF e = d THEN [refs |-> 2, root |-> d, sealed |-> immutable]
                                             ELSE doc[e]
       /\ \A e \in Document : node'[e] = IF e = d THEN [refs |-> 1, sealed |-> immutable] ELSE node[e]
       /\ DOMAIN doc' = Document /\ DOMAIN node' = Document
       /\ doc' = [e \in Document |-> doc'[e]] /\ node' = [e \in Document |-> node'[e]]
  BY <1>1, <1>2 DEF TreeTypes
<1>12. TreeTypes'
  <2>1. [refs |-> 2, root |-> d, sealed |-> immutable] \in DocRecord
    BY <1>7 DEF DocRecord
  <2>2. [refs |-> 1, sealed |-> immutable] \in RootRecord
    BY DEF RootRecord
  <2>3. doc' \in [Document -> DocRecord]
    BY <1>1, <1>11, <2>1 DEF TreeTypes
  <2>4. node' \in [Document -> RootRecord]
    BY <1>1, <1>11, <2>2 DEF TreeTypes
  <2>5. QED
    BY <1>1, <1>2, <1>9, <2>3, <2>4 DEF TreeTypes
<1>13. OnlyNumbered'
  <2>1. ASSUME NEW e \in Document
        PROVE  /\ doc'[e].root # Null => doc'[e].root <= d /\ e <= d
               /\ e > d => doc'[e].refs = 0 /\ docsOwned'[e] = 0 /\ nodesOwned'[e] = 0
    <3>1. CASE e = d
      <4>1. doc'[e].root = d
        BY <1>11, <3>1
      <4>2. QED
        BY <1>1, <3>1, <4>1
    <3>2. CASE e # d
      <4>1. doc'[e] = doc[e] /\ e \in Nat
        BY <1>11, <3>2 DEF Document
      <4>2. doc[e].root # Null => doc[e].root \in Nat
        BY <1>10 DEF Document
      <4>3. /\ doc[e].root # Null => doc[e].root <= numbered /\ e <= numbered
            /\ e > numbered => doc[e].refs = 0 /\ docsOwned[e] = 0 /\ nodesOwned[e] = 0
        BY <1>1 DEF OnlyNumbered
      <4>4. QED
        BY <1>1, <1>2, <4>1, <4>2, <4>3
    <3>3. QED
      BY <3>1, <3>2
  <2>2. \A i \in 1..Len(documents') : documents'[i] <= d
    <3>1. \A i \in 1..Len(documents) : documents[i] \in Document /\ documents[i] <= numbered
      BY <1>1, ElementOfSeq DEF OnlyNumbered, TreeTypes
    <3>2. ASSUME NEW i \in 1..Len(documents') PROVE documents'[i] <= d
      <4>1. documents'[i] = d \/ \E j \in 1..Len(documents) : documents[j] = documents'[i]
        BY <1>9
      <4>2. documents'[i] = d \/ (documents'[i] \in Nat /\ documents'[i] <= numbered)
        BY <3>1, <4>1 DEF Document
      <4>3. QED
        BY <1>1, <4>2
    <3>3. QED
      BY <3>2
  <2>3. QED
    BY <1>2, <1>8, <2>1, <2>2 DEF OnlyNumbered
<1>14. SealedRoots'
  <2>1. ASSUME NEW e \in Document, doc'[e].sealed, doc'[e].root # Null
        PROVE  node'[doc'[e].root].sealed
    <3>1. CASE e = d
      BY <1>7, <1>11, <2>1, <3>1
    <3>2. CASE e # d
      <4>1. /\ doc'[e] = doc[e] /\ doc[e].root \in Document /\ doc[e].root # d
            /\ doc[e].sealed /\ doc[e].root # Null
        BY <1>10, <1>11, <2>1, <3>2
      <4>2. node[doc[e].root].sealed
        BY <1>1, <4>1 DEF SealedRoots
      <4>3. QED
        BY <1>11, <4>1, <4>2
    <3>3. QED
      BY <3>1, <3>2
  <2>2. QED
    BY <2>1 DEF SealedRoots
<1>15. ASSUME TreesExact PROVE TreesExact'
  <2>1. ASSUME NEW e \in Document PROVE DocExact(e)' /\ NodeExact(e)'
    <3>1. CASE e = d
      <4> HIDE DEF d
      <4>1. Listed(e)' = 1
        <5>1. \E j \in 1..Len(documents') : documents'[j] = e
          BY <1>9, <3>1
        <5>2. QED
          BY <5>1 DEF Listed
      <4>2. Emitting(e) = {}
        <5>1. \A i \in 1..Len(calls) : calls[i].doc # e
          <6>1. \A i \in 1..Len(calls) : FrameKnown(calls[i])
            BY <1>1 DEF OnlyNumbered, StackKnown
          <6>2. \A i \in 1..numbered : i # e
            BY <1>1, <3>1 DEF d
          <6>3. QED
            BY <1>7, <3>1, <6>1, <6>2 DEF FrameKnown
        <5>2. QED
          BY <1>4, <5>1 DEF Emitting
      <4>3. Cardinality(Emitting(e)') = 1
        <5>1. Cardinality(Emitting(e)) = 0
          BY <4>2, FS_EmptySet
        <5>2. Same(f.doc, e) = 1 /\ Same(Top.doc, e) = 0
          BY <1>3, <1>7, <3>1 DEF Same
        <5>3. QED
          BY <1>5, <5>1, <5>2
      <4>4. docsOwned'[e] = 0 /\ nodesOwned'[e] = 0 /\ doc'[e].refs = 2 /\ node'[e].refs = 1
        BY <1>2, <1>10, <1>11, <3>1
      <4>5. RootsAt(e)' = {e}
        BY <1>10, <1>11, <3>1 DEF RootsAt
      <4>6. Cardinality(RootsAt(e)') = 1
        BY <4>5, FS_Singleton
      <4>7. QED
        BY <4>1, <4>3, <4>4, <4>6 DEF DocExact, NodeExact, Places
    <3>2. CASE e # d
      <4>1. Listed(e)' = Listed(e)
        BY <1>9, <3>2 DEF Listed
      <4>2. Cardinality(Emitting(e)') = Cardinality(Emitting(e))
        <5>1. Cardinality(Emitting(e)) \in Nat /\ e # Null
          BY <1>1, <1>7, CountsAreFinite
        <5>2. QED
          BY <1>3, <1>5, <1>7, <3>2, <5>1 DEF Same
      <4>3. RootsAt(e)' = RootsAt(e)
        BY <1>7, <1>10, <1>11, <3>2 DEF RootsAt
      <4>4. doc'[e] = doc[e] /\ node'[e] = node[e]
        BY <1>11, <3>2
      <4>5. QED
        BY <1>2, <1>15, <4>1, <4>2, <4>3, <4>4 DEF TreesExact, DocExact, NodeExact, Places
    <3>3. QED
      BY <3>1, <3>2
  <2>2. QED
    BY <2>1 DEF TreesExact
<1>16. QED
  BY <1>12, <1>13, <1>14, <1>15 DEF TreesKnown

\* A parse or a callback begins, or a parse returns: no document changes.
LEMMA BetweenTrees ==
  ASSUME KnownInv, LoadInv',
         \/ ParseReturns
         \/ \E l \in Load : LoadSync(l) \/ LoadAsync(l) \/ Cancel(l)
                             \/ ReadDone(l) \/ ReadFails(l) \/ CallBack(l)
  PROVE  TreesKnown' /\ (TreesExact => TreesExact')
<1>1. /\ LoadInv /\ TreeTypes /\ OnlyNumbered
      /\ UNCHANGED <<holding, documents, doc, node, docsOwned, nodesOwned, numbered>>
  BY DEF KnownInv, ParseReturns, LoadSync, LoadAsync, Cancel, ReadDone, ReadFails, CallBack,
         handle, trees, owned
<1>2. refs' \in Int /\ holding' \in BOOLEAN
  <2>1. \A l \in Load : Held(l) \in Int /\ refs \in Int
    BY <1>1 DEF Held, TreeTypes
  <2>2. UNCHANGED refs \/ \E l \in Load : refs' = refs + Held(l)
    BY DEF ParseReturns, LoadSync, LoadAsync, Cancel, ReadDone, ReadFails, CallBack, handle
  <2>3. QED
    BY <1>1, <2>1, <2>2 DEF TreeTypes
<1>3. /\ numbered + Cardinality(Starts) <= MaxDocuments
      /\ \A i \in 1..Len(calls) : FrameKnown(calls[i])
  BY <1>1 DEF OnlyNumbered, StackKnown
<1>4. StackKnown' /\ \A d \in Document : Emitting(d)' = Emitting(d)
  <2>1. CASE UNCHANGED calls
    BY <1>1, <2>1, StackStays
  <2>2. CASE ParseReturns
    <3>1. calls # <<>> /\ calls' = Front(calls) /\ Top.at = "parse-end"
      BY <2>2 DEF ParseReturns
    <3>2. Top.doc = Null
      <4>1. Len(calls) \in Nat \ {0} /\ Top = calls[Len(calls)]
        BY <1>1, <3>1, FrontAndLast DEF LoadInv, Types, Top
      <4>2. QED
        BY <1>3, <3>1, <4>1 DEF FrameKnown
    <3>3. /\ \A d \in Document : Emitting(d)' = Emitting(d)
          /\ Starts' = Starts
          /\ \A i \in 1..Len(calls') : i \in 1..Len(calls) /\ calls'[i] = calls[i]
      BY <1>1, <3>1, <3>2, StackPops
    <3>4. QED
      BY <1>1, <1>3, <3>3 DEF StackKnown, FrameKnown
  <2>3. ASSUME NEW l \in Load, NEW at \in {"parse-start", "callback"},
               calls' = Append(calls, Frame(l, at))
        PROVE  StackKnown' /\ \A d \in Document : Emitting(d)' = Emitting(d)
    <3> DEFINE f == Frame(l, at)
    <3>1. f \in CallFrame /\ f.doc = Null /\ f.at # "document-start" /\ f.at # "document-end"
      BY DEF Frame, CallFrame, Signals
    <3> HIDE DEF f
    <3>2. calls' = Append(calls, f)
      BY <2>3 DEF f
    <3>3. /\ \A d \in Document : Emitting(d)' = Emitting(d)
          /\ Starts' = Starts
          /\ \A i \in 1..Len(calls') : calls'[i] = f \/ (i \in 1..Len(calls) /\ calls'[i] = calls[i])
      BY <1>1, <3>1, <3>2, StackPushes
    <3>4. QED
      BY <1>1, <1>3, <3>1, <3>3 DEF StackKnown, FrameKnown
  <2>4. \/ UNCHANGED calls \/ ParseReturns
        \/ \E l \in Load, at \in {"parse-start", "callback"} : calls' = Append(calls, Frame(l, at))
    <3>1. \A f : calls = <<>> => <<f>> = Append(calls, f)
      OBVIOUS
    <3>2. QED
      BY <3>1 DEF ParseReturns, LoadSync, LoadAsync, Cancel, ReadDone, ReadFails, CallBack
  <2>5. QED
    BY <2>1, <2>2, <2>3, <2>4
<1>5. QED
  BY <1>1, <1>2, <1>4, TreesStay

\* The array is emptied.
LEMMA ArrayEmptied ==
  ASSUME KnownInv, LoadInv', StackKnown', refs' \in Int, holding' \in BOOLEAN,
         DropDocuments(Range(documents)), documents' = <<>>,
         UNCHANGED <<docsOwned, nodesOwned, numbered>>,
         \A d \in Document : Emitting(d)' = Emitting(d)
  PROVE  TreesKnown' /\ (TreesExact => TreesExact')
<1> DEFINE D == Range(documents)
<1>1. LoadInv /\ TreeTypes /\ OnlyNumbered
  BY DEF KnownInv
<1>2. documents \in Seq(Document) /\ DOMAIN documents = 1..Len(documents)
  BY <1>1, LenProperties DEF TreeTypes
<1>3. \A d : d \in D <=> \E i \in 1..Len(documents) : documents[i] = d
  BY <1>2 DEF Range
<1>4. D \in SUBSET Document /\ \A d \in D : d <= numbered
  BY <1>1, <1>2, <1>3, ElementOfSeq DEF OnlyNumbered
<1>5. Len(documents') = 0 /\ documents' \in Seq(Document)
  OBVIOUS
<1>6. NoneTwice(documents') /\ \A i \in 1..Len(documents') : documents'[i] <= numbered
  BY <1>5 DEF NoneTwice
<1>7. \A d \in Document : Places(d)' = Places(d) - (IF d \in D THEN 1 ELSE 0)
  <2> SUFFICES ASSUME NEW d \in Document
               PROVE  Places(d)' = Places(d) - (IF d \in D THEN 1 ELSE 0)
    OBVIOUS
  <2>1. Listed(d) = (IF d \in D THEN 1 ELSE 0)
    BY <1>3 DEF Listed
  <2>2. Listed(d)' = 0
    BY <1>5 DEF Listed
  <2>3. docsOwned[d] \in Nat /\ Cardinality(Emitting(d)) \in Nat
    BY <1>1, CountsAreFinite DEF TreeTypes
  <2> HIDE DEF D
  <2>4. QED
    BY <2>1, <2>2, <2>3 DEF Places
<1>8. docsOwned' \in [Document -> Nat] /\ \A d \in Document : d > numbered => docsOwned'[d] = 0
  BY <1>1 DEF TreeTypes, OnlyNumbered
<1>9. DropDocuments(D)
  OBVIOUS
<1> HIDE DEF D
<1>10. QED
  BY <1>4, <1>5, <1>6, <1>7, <1>8, <1>9, DropFollows

\* No document loses anything.
LEMMA NothingDropped ==
  ASSUME KnownInv, DropDocuments({})
  PROVE  doc' = doc /\ node' = node
<1>1. TreeTypes
  BY DEF KnownInv
<1>2. doc' = doc
  BY <1>1 DEF DropDocuments, DocsWithout, TreeTypes
<1>3. ASSUME NEW n \in Document
      PROVE  node'[n] = node[n]
  <2>1. {d \in {} : doc[d].refs = 1 /\ doc[d].root = n} = {}
    OBVIOUS
  <2>2. Cardinality({d \in {} : doc[d].refs = 1 /\ doc[d].root = n}) = 0
    BY <2>1, FS_EmptySet
  <2>3. node[n] \in RootRecord /\ node'[n] = [node[n] EXCEPT !.refs = @ - 0]
    BY <1>1, <2>2 DEF DropDocuments, NodesWithout, TreeTypes
  <2>4. QED
    BY <2>3 DEF RootRecord
<1>4. node' = [n \in Document |-> node'[n]]
  BY DEF DropDocuments, NodesWithout
<1>5. QED
  BY <1>1, <1>2, <1>3, <1>4 DEF TreeTypes

\* The parser loses references, perhaps the last.
LEMMA ParserDropped ==
  ASSUME KnownInv, LoadInv', NEW k \in Nat, DropParser(k), StackKnown', holding' \in BOOLEAN,
         UNCHANGED <<docsOwned, nodesOwned, numbered>>,
         \A d \in Document : Emitting(d)' = Emitting(d)
  PROVE  TreesKnown' /\ (TreesExact => TreesExact')
<1>1. refs \in Int
  BY DEF KnownInv, TreeTypes
<1>2. refs' \in Int
  BY <1>1 DEF DropParser
<1>3. CASE refs = k
  BY <1>2, <1>3, ArrayEmptied DEF DropParser
<1>4. CASE refs # k
  <2>1. documents' = documents /\ DropDocuments({})
    BY <1>4 DEF DropParser
  <2>2. QED
    BY <1>2, <2>1, NothingDropped, TreesStay
<1>5. QED
  BY <1>3, <1>4

\* A callback returns, the program drops the parser, or resets it.
LEMMA ParserTrees ==
  ASSUME KnownInv, LoadInv', CallbackReturns \/ UnrefParser \/ Reset
  PROVE  TreesKnown' /\ (TreesExact => TreesExact')
<1>1. LoadInv /\ TreeTypes /\ OnlyNumbered
  BY DEF KnownInv
<1>2. CASE CallbackReturns
  <2>1. /\ calls # <<>> /\ calls' = Front(calls) /\ Top.at = "callback"
        /\ DropParser(Held(Top.load)) /\ UNCHANGED <<holding, docsOwned, nodesOwned, numbered>>
    BY <1>2 DEF CallbackReturns, owned
  <2>2. Len(calls) \in Nat \ {0} /\ Top = calls[Len(calls)]
    BY <1>1, <2>1, FrontAndLast DEF LoadInv, Types, Top
  <2>3. /\ numbered + Cardinality(Starts) <= MaxDocuments
        /\ \A i \in 1..Len(calls) : FrameKnown(calls[i])
    BY <1>1 DEF OnlyNumbered, StackKnown
  <2>4. Top.doc = Null
    BY <2>1, <2>2, <2>3 DEF FrameKnown
  <2>5. /\ \A d \in Document : Emitting(d)' = Emitting(d)
        /\ Starts' = Starts
        /\ \A i \in 1..Len(calls') : i \in 1..Len(calls) /\ calls'[i] = calls[i]
    BY <1>1, <2>1, <2>4, StackPops
  <2>6. StackKnown'
    BY <2>1, <2>3, <2>5 DEF StackKnown, FrameKnown
  <2>7. Held(Top.load) \in Nat /\ holding' \in BOOLEAN
    BY <1>1, <2>1 DEF Held, TreeTypes
  <2>8. QED
    BY <2>1, <2>5, <2>6, <2>7, ParserDropped
<1>3. CASE UnrefParser
  <2>1. /\ DropParser(1) /\ UNCHANGED <<docsOwned, nodesOwned, numbered, calls>> /\ holding' = FALSE
    BY <1>3 DEF UnrefParser, owned, work
  <2>2. StackKnown' /\ \A d : Emitting(d)' = Emitting(d)
    BY <2>1, StackStays
  <2>3. QED
    BY <2>1, <2>2, ParserDropped
<1>4. CASE Reset
  <2>1. /\ DropDocuments(Range(documents)) /\ documents' = <<>>
        /\ UNCHANGED <<refs, holding, docsOwned, nodesOwned, numbered, calls>>
    BY <1>4 DEF Reset, handle, owned, work
  <2>2. StackKnown' /\ \A d : Emitting(d)' = Emitting(d)
    BY <2>1, StackStays
  <2>3. refs' \in Int /\ holding' \in BOOLEAN
    BY <1>1, <2>1 DEF TreeTypes
  <2>4. QED
    BY <2>1, <2>2, <2>3, ArrayEmptied
<1>5. QED
  BY <1>2, <1>3, <1>4

\* A document is taken from the array, and nobody gets a reference for it.
LEMMA StealTrees ==
  ASSUME KnownInv, LoadInv', NEW i \in DOMAIN documents, StealDocument(i)
  PROVE  TreesKnown' /\ (~TrustsSteal /\ TreesExact => TreesExact')
<1> DEFINE d == documents[i]
           old == documents
           own == [docsOwned EXCEPT ![d] = IF TrustsSteal THEN @ + 1 ELSE @]
<1>1. LoadInv /\ TreeTypes /\ OnlyNumbered
  BY DEF KnownInv
<1>2. /\ old \in Seq(Document) /\ DOMAIN old = 1..Len(old) /\ NoneTwice(old) /\ i \in 1..Len(old)
  BY <1>1, LenProperties DEF TreeTypes
<1>3. /\ documents' = RemoveAt(old, i) /\ DropDocuments({d}) /\ docsOwned' = own
      /\ UNCHANGED <<refs, holding, nodesOwned, numbered, calls>>
  BY DEF StealDocument, handle, work
<1>4. d \in Document /\ \A j \in 1..Len(old) : old[j] <= numbered /\ old[j] \in Document
  BY <1>1, <1>2, ElementOfSeq DEF OnlyNumbered
<1>5. own \in [Document -> Nat] /\ \A e \in Document : e > numbered => own[e] = 0
  <2>1. docsOwned \in [Document -> Nat] /\ \A e \in Document : e > numbered => docsOwned[e] = 0
    BY <1>1 DEF TreeTypes, OnlyNumbered
  <2>2. d \in Nat /\ numbered \in Nat /\ ~(d > numbered)
    BY <1>1, <1>2, <1>4 DEF Document, LoadInv, Types
  <2> HIDE DEF d
  <2>3. ASSUME NEW e \in Document
        PROVE  own[e] \in Nat /\ (e > numbered => own[e] = 0)
    <3>1. own[e] = IF e = d THEN (IF TrustsSteal THEN docsOwned[e] + 1 ELSE docsOwned[e])
                            ELSE docsOwned[e]
      BY <2>1
    <3>2. docsOwned[e] \in Nat
      BY <2>1
    <3> HIDE DEF own
    <3>3. QED
      BY <2>1, <2>2, <3>1, <3>2
  <2>4. own = [e \in Document |-> own[e]]
    BY <2>1
  <2>5. QED
    BY <2>3, <2>4
<1> HIDE DEF old
<1>6. /\ NoneTwice(RemoveAt(old, i))
      /\ \A x : (\E j \in 1..Len(RemoveAt(old, i)) : RemoveAt(old, i)[j] = x)
                <=> x # old[i] /\ \E j \in 1..Len(old) : old[j] = x
  BY <1>2, RemovedOnce
<1>7. /\ Len(RemoveAt(old, i)) = Len(old) - 1
      /\ \A j \in 1..(Len(old) - 1) : RemoveAt(old, i)[j] = IF j < i THEN old[j] ELSE old[j + 1]
      /\ RemoveAt(old, i) \in Seq(Document)
  BY <1>2, RemoveAtElements
<1>8. /\ documents' \in Seq(Document) /\ NoneTwice(documents')
      /\ \A j \in 1..Len(documents') : documents'[j] <= numbered
      /\ \A x : (\E j \in 1..Len(documents') : documents'[j] = x)
                <=> x # d /\ \E j \in 1..Len(documents) : documents[j] = x
  <2>1. \A x : (\E j \in 1..Len(documents') : documents'[j] = x)
                <=> x # d /\ \E j \in 1..Len(documents) : documents[j] = x
    BY <1>3, <1>6 DEF old
  <2>2. ASSUME NEW j \in 1..Len(documents') PROVE documents'[j] <= numbered
    <3>1. \E k \in 1..Len(documents) : documents[k] = documents'[j]
      BY <2>1
    <3>2. QED
      BY <1>4, <3>1 DEF old
  <2>3. QED
    BY <1>3, <1>6, <1>7, <2>1, <2>2
<1>9. StackKnown' /\ \A e : Emitting(e)' = Emitting(e)
  BY <1>3, StackStays
<1>10. {d} \in SUBSET Document /\ \A e \in {d} : e <= numbered
  BY <1>2, <1>4 DEF old
<1>11. refs' \in Int /\ holding' \in BOOLEAN
  BY <1>1, <1>3 DEF TreeTypes
<1>12. /\ TreesKnown'
       /\ /\ TreesExact
          /\ \A e \in Document : Places(e)' = Places(e) - (IF e \in {d} THEN 1 ELSE 0)
          => TreesExact'
  <2> HIDE DEF d, own
  <2>1. QED
    BY <1>3, <1>5, <1>8, <1>9, <1>10, <1>11, DropFollows
<1>13. ASSUME ~TrustsSteal, NEW e \in Document
       PROVE  Places(e)' = Places(e) - (IF e \in {d} THEN 1 ELSE 0)
  <2>1. docsOwned'[e] = docsOwned[e] /\ docsOwned[e] \in Nat
    BY <1>1, <1>3, <1>13 DEF TreeTypes
  <2>2. Cardinality(Emitting(e)') = Cardinality(Emitting(e)) /\ Cardinality(Emitting(e)) \in Nat
    BY <1>1, <1>9, CountsAreFinite
  <2>3. Listed(e)' = Listed(e) - (IF e \in {d} THEN 1 ELSE 0)
    <3>1. CASE e = d
      <4>1. /\ \E j \in 1..Len(documents) : documents[j] = e
            /\ ~ \E j \in 1..Len(documents') : documents'[j] = e
        BY <1>2, <1>8, <3>1 DEF old
      <4>2. Listed(e) = 1 /\ Listed(e)' = 0
        BY <4>1 DEF Listed
      <4>3. QED
        BY <3>1, <4>2
    <3>2. CASE e # d
      <4>1. Listed(e)' = Listed(e) /\ Listed(e) \in Nat
        BY <1>8, <3>2 DEF Listed
      <4>2. QED
        BY <3>2, <4>1
    <3>3. QED
      BY <3>1, <3>2
  <2>4. Listed(e) \in Nat
    BY DEF Listed
  <2> HIDE DEF d
  <2>5. QED
    BY <2>1, <2>2, <2>3, <2>4 DEF Places
<1>14. QED
  BY <1>12, <1>13

\* The program drops a document.
LEMMA UnrefTrees ==
  ASSUME KnownInv, LoadInv', NEW d \in Document, UnrefDocument(d)
  PROVE  TreesKnown' /\ (TreesExact => TreesExact')
<1>1. LoadInv /\ TreeTypes /\ OnlyNumbered /\ numbered \in Nat
  BY DEF KnownInv, LoadInv, Types
<1>2. /\ docsOwned[d] > 0 /\ docsOwned' = [docsOwned EXCEPT ![d] = @ - 1] /\ DropDocuments({d})
      /\ UNCHANGED <<refs, holding, documents, nodesOwned, numbered, calls>>
  BY DEF UnrefDocument, handle, work
<1>3. \A e \in Document : /\ docsOwned[e] \in Nat
                          /\ docsOwned'[e] = docsOwned[e] - (IF e \in {d} THEN 1 ELSE 0)
                          /\ e > numbered => docsOwned[e] = 0
  BY <1>1, <1>2 DEF TreeTypes, OnlyNumbered
<1>4. d <= numbered
  BY <1>1, <1>2, <1>3 DEF Document
<1>5. docsOwned' \in [Document -> Nat] /\ \A e \in Document : e > numbered => docsOwned'[e] = 0
  <2>1. \A e \in Document : docsOwned'[e] \in Nat /\ (e > numbered => docsOwned'[e] = 0)
    BY <1>1, <1>2, <1>3, <1>4
  <2>2. docsOwned' = [e \in Document |-> docsOwned'[e]]
    BY <1>1, <1>2 DEF TreeTypes
  <2>3. QED
    BY <2>1, <2>2
<1>6. StackKnown' /\ \A e : Emitting(e)' = Emitting(e)
  BY <1>2, StackStays
<1>7. \A e \in Document : Places(e)' = Places(e) - (IF e \in {d} THEN 1 ELSE 0)
  <2> SUFFICES ASSUME NEW e \in Document
               PROVE  Places(e)' = Places(e) - (IF e \in {d} THEN 1 ELSE 0)
    OBVIOUS
  <2>1. /\ Cardinality(Emitting(e)') = Cardinality(Emitting(e)) /\ Cardinality(Emitting(e)) \in Nat
        /\ Listed(e) \in Nat
    BY <1>1, <1>6, CountsAreFinite
  <2>2. Listed(e)' = Listed(e)
    BY <1>2 DEF Listed
  <2>3. QED
    BY <1>3, <2>1, <2>2 DEF Places
<1>8. /\ refs' \in Int /\ holding' \in BOOLEAN /\ {d} \in SUBSET Document
      /\ documents' \in Seq(Document) /\ NoneTwice(documents')
      /\ \A i \in 1..Len(documents') : documents'[i] <= numbered
  BY <1>1, <1>2 DEF TreeTypes, OnlyNumbered
<1>9. QED
  BY <1>2, <1>4, <1>5, <1>6, <1>7, <1>8, DropFollows

\* The program can name only what there is.
LEMMA NamedExist ==
  ASSUME KnownInv
  PROVE  /\ \A d \in Reachable : d \in Document /\ d <= numbered
         /\ \A n \in Nodes : n # Null => n \in Document /\ n <= numbered
<1>1. /\ LoadInv /\ TreeTypes /\ numbered \in Nat
      /\ \A d \in Document : /\ doc[d].root # Null => doc[d].root <= numbered
                             /\ d > numbered => docsOwned[d] = 0 /\ nodesOwned[d] = 0
                             /\ docsOwned[d] \in Nat /\ nodesOwned[d] \in Nat
                             /\ doc[d].root \in Document \cup {Null}
      /\ \A i \in 1..Len(calls) : FrameKnown(calls[i])
      /\ \A i \in 1..Len(documents) : documents[i] <= numbered
  BY DEF KnownInv, LoadInv, Types, OnlyNumbered, StackKnown, TreeTypes, DocRecord
<1>2. \A d \in Reachable : d \in Document /\ d <= numbered
  <2> SUFFICES ASSUME NEW d \in Reachable PROVE d <= numbered
    BY DEF Reachable
  <2>1. d \in Document /\ d \in Nat
    BY DEF Reachable, Document
  <2>2. CASE docsOwned[d] > 0
    BY <1>1, <2>1, <2>2
  <2>3. CASE d \in Range(documents)
    <3>1. DOMAIN documents = 1..Len(documents)
      BY <1>1, LenProperties DEF TreeTypes
    <3>2. PICK i \in 1..Len(documents) : documents[i] = d
      BY <2>3, <3>1 DEF Range
    <3>3. QED
      BY <1>1, <3>2
  <2>4. CASE calls # <<>> /\ Top.at = "document-end" /\ d = Top.doc
    <3>1. Len(calls) \in 1..Len(calls) /\ Top = calls[Len(calls)]
      <4>1. Len(calls) \in Nat \ {0} /\ Top = calls[Len(calls)]
        BY <1>1, <2>4, FrontAndLast DEF LoadInv, Types, Top
      <4>2. QED
        BY <4>1
    <3>2. d \in 1..numbered
      BY <1>1, <2>4, <3>1 DEF FrameKnown
    <3>3. QED
      BY <1>1, <3>2
  <2>5. QED
    BY <2>2, <2>3, <2>4 DEF Reachable
<1>3. ASSUME NEW n \in Nodes, n # Null
      PROVE  n \in Document /\ n <= numbered
  <2>1. CASE n \in Document /\ nodesOwned[n] > 0
    <3>1. n \in Nat
      BY <2>1 DEF Document
    <3>2. QED
      BY <1>1, <2>1, <3>1
  <2>2. CASE n \in {doc[d].root : d \in Reachable}
    BY <1>1, <1>2, <1>3, <2>2
  <2>3. QED
    BY <1>3, <2>1, <2>2 DEF Nodes
<1>4. QED
  BY <1>2, <1>3

\* A document or a root changes by itself: neither the array nor a signal does.
LEMMA TreesChange ==
  ASSUME KnownInv, UNCHANGED <<refs, holding, documents, numbered, calls>>,
         doc' = [d \in Document |-> doc'[d]], node' = [d \in Document |-> node'[d]],
         docsOwned' = [d \in Document |-> docsOwned'[d]],
         nodesOwned' = [d \in Document |-> nodesOwned'[d]],
         \A d \in Document :
           /\ doc'[d] \in DocRecord /\ node'[d] \in RootRecord
           /\ docsOwned'[d] \in Nat /\ nodesOwned'[d] \in Nat
           /\ doc'[d].root # Null => doc'[d].root <= numbered /\ d <= numbered
           /\ d > numbered => doc'[d].refs = 0 /\ docsOwned'[d] = 0 /\ nodesOwned'[d] = 0
           /\ doc'[d].sealed /\ doc'[d].root # Null => node'[doc'[d].root].sealed
           /\ doc'[d].refs = doc[d].refs + docsOwned'[d] - docsOwned[d]
           /\ node'[d].refs = node[d].refs + nodesOwned'[d] - nodesOwned[d]
                               + Cardinality(RootsAt(d)') - Cardinality(RootsAt(d))
  PROVE  TreesKnown' /\ (TreesExact => TreesExact')
<1>1. LoadInv /\ TreeTypes /\ OnlyNumbered
  BY DEF KnownInv
<1>2. TreeTypes'
  <2>1. /\ doc' \in [Document -> DocRecord] /\ node' \in [Document -> RootRecord]
        /\ docsOwned' \in [Document -> Nat] /\ nodesOwned' \in [Document -> Nat]
    OBVIOUS
  <2>2. QED
    BY <1>1, <2>1 DEF TreeTypes
<1>3. StackKnown' /\ \A d : Emitting(d)' = Emitting(d)
  BY StackStays
<1>4. OnlyNumbered' /\ SealedRoots'
  BY <1>1, <1>3 DEF OnlyNumbered, SealedRoots
<1>5. ASSUME TreesExact, NEW d \in Document
      PROVE  DocExact(d)' /\ NodeExact(d)'
  <2>1. DocExact(d) /\ NodeExact(d)
    BY <1>5 DEF TreesExact
  <2>2. /\ docsOwned[d] \in Nat /\ nodesOwned[d] \in Nat
        /\ docsOwned'[d] \in Nat /\ nodesOwned'[d] \in Nat
        /\ Cardinality(RootsAt(d)) \in Nat /\ Cardinality(RootsAt(d)') \in Nat
    BY <1>1, RootsAreFinite DEF TreeTypes
  <2>3. /\ Cardinality(Emitting(d)') = Cardinality(Emitting(d)) /\ Cardinality(Emitting(d)) \in Nat
        /\ Listed(d) \in Nat
    BY <1>1, <1>3, CountsAreFinite
  <2>4. Listed(d)' = Listed(d)
    BY DEF Listed
  <2>5. DocExact(d)'
    BY <2>1, <2>2, <2>3, <2>4 DEF DocExact, Places
  <2>6. NodeExact(d)'
    BY <2>1, <2>2 DEF NodeExact
  <2>7. QED
    BY <2>5, <2>6
<1>6. QED
  BY <1>2, <1>4, <1>5 DEF TreesKnown, TreesExact

\* One document gets another root.
LEMMA RootMoves ==
  ASSUME NEW d \in Document, NEW new, \A e \in Document : doc'[e].root = IF e = d THEN new ELSE doc[e].root
  PROVE  \A n : Cardinality(RootsAt(n)')
                 = Cardinality(RootsAt(n)) + Same(new, n) - Same(doc[d].root, n)
<1> SUFFICES ASSUME NEW n
             PROVE  Cardinality(RootsAt(n)')
                     = Cardinality(RootsAt(n)) + Same(new, n) - Same(doc[d].root, n)
  OBVIOUS
<1> DEFINE A == RootsAt(n)
           B == {e \in Document : doc'[e].root = n}
<1>1. IsFiniteSet(A)
  <2>1. IsFiniteSet(Document) /\ A \in SUBSET Document
    BY ParserAssumption, FS_Interval DEF Document, RootsAt
  <2>2. QED
    BY <2>1, FS_Subset
<1>2. A \ {d} = B \ {d} /\ (d \in A <=> doc[d].root = n) /\ (d \in B <=> new = n)
  BY DEF RootsAt
<1>3. B = RootsAt(n)'
  BY DEF RootsAt
<1> HIDE DEF A, B
<1>4. /\ Cardinality(A) \in Nat
      /\ Cardinality(B) = Cardinality(A) + (IF d \in B THEN 1 ELSE 0) - (IF d \in A THEN 1 ELSE 0)
  BY <1>1, <1>2, OneDiffers
<1>5. Cardinality(B) = Cardinality(A) + Same(new, n) - Same(doc[d].root, n)
  BY <1>2, <1>4 DEF Same
<1>6. QED
  BY <1>3, <1>5 DEF A

\* What is known of a document and a root.
LEMMA TreeFacts ==
  ASSUME KnownInv, NEW e \in Document
  PROVE  /\ doc[e] \in DocRecord /\ doc[e].refs \in Int /\ doc[e].sealed \in BOOLEAN
         /\ doc[e].root \in Document \cup {Null} /\ e # Null
         /\ node[e] \in RootRecord /\ node[e].refs \in Int /\ node[e].sealed \in BOOLEAN
         /\ docsOwned[e] \in Nat /\ nodesOwned[e] \in Nat /\ e \in Nat /\ numbered \in Nat
         /\ doc[e].root # Null => doc[e].root <= numbered /\ e <= numbered
         /\ e > numbered => doc[e].refs = 0 /\ docsOwned[e] = 0 /\ nodesOwned[e] = 0
         /\ doc[e].sealed /\ doc[e].root # Null => node[doc[e].root].sealed
<1>1. doc[e] \in DocRecord /\ node[e] \in RootRecord /\ docsOwned[e] \in Nat /\ nodesOwned[e] \in Nat
  BY DEF KnownInv, TreeTypes
<1>2. e # Null /\ e \in Nat /\ numbered \in Nat
  BY ParserAssumption DEF Document, KnownInv, LoadInv, Types
<1>3. QED
  BY <1>1, <1>2 DEF DocRecord, RootRecord, KnownInv, OnlyNumbered, SealedRoots

\* The functions of the trees, item by item.
LEMMA TreeFunctions ==
  ASSUME KnownInv
  PROVE  /\ doc = [e \in Document |-> doc[e]] /\ node = [e \in Document |-> node[e]]
         /\ docsOwned = [e \in Document |-> docsOwned[e]]
         /\ nodesOwned = [e \in Document |-> nodesOwned[e]]
BY DEF KnownInv, TreeTypes

\* A document is referenced once more.
LEMMA DupTrees ==
  ASSUME KnownInv, NEW d \in Document, DupDocument(d)
  PROVE  TreesKnown' /\ (TreesExact => TreesExact')
<1>1. /\ doc' = [doc EXCEPT ![d].refs = @ + 1]
      /\ docsOwned' = [docsOwned EXCEPT ![d] = @ + 1]
      /\ UNCHANGED <<refs, holding, documents, node, nodesOwned, numbered, calls>>
      /\ d <= numbered
  BY NamedExist DEF DupDocument, handle, work
<1>2. /\ doc' = [e \in Document |-> doc'[e]] /\ node' = [e \in Document |-> node'[e]]
      /\ docsOwned' = [e \in Document |-> docsOwned'[e]]
      /\ nodesOwned' = [e \in Document |-> nodesOwned'[e]]
  BY <1>1, TreeFunctions
<1>3. ASSUME NEW e \in Document
      PROVE  /\ doc'[e].root = doc[e].root /\ doc'[e].sealed = doc[e].sealed
             /\ doc'[e] \in DocRecord
             /\ doc'[e].refs = doc[e].refs + (IF e = d THEN 1 ELSE 0)
             /\ docsOwned'[e] = docsOwned[e] + (IF e = d THEN 1 ELSE 0)
             /\ nodesOwned'[e] = nodesOwned[e] /\ node'[e] = node[e]
  <2>1. /\ doc[e] \in DocRecord /\ doc[e].refs \in Int /\ docsOwned[e] \in Nat
    BY TreeFacts
  <2>2. doc'[e] = IF e = d THEN [doc[e] EXCEPT !.refs = @ + 1] ELSE doc[e]
    BY <1>1, TreeFunctions
  <2>3. doc'[e] = [refs |-> IF e = d THEN doc[e].refs + 1 ELSE doc[e].refs,
                   root |-> doc[e].root, sealed |-> doc[e].sealed]
    BY <2>1, <2>2 DEF DocRecord
  <2>4. (IF e = d THEN doc[e].refs + 1 ELSE doc[e].refs) \in Int
    BY <2>1
  <2>5. doc'[e] \in DocRecord
    BY <2>1, <2>3, <2>4 DEF DocRecord
  <2>6. docsOwned'[e] = docsOwned[e] + (IF e = d THEN 1 ELSE 0)
    BY <1>1, <2>1, TreeFunctions
  <2>7. QED
    BY <1>1, <2>1, <2>3, <2>5, <2>6
<1>4. \A n : RootsAt(n)' = RootsAt(n)
  BY <1>3 DEF RootsAt
<1>5. ASSUME NEW e \in Document
      PROVE  /\ doc'[e] \in DocRecord /\ node'[e] \in RootRecord
             /\ docsOwned'[e] \in Nat /\ nodesOwned'[e] \in Nat
             /\ doc'[e].root # Null => doc'[e].root <= numbered /\ e <= numbered
             /\ e > numbered => doc'[e].refs = 0 /\ docsOwned'[e] = 0 /\ nodesOwned'[e] = 0
             /\ doc'[e].sealed /\ doc'[e].root # Null => node'[doc'[e].root].sealed
             /\ doc'[e].refs = doc[e].refs + docsOwned'[e] - docsOwned[e]
             /\ node'[e].refs = node[e].refs + nodesOwned'[e] - nodesOwned[e]
                                 + Cardinality(RootsAt(e)') - Cardinality(RootsAt(e))
  <2>1. Cardinality(RootsAt(e)') = Cardinality(RootsAt(e)) /\ Cardinality(RootsAt(e)) \in Nat
    BY <1>4, RootsAreFinite
  <2>2. QED
    BY <1>1, <1>3, <2>1, TreeFacts
<1>6. QED
  BY <1>1, <1>2, <1>5, TreesChange

\* The program drops a root.
LEMMA UnrefNodeTrees ==
  ASSUME KnownInv, NEW n \in Document, UnrefNode(n)
  PROVE  TreesKnown' /\ (TreesExact => TreesExact')
<1>1. /\ node' = [node EXCEPT ![n].refs = @ - 1]
      /\ nodesOwned' = [nodesOwned EXCEPT ![n] = @ - 1] /\ nodesOwned[n] > 0
      /\ UNCHANGED <<refs, holding, documents, doc, docsOwned, numbered, calls>>
  BY DEF UnrefNode, handle, work
<1>2. /\ doc' = [e \in Document |-> doc'[e]] /\ node' = [e \in Document |-> node'[e]]
      /\ docsOwned' = [e \in Document |-> docsOwned'[e]]
      /\ nodesOwned' = [e \in Document |-> nodesOwned'[e]]
  BY <1>1, TreeFunctions
<1>3. ASSUME NEW e \in Document
      PROVE  /\ node'[e] \in RootRecord /\ node'[e].sealed = node[e].sealed
             /\ node'[e].refs = node[e].refs - (IF e = n THEN 1 ELSE 0)
             /\ nodesOwned'[e] = nodesOwned[e] - (IF e = n THEN 1 ELSE 0)
             /\ nodesOwned'[e] \in Nat
  <2>1. /\ node[e] \in RootRecord /\ node[e].refs \in Int /\ nodesOwned[e] \in Nat
    BY TreeFacts
  <2>2. node'[e] = IF e = n THEN [node[e] EXCEPT !.refs = @ - 1] ELSE node[e]
    BY <1>1, TreeFunctions
  <2>3. node'[e] = [refs |-> IF e = n THEN node[e].refs - 1 ELSE node[e].refs,
                    sealed |-> node[e].sealed]
    BY <2>1, <2>2 DEF RootRecord
  <2>4. (IF e = n THEN node[e].refs - 1 ELSE node[e].refs) \in Int
    BY <2>1
  <2>5. node'[e] \in RootRecord
    BY <2>1, <2>3, <2>4 DEF RootRecord
  <2>6. nodesOwned'[e] = nodesOwned[e] - (IF e = n THEN 1 ELSE 0) /\ nodesOwned'[e] \in Nat
    BY <1>1, <2>1, TreeFunctions
  <2>7. QED
    BY <2>1, <2>3, <2>5, <2>6
<1>4. \A m : RootsAt(m)' = RootsAt(m)
  BY <1>1 DEF RootsAt
<1>5. ASSUME NEW e \in Document
      PROVE  /\ doc'[e] \in DocRecord /\ node'[e] \in RootRecord
             /\ docsOwned'[e] \in Nat /\ nodesOwned'[e] \in Nat
             /\ doc'[e].root # Null => doc'[e].root <= numbered /\ e <= numbered
             /\ e > numbered => doc'[e].refs = 0 /\ docsOwned'[e] = 0 /\ nodesOwned'[e] = 0
             /\ doc'[e].sealed /\ doc'[e].root # Null => node'[doc'[e].root].sealed
             /\ doc'[e].refs = doc[e].refs + docsOwned'[e] - docsOwned[e]
             /\ node'[e].refs = node[e].refs + nodesOwned'[e] - nodesOwned[e]
                                 + Cardinality(RootsAt(e)') - Cardinality(RootsAt(e))
  <2>1. Cardinality(RootsAt(e)') = Cardinality(RootsAt(e)) /\ Cardinality(RootsAt(e)) \in Nat
    BY <1>4, RootsAreFinite
  <2>2. e = n => nodesOwned[e] > 0
    BY <1>1
  <2>3. doc'[e].sealed /\ doc'[e].root # Null => node'[doc'[e].root].sealed
    BY <1>1, <1>3, TreeFacts
  <2>4. QED
    BY <1>1, <1>3, <2>1, <2>2, <2>3, TreeFacts
<1>6. QED
  BY <1>1, <1>2, <1>5, TreesChange

\* A document gets another root, or none.
LEMMA SetRootTrees ==
  ASSUME KnownInv, NEW d \in Document, NEW n \in Nodes, SetRoot(d, n)
  PROVE  TreesKnown' /\ (TreesExact => TreesExact')
<1> DEFINE old == doc[d].root
<1>1. /\ doc' = [doc EXCEPT ![d].root = n]
      /\ node' = [m \in Document |->
                   [node[m] EXCEPT !.refs = @ + (IF m = n THEN 1 ELSE 0)
                                               - (IF m = old THEN 1 ELSE 0)]]
      /\ UNCHANGED <<refs, holding, documents, docsOwned, nodesOwned, numbered, calls>>
      /\ d <= numbered /\ ~doc[d].sealed
      /\ n # Null => n \in Document /\ n <= numbered
  BY NamedExist DEF SetRoot, handle, work, owned
<1>2. /\ doc' = [e \in Document |-> doc'[e]] /\ node' = [e \in Document |-> node'[e]]
      /\ docsOwned' = [e \in Document |-> docsOwned'[e]]
      /\ nodesOwned' = [e \in Document |-> nodesOwned'[e]]
  BY <1>1, TreeFunctions
<1> HIDE DEF old
<1>3. ASSUME NEW e \in Document
      PROVE  /\ doc'[e] \in DocRecord /\ doc'[e].refs = doc[e].refs
             /\ doc'[e].sealed = doc[e].sealed
             /\ doc'[e].root = IF e = d THEN n ELSE doc[e].root
  <2>1. doc[e] \in DocRecord /\ n \in Document \cup {Null}
    BY <1>1, TreeFacts
  <2>2. doc'[e] = IF e = d THEN [doc[e] EXCEPT !.root = n] ELSE doc[e]
    BY <1>1, TreeFunctions
  <2>3. doc'[e] = [refs |-> doc[e].refs, root |-> IF e = d THEN n ELSE doc[e].root,
                   sealed |-> doc[e].sealed]
    BY <2>1, <2>2 DEF DocRecord
  <2>4. (IF e = d THEN n ELSE doc[e].root) \in Document \cup {Null}
    BY <2>1 DEF DocRecord
  <2>5. doc'[e] \in DocRecord
    BY <2>1, <2>3, <2>4 DEF DocRecord
  <2>6. QED
    BY <2>1, <2>3, <2>5 DEF DocRecord
<1>4. ASSUME NEW e \in Document
      PROVE  /\ node'[e] \in RootRecord /\ node'[e].sealed = node[e].sealed
             /\ node'[e].refs = node[e].refs + Same(n, e) - Same(old, e)
  <2>1. node[e] \in RootRecord /\ node[e].refs \in Int
    BY TreeFacts
  <2>2. node'[e] = [node[e] EXCEPT !.refs = node[e].refs + (IF e = n THEN 1 ELSE 0)
                                                         - (IF e = old THEN 1 ELSE 0)]
    BY <1>1
  <2>3. /\ node[e].refs + (IF e = n THEN 1 ELSE 0) - (IF e = old THEN 1 ELSE 0)
             = node[e].refs + Same(n, e) - Same(old, e)
        /\ node[e].refs + Same(n, e) - Same(old, e) \in Int
    BY <2>1 DEF Same
  <2>4. node'[e] = [refs |-> node[e].refs + Same(n, e) - Same(old, e), sealed |-> node[e].sealed]
    BY <2>1, <2>2, <2>3 DEF RootRecord
  <2>5. node'[e] \in RootRecord
    BY <2>1, <2>3, <2>4 DEF RootRecord
  <2>6. QED
    BY <2>4, <2>5
<1>5. \A e : Cardinality(RootsAt(e)') = Cardinality(RootsAt(e)) + Same(n, e) - Same(old, e)
  BY <1>3, RootMoves DEF old
<1>6. ASSUME NEW e \in Document
      PROVE  /\ doc'[e] \in DocRecord /\ node'[e] \in RootRecord
             /\ docsOwned'[e] \in Nat /\ nodesOwned'[e] \in Nat
             /\ doc'[e].root # Null => doc'[e].root <= numbered /\ e <= numbered
             /\ e > numbered => doc'[e].refs = 0 /\ docsOwned'[e] = 0 /\ nodesOwned'[e] = 0
             /\ doc'[e].sealed /\ doc'[e].root # Null => node'[doc'[e].root].sealed
             /\ doc'[e].refs = doc[e].refs + docsOwned'[e] - docsOwned[e]
             /\ node'[e].refs = node[e].refs + nodesOwned'[e] - nodesOwned[e]
                                 + Cardinality(RootsAt(e)') - Cardinality(RootsAt(e))
  <2>1. /\ doc[e].refs \in Int /\ docsOwned[e] \in Nat /\ nodesOwned[e] \in Nat
        /\ node[e].refs \in Int /\ numbered \in Nat /\ e \in Nat
        /\ Cardinality(RootsAt(e)) \in Nat /\ Same(n, e) \in Int /\ Same(old, e) \in Int
    BY TreeFacts, RootsAreFinite DEF Same
  <2>2. doc'[e].sealed /\ doc'[e].root # Null => node'[doc'[e].root].sealed
    <3>1. SUFFICES ASSUME doc'[e].sealed, doc'[e].root # Null
                   PROVE  node'[doc'[e].root].sealed
      OBVIOUS
    <3>2. e # d /\ doc'[e].root = doc[e].root /\ doc[e].sealed
      BY <1>1, <1>3, <3>1
    <3>3. doc[e].root \in Document /\ node[doc[e].root].sealed
      BY <3>1, <3>2, TreeFacts
    <3>4. QED
      BY <1>4, <3>2, <3>3
  <2>3. /\ doc'[e].root # Null => doc'[e].root <= numbered /\ e <= numbered
        /\ e > numbered => doc'[e].refs = 0 /\ docsOwned'[e] = 0 /\ nodesOwned'[e] = 0
    BY <1>1, <1>3, TreeFacts
  <2>4. doc'[e].refs = doc[e].refs + docsOwned'[e] - docsOwned[e]
    BY <1>1, <1>3, <2>1
  <2>5. node'[e].refs = node[e].refs + nodesOwned'[e] - nodesOwned[e]
                         + Cardinality(RootsAt(e)') - Cardinality(RootsAt(e))
    BY <1>1, <1>4, <1>5, <2>1
  <2>6. QED
    BY <1>1, <1>3, <1>4, <2>1, <2>2, <2>3, <2>4, <2>5
<1>7. QED
  BY <1>1, <1>2, <1>6, TreesChange

\* The program gets a reference to a root.
LEMMA DupRootTrees ==
  ASSUME KnownInv, NEW d \in Document, DupRoot(d)
  PROVE  TreesKnown' /\ (TreesExact => TreesExact')
<1> DEFINE r == doc[d].root
<1>1. /\ node' = [node EXCEPT ![r].refs = @ + 1]
      /\ nodesOwned' = [nodesOwned EXCEPT ![r] = @ + 1]
      /\ UNCHANGED <<refs, holding, documents, doc, docsOwned, numbered, calls>>
      /\ r \in Document /\ r <= numbered
  BY TreeFacts DEF DupRoot, handle, work
<1>2. /\ doc' = [e \in Document |-> doc'[e]] /\ node' = [e \in Document |-> node'[e]]
      /\ docsOwned' = [e \in Document |-> docsOwned'[e]]
      /\ nodesOwned' = [e \in Document |-> nodesOwned'[e]]
  BY <1>1, TreeFunctions
<1>3. \A m : RootsAt(m)' = RootsAt(m)
  BY <1>1 DEF RootsAt
<1> HIDE DEF r
<1>4. ASSUME NEW e \in Document
      PROVE  /\ node'[e] \in RootRecord /\ node'[e].sealed = node[e].sealed
             /\ node'[e].refs = node[e].refs + (IF e = r THEN 1 ELSE 0)
             /\ nodesOwned'[e] = nodesOwned[e] + (IF e = r THEN 1 ELSE 0)
  <2>1. /\ node[e] \in RootRecord /\ node[e].refs \in Int /\ nodesOwned[e] \in Nat
    BY TreeFacts
  <2>2. node'[e] = IF e = r THEN [node[e] EXCEPT !.refs = @ + 1] ELSE node[e]
    BY <1>1, TreeFunctions
  <2>3. node'[e] = [refs |-> IF e = r THEN node[e].refs + 1 ELSE node[e].refs,
                    sealed |-> node[e].sealed]
    BY <2>1, <2>2 DEF RootRecord
  <2>4. (IF e = r THEN node[e].refs + 1 ELSE node[e].refs) \in Int
    BY <2>1
  <2>5. node'[e] \in RootRecord
    BY <2>1, <2>3, <2>4 DEF RootRecord
  <2>6. nodesOwned'[e] = nodesOwned[e] + (IF e = r THEN 1 ELSE 0)
    BY <1>1, <2>1, TreeFunctions
  <2>7. QED
    BY <2>1, <2>3, <2>5, <2>6
<1>5. ASSUME NEW e \in Document
      PROVE  /\ doc'[e] \in DocRecord /\ node'[e] \in RootRecord
             /\ docsOwned'[e] \in Nat /\ nodesOwned'[e] \in Nat
             /\ doc'[e].root # Null => doc'[e].root <= numbered /\ e <= numbered
             /\ e > numbered => doc'[e].refs = 0 /\ docsOwned'[e] = 0 /\ nodesOwned'[e] = 0
             /\ doc'[e].sealed /\ doc'[e].root # Null => node'[doc'[e].root].sealed
             /\ doc'[e].refs = doc[e].refs + docsOwned'[e] - docsOwned[e]
             /\ node'[e].refs = node[e].refs + nodesOwned'[e] - nodesOwned[e]
                                 + Cardinality(RootsAt(e)') - Cardinality(RootsAt(e))
  <2>1. Cardinality(RootsAt(e)') = Cardinality(RootsAt(e)) /\ Cardinality(RootsAt(e)) \in Nat
    BY <1>3, RootsAreFinite
  <2>2. doc'[e].sealed /\ doc'[e].root # Null => node'[doc'[e].root].sealed
    BY <1>1, <1>4, TreeFacts
  <2>3. QED
    BY <1>1, <1>4, <2>1, <2>2, TreeFacts
<1>6. QED
  BY <1>1, <1>2, <1>5, TreesChange

\* The program gets the reference that the document had.
LEMMA StealRootTrees ==
  ASSUME KnownInv, NEW d \in Document, StealRoot(d)
  PROVE  TreesKnown' /\ (TreesExact => TreesExact')
<1> DEFINE r == doc[d].root
<1>1. /\ doc' = [doc EXCEPT ![d].root = Null]
      /\ nodesOwned' = [nodesOwned EXCEPT ![r] = @ + 1]
      /\ UNCHANGED <<refs, holding, documents, node, docsOwned, numbered, calls>>
      /\ r \in Document /\ r <= numbered
  BY TreeFacts DEF StealRoot, handle, work
<1>2. /\ doc' = [e \in Document |-> doc'[e]] /\ node' = [e \in Document |-> node'[e]]
      /\ docsOwned' = [e \in Document |-> docsOwned'[e]]
      /\ nodesOwned' = [e \in Document |-> nodesOwned'[e]]
  BY <1>1, TreeFunctions
<1> HIDE DEF r
<1>3. ASSUME NEW e \in Document
      PROVE  /\ doc'[e] \in DocRecord /\ doc'[e].refs = doc[e].refs
             /\ doc'[e].sealed = doc[e].sealed
             /\ doc'[e].root = IF e = d THEN Null ELSE doc[e].root
             /\ nodesOwned'[e] = nodesOwned[e] + Same(r, e)
  <2>1. doc[e] \in DocRecord /\ nodesOwned[e] \in Nat
    BY TreeFacts
  <2>2. doc'[e] = IF e = d THEN [doc[e] EXCEPT !.root = Null] ELSE doc[e]
    BY <1>1, TreeFunctions
  <2>3. doc'[e] = [refs |-> doc[e].refs, root |-> IF e = d THEN Null ELSE doc[e].root,
                   sealed |-> doc[e].sealed]
    BY <2>1, <2>2 DEF DocRecord
  <2>4. (IF e = d THEN Null ELSE doc[e].root) \in Document \cup {Null}
    BY <2>1 DEF DocRecord
  <2>5. doc'[e] \in DocRecord
    BY <2>1, <2>3, <2>4 DEF DocRecord
  <2>6. nodesOwned'[e] = nodesOwned[e] + Same(r, e)
    BY <1>1, <2>1, TreeFunctions DEF Same
  <2>7. QED
    BY <2>1, <2>3, <2>5, <2>6 DEF DocRecord
<1>4. \A e : Cardinality(RootsAt(e)') = Cardinality(RootsAt(e)) + Same(Null, e) - Same(r, e)
  BY <1>3, RootMoves DEF r
<1>5. ASSUME NEW e \in Document
      PROVE  /\ doc'[e] \in DocRecord /\ node'[e] \in RootRecord
             /\ docsOwned'[e] \in Nat /\ nodesOwned'[e] \in Nat
             /\ doc'[e].root # Null => doc'[e].root <= numbered /\ e <= numbered
             /\ e > numbered => doc'[e].refs = 0 /\ docsOwned'[e] = 0 /\ nodesOwned'[e] = 0
             /\ doc'[e].sealed /\ doc'[e].root # Null => node'[doc'[e].root].sealed
             /\ doc'[e].refs = doc[e].refs + docsOwned'[e] - docsOwned[e]
             /\ node'[e].refs = node[e].refs + nodesOwned'[e] - nodesOwned[e]
                                 + Cardinality(RootsAt(e)') - Cardinality(RootsAt(e))
  <2>1. /\ doc[e].refs \in Int /\ docsOwned[e] \in Nat /\ nodesOwned[e] \in Nat
        /\ node[e].refs \in Int /\ numbered \in Nat /\ e \in Nat
        /\ Cardinality(RootsAt(e)) \in Nat /\ Same(Null, e) = 0 /\ Same(r, e) \in {0, 1}
    BY TreeFacts, RootsAreFinite DEF Same
  <2>2. Same(r, e) = 1 => e <= numbered
    BY <1>1 DEF Same
  <2>3. doc'[e].sealed /\ doc'[e].root # Null => node'[doc'[e].root].sealed
    BY <1>1, <1>3, TreeFacts
  <2>4. /\ doc'[e].root # Null => doc'[e].root <= numbered /\ e <= numbered
        /\ e > numbered => doc'[e].refs = 0 /\ docsOwned'[e] = 0 /\ nodesOwned'[e] = 0
    BY <1>1, <1>3, <2>1, <2>2, TreeFacts
  <2>5. doc'[e].refs = doc[e].refs + docsOwned'[e] - docsOwned[e]
    BY <1>1, <1>3, <2>1
  <2>6. node'[e].refs = node[e].refs + nodesOwned'[e] - nodesOwned[e]
                         + Cardinality(RootsAt(e)') - Cardinality(RootsAt(e))
    BY <1>1, <1>3, <1>4, <2>1
  <2>7. node'[e] \in RootRecord /\ docsOwned'[e] \in Nat /\ nodesOwned'[e] \in Nat
    BY <1>1, <1>3, <2>1, TreeFacts
  <2>8. QED
    BY <1>3, <2>3, <2>4, <2>5, <2>6, <2>7
<1>6. QED
  BY <1>1, <1>2, <1>5, TreesChange

\* A document is sealed, with its root.
LEMMA SealTrees ==
  ASSUME KnownInv, NEW d \in Document, SealDocument(d)
  PROVE  TreesKnown' /\ (TreesExact => TreesExact')
<1> DEFINE r == doc[d].root
<1>1. /\ doc' = [doc EXCEPT ![d].sealed = TRUE]
      /\ node' = [n \in Document |-> [node[n] EXCEPT !.sealed = @ \/ n = r]]
      /\ UNCHANGED <<refs, holding, documents, docsOwned, nodesOwned, numbered, calls>>
  BY DEF SealDocument, handle, work, owned
<1>2. /\ doc' = [e \in Document |-> doc'[e]] /\ node' = [e \in Document |-> node'[e]]
      /\ docsOwned' = [e \in Document |-> docsOwned'[e]]
      /\ nodesOwned' = [e \in Document |-> nodesOwned'[e]]
  BY <1>1, TreeFunctions
<1> HIDE DEF r
<1>3. ASSUME NEW e \in Document
      PROVE  /\ doc'[e] \in DocRecord /\ doc'[e].refs = doc[e].refs /\ doc'[e].root = doc[e].root
             /\ doc'[e].sealed => doc[e].sealed \/ e = d
             /\ node'[e] \in RootRecord /\ node'[e].refs = node[e].refs
             /\ node[e].sealed \/ e = r => node'[e].sealed
  <2>1. doc[e] \in DocRecord /\ node[e] \in RootRecord /\ node[e].sealed \in BOOLEAN
    BY TreeFacts
  <2>2. doc'[e] = IF e = d THEN [doc[e] EXCEPT !.sealed = TRUE] ELSE doc[e]
    BY <1>1, TreeFunctions
  <2>3. CASE e = d
    <3>1. doc'[e] = [refs |-> doc[e].refs, root |-> doc[e].root, sealed |-> TRUE]
      BY <2>1, <2>2, <2>3 DEF DocRecord
    <3>2. doc'[e] \in DocRecord
      BY <2>1, <3>1 DEF DocRecord
    <3> DEFINE s == node[e].sealed \/ e = r
    <3>3. /\ node'[e] = [node[e] EXCEPT !.sealed = s] /\ s \in BOOLEAN
          /\ node[e].sealed \/ e = r => s
      BY <1>1
    <3> HIDE DEF s
    <3>4. node'[e] \in RootRecord /\ node'[e].refs = node[e].refs /\ node'[e].sealed = s
      BY <2>1, <3>3 DEF RootRecord
    <3>5. doc'[e].refs = doc[e].refs /\ doc'[e].root = doc[e].root
      BY <3>1
    <3>6. QED
      BY <2>3, <3>2, <3>3, <3>4, <3>5
  <2>4. CASE e # d
    <3> DEFINE s == node[e].sealed \/ e = r
    <3>1. node'[e] = [node[e] EXCEPT !.sealed = s] /\ s \in BOOLEAN
      BY <1>1
    <3> HIDE DEF s
    <3>2. node'[e] \in RootRecord /\ node'[e].refs = node[e].refs /\ node'[e].sealed = s
      BY <2>1, <3>1 DEF RootRecord
    <3>3. doc'[e] = doc[e]
      BY <2>2, <2>4
    <3>4. QED
      BY <2>1, <3>2, <3>3 DEF s
  <2>5. QED
    BY <2>3, <2>4
<1>4. \A m : RootsAt(m)' = RootsAt(m)
  BY <1>3 DEF RootsAt
<1>5. ASSUME NEW e \in Document
      PROVE  /\ doc'[e] \in DocRecord /\ node'[e] \in RootRecord
             /\ docsOwned'[e] \in Nat /\ nodesOwned'[e] \in Nat
             /\ doc'[e].root # Null => doc'[e].root <= numbered /\ e <= numbered
             /\ e > numbered => doc'[e].refs = 0 /\ docsOwned'[e] = 0 /\ nodesOwned'[e] = 0
             /\ doc'[e].sealed /\ doc'[e].root # Null => node'[doc'[e].root].sealed
             /\ doc'[e].refs = doc[e].refs + docsOwned'[e] - docsOwned[e]
             /\ node'[e].refs = node[e].refs + nodesOwned'[e] - nodesOwned[e]
                                 + Cardinality(RootsAt(e)') - Cardinality(RootsAt(e))
  <2>1. Cardinality(RootsAt(e)') = Cardinality(RootsAt(e)) /\ Cardinality(RootsAt(e)) \in Nat
    BY <1>4, RootsAreFinite
  <2>2. doc'[e].sealed /\ doc'[e].root # Null => node'[doc'[e].root].sealed
    <3>1. SUFFICES ASSUME doc'[e].sealed, doc'[e].root # Null
                   PROVE  node'[doc'[e].root].sealed
      OBVIOUS
    <3>2. doc'[e].root = doc[e].root /\ doc[e].root \in Document /\ (doc[e].sealed \/ e = d)
      BY <1>3, <3>1, TreeFacts
    <3>3. node[doc[e].root].sealed \/ doc[e].root = r
      BY <3>1, <3>2, TreeFacts DEF r
    <3>4. QED
      BY <1>3, <3>2, <3>3
  <2>3. /\ doc'[e].root # Null => doc'[e].root <= numbered /\ e <= numbered
        /\ e > numbered => doc'[e].refs = 0 /\ docsOwned'[e] = 0 /\ nodesOwned'[e] = 0
        /\ docsOwned'[e] = docsOwned[e] /\ docsOwned[e] \in Nat
        /\ nodesOwned'[e] = nodesOwned[e] /\ nodesOwned[e] \in Nat
        /\ doc[e].refs \in Int /\ node[e].refs \in Int
    BY <1>1, <1>3, TreeFacts
  <2>4. QED
    BY <1>3, <2>1, <2>2, <2>3
<1>6. QED
  BY <1>1, <1>2, <1>5, TreesChange

-----------------------------------------------------------------------------
(* The tasks and the parser, step by step. *)

\* The parse at the bottom of the stack is of a load, and the parser exists meanwhile.
LEMMA BottomKnown ==
  ASSUME KnownInv, calls # <<>>
  PROVE  /\ 1 \in 1..Len(calls) /\ calls[1].load \in Load
         /\ holding \/ load[calls[1].load].async
         /\ load[calls[1].load].at \in {"parsing", "callback"}
<1>1. calls \in Seq(CallFrame)
  BY DEF KnownInv, LoadInv, Types
<1>2. 1 \in 1..Len(calls)
  <2>1. Len(calls) \in Nat /\ Len(calls) # 0
    BY <1>1, EmptySeq, LenProperties
  <2>2. QED
    BY <2>1
<1>3. calls[1] \in CallFrame
  BY <1>1, <1>2, ElementOfSeq
<1>4. QED
  BY <1>2, <1>3 DEF CallFrame, KnownInv, TasksKnown, LoadInv, CallsMatchLoads

\* No task is made or lost.
LEMMA TasksStay ==
  ASSUME KnownInv, UNCHANGED <<refs, holding>>,
         \A l \in Load :
           /\ load'[l].async = load[l].async
           /\ \/ load'[l].at = load[l].at
              \/ load'[l].at \in {"parsing", "done"}
              \/ load[l].async /\ load'[l].at # "unused",
         calls' # <<>> => holding' \/ load'[calls'[1].load].async
  PROVE  TasksKnown' /\ (ParserExact => ParserExact')
<1>1. Stream \subseteq Load
  BY ParserAssumption
<1>2. Tasks' = Tasks /\ DataTasks' = DataTasks
  BY <1>1 DEF Tasks, DataTasks
<1>3. TasksKnown'
  BY DEF KnownInv, TasksKnown
<1>4. QED
  BY <1>2, <1>3 DEF ParserExact, Handle

\* The tasks, before and after a step.
LEMMA TasksFinite == Cardinality(Tasks') \in Int /\ Cardinality(DataTasks') \in Int
<1>1. IsFiniteSet(Load) /\ Stream \in SUBSET Load
  BY ParserAssumption
<1>2. IsFiniteSet(Stream) /\ Tasks' \in SUBSET Load /\ DataTasks' \in SUBSET Stream
  BY <1>1, FS_Subset DEF Tasks, DataTasks
<1>3. QED
  BY <1>1, <1>2, FS_Subset, FS_CardinalityType

\* The task of one load is made or lost.
LEMMA TasksMove ==
  ASSUME LoadInv, NEW l \in Load, load'[l].async # load[l].async,
         load[l].async \in BOOLEAN, load'[l].async \in BOOLEAN,
         \A k \in Load \ {l} : load'[k] = load[k]
  PROVE  Cardinality(Tasks') + Cardinality(DataTasks')
           = IF load[l].async THEN Cardinality(Tasks) + Cardinality(DataTasks) - Held(l)
                              ELSE Cardinality(Tasks) + Cardinality(DataTasks) + Held(l)
<1> DEFINE A == Tasks
           B == DataTasks
           C == {k \in Load : load'[k].async}
           D == {k \in Stream : load'[k].async}
<1>1. IsFiniteSet(A) /\ IsFiniteSet(B) /\ Stream \subseteq Load
  BY CountsAreFinite, ParserAssumption
<1>2. A \ {l} = C \ {l} /\ (l \in A <=> load[l].async) /\ (l \in C <=> load'[l].async)
  BY DEF Tasks
<1>3. /\ B \ {l} = D \ {l} /\ (l \in B <=> l \in Stream /\ load[l].async)
      /\ l \in D <=> l \in Stream /\ load'[l].async
  BY <1>1 DEF DataTasks
<1>4. C = Tasks' /\ D = DataTasks'
  BY DEF Tasks, DataTasks
<1> HIDE DEF A, B, C, D
<1>5. /\ Cardinality(A) \in Nat
      /\ Cardinality(C) = Cardinality(A) + (IF l \in C THEN 1 ELSE 0) - (IF l \in A THEN 1 ELSE 0)
  BY <1>1, <1>2, OneDiffers
<1>6. /\ Cardinality(B) \in Nat
      /\ Cardinality(D) = Cardinality(B) + (IF l \in D THEN 1 ELSE 0) - (IF l \in B THEN 1 ELSE 0)
  BY <1>1, <1>3, OneDiffers
<1>7. Cardinality(C) + Cardinality(D) = IF load[l].async THEN Cardinality(A) + Cardinality(B) - Held(l)
                                        ELSE Cardinality(A) + Cardinality(B) + Held(l)
  <2>1. CASE load[l].async
    <3>1. l \in A /\ l \notin C /\ l \notin D /\ (l \in B <=> l \in Stream)
      BY <1>2, <1>3, <2>1
    <3>2. QED
      BY <1>5, <1>6, <2>1, <3>1 DEF Held
  <2>2. CASE ~load[l].async
    <3>1. l \notin A /\ l \in C /\ l \notin B /\ (l \in D <=> l \in Stream)
      BY <1>2, <1>3, <2>2
    <3>2. QED
      BY <1>5, <1>6, <2>2, <3>1 DEF Held
  <2>3. QED
    BY <2>1, <2>2
<1>8. QED
  BY <1>4, <1>7 DEF A, B

\* The parse goes on: its load stays what it is, but for an error.
LEMMA ParseTasks ==
  ASSUME KnownInv, NextDocument \/ ParseError \/ EndOfStream
                     \/ \E immutable \in BOOLEAN : FinishDocument(immutable)
  PROVE  TasksKnown' /\ (ParserExact => ParserExact')
<1>1. /\ LoadInv /\ calls # <<>> /\ UNCHANGED <<refs, holding>>
      /\ numbered \in Nat
  BY DEF KnownInv, LoadInv, Types, NextDocument, ParseError, EndOfStream, FinishDocument, handle
<1>2. Top.load \in Load /\ load \in [Load -> LoadRecord]
  BY <1>1, TopCall DEF LoadInv, Types
<1>3. PICK f \in CallFrame : f.load = Top.load /\ calls' = Front(calls) \o <<f>>
  <2>1. ASSUME NEW at \in Signals, GoesTo(at)
        PROVE  \E f \in CallFrame : f.load = Top.load /\ calls' = Front(calls) \o <<f>>
    <3>1. Frame(Top.load, at) \in CallFrame /\ Frame(Top.load, at).load = Top.load
      BY <1>2 DEF Frame, CallFrame
    <3>2. QED
      BY <2>1, <3>1 DEF GoesTo
  <2>2. ASSUME NEW immutable \in BOOLEAN, FinishDocument(immutable)
        PROVE  \E f \in CallFrame : f.load = Top.load /\ calls' = Front(calls) \o <<f>>
    <3> DEFINE f == [load |-> Top.load, at |-> "document-end", doc |-> numbered + 1]
    <3>1. f \in CallFrame /\ f.load = Top.load /\ calls' = Front(calls) \o <<f>>
      BY <1>1, <1>2, <2>2 DEF CallFrame, Signals, FinishDocument
    <3> HIDE DEF f
    <3>2. QED
      BY <3>1
  <2>3. QED
    BY <2>1, <2>2 DEF NextDocument, ParseError, EndOfStream, Signals
<1>4. calls'[1].load = calls[1].load
  BY <1>1, <1>3, StackGoesOn
<1>5. \A l \in Load : load'[l].async = load[l].async /\ load'[l].at = load[l].at
  <2>1. CASE load' = load
    BY <2>1
  <2>2. CASE ParseError
    BY <1>2, <2>2 DEF ParseError, LoadRecord
  <2>3. QED
    BY <2>1, <2>2 DEF NextDocument, EndOfStream, FinishDocument
<1>6. holding' \/ load'[calls'[1].load].async
  BY <1>1, <1>4, <1>5, BottomKnown
<1>7. QED
  BY <1>1, <1>5, <1>6, TasksStay

\* The documents change, or the main loop cancels or fails to read a source.
LEMMA QuietTasks ==
  ASSUME KnownInv, UNCHANGED <<refs, holding, calls>>,
         load' = load \/ \E l \in Load : Cancel(l) \/ ReadFails(l)
  PROVE  TasksKnown' /\ (ParserExact => ParserExact')
<1>1. load \in [Load -> LoadRecord]
  BY DEF KnownInv, LoadInv, Types
<1>2. \A l \in Load : load[l].at = "reading" => load[l].async
  BY DEF KnownInv, TasksKnown
<1>3. \A l \in Load : /\ load'[l].async = load[l].async
                      /\ load'[l].at = load[l].at \/ (load[l].async /\ load'[l].at # "unused")
  <2>1. CASE load' = load
    BY <2>1
  <2>2. ASSUME NEW k \in Load, Cancel(k)
        PROVE  \A l \in Load : load'[l].async = load[l].async /\ load'[l].at = load[l].at
    BY <1>1, <2>2 DEF Cancel, LoadRecord
  <2>3. ASSUME NEW k \in Load, ReadFails(k)
        PROVE  \A l \in Load : /\ load'[l].async = load[l].async
                               /\ load'[l].at = load[l].at \/ (load[l].async /\ load'[l].at # "unused")
    <3>1. load[k].async
      BY <1>2, <2>3 DEF ReadFails
    <3>2. /\ load[k] \in LoadRecord
          /\ load' = [load EXCEPT ![k] = [load[k] EXCEPT !.ok = FALSE, !.failed = TRUE,
                                                         !.at = "returned"]]
      BY <1>1, <2>3 DEF ReadFails
    <3>3. /\ load'[k].async = load[k].async /\ load'[k].at = "returned"
          /\ \A l \in Load \ {k} : load'[l] = load[l]
      BY <1>1, <3>2 DEF LoadRecord
    <3>4. QED
      BY <3>1, <3>3
  <2>4. QED
    BY <2>1, <2>2, <2>3
<1>4. calls' # <<>> => holding' \/ load'[calls'[1].load].async
  BY <1>3, BottomKnown
<1>5. QED
  BY <1>3, <1>4, TasksStay

\* A parse or a callback begins.
LEMMA BeginTasks ==
  ASSUME KnownInv, NEW l \in Load, LoadSync(l) \/ ReadDone(l) \/ CallBack(l)
  PROVE  TasksKnown' /\ (ParserExact => ParserExact')
<1>1. LoadInv /\ load \in [Load -> LoadRecord] /\ UNCHANGED <<refs, holding>>
  BY DEF KnownInv, LoadInv, Types, LoadSync, ReadDone, CallBack, handle
<1>2. PICK at \in {"parse-start", "callback"} : calls' = Append(calls, Frame(l, at))
  <2>1. \A f : calls = <<>> => <<f>> = Append(calls, f)
    OBVIOUS
  <2>2. QED
    BY <2>1 DEF LoadSync, ReadDone, CallBack
<1> DEFINE f == Frame(l, at)
<1>3. f \in CallFrame /\ f.doc = Null /\ f.at # "document-start" /\ f.load = l
  BY DEF Frame, CallFrame, Signals
<1> HIDE DEF f
<1>4. calls'[1] = IF calls = <<>> THEN f ELSE calls[1]
  BY <1>1, <1>2, <1>3, StackPushes DEF f
<1>5. \A k \in Load : /\ load'[k].async = load[k].async
                      /\ load'[k].at = load[k].at \/ (load[k].async /\ load'[k].at # "unused")
                           \/ load'[k].at = "parsing"
  <2>1. CASE LoadSync(l) \/ ReadDone(l)
    <3>1. load' = [load EXCEPT ![l].at = "parsing"]
      BY <2>1 DEF LoadSync, ReadDone
    <3>2. QED
      BY <1>1, <3>1 DEF LoadRecord
  <2>2. CASE CallBack(l)
    <3>1. /\ load' = [load EXCEPT ![l].at = "callback",
                                  ![l].answer = load[l].ok /\ ~load[l].cancelled]
          /\ load[l].async
      BY <2>2 DEF CallBack, KnownInv, TasksKnown
    <3>2. QED
      BY <1>1, <3>1 DEF LoadRecord
  <2>3. QED
    BY <2>1, <2>2
<1>6. calls' # <<>> => holding' \/ load'[calls'[1].load].async
  <2>1. CASE calls # <<>>
    BY <1>1, <1>4, <1>5, <2>1, BottomKnown
  <2>2. CASE calls = <<>>
    <3>1. holding \/ load[l].async
      BY <2>2 DEF LoadSync, CanCall, ReadDone, CallBack, KnownInv, TasksKnown
    <3>2. QED
      BY <1>1, <1>3, <1>4, <1>5, <2>2, <3>1
  <2>3. QED
    BY <2>1, <2>2
<1>7. QED
  BY <1>1, <1>5, <1>6, TasksStay

\* A task is made: it holds the parser, and so does its data.
LEMMA LoadAsyncTasks ==
  ASSUME KnownInv, NEW l \in Load, LoadAsync(l)
  PROVE  TasksKnown' /\ (ParserExact => ParserExact')
<1>1. /\ LoadInv /\ load \in [Load -> LoadRecord] /\ load[l].at = "unused"
      /\ load' = [load EXCEPT ![l].at = "reading", ![l].async = TRUE]
      /\ refs' = refs + Held(l) /\ UNCHANGED <<holding, calls>>
  BY DEF KnownInv, LoadInv, Types, LoadAsync
<1>2. /\ load'[l].async = TRUE /\ load'[l].at = "reading"
      /\ \A k \in Load \ {l} : load'[k] = load[k]
  BY <1>1 DEF LoadRecord
<1>3. load[l].async = FALSE
  <2>1. load[l] \in LoadRecord /\ ~load[l].async
    BY <1>1 DEF KnownInv, TasksKnown
  <2>2. QED
    BY <2>1 DEF LoadRecord
<1>4. Cardinality(Tasks') + Cardinality(DataTasks')
        = Cardinality(Tasks) + Cardinality(DataTasks) + Held(l)
  BY <1>1, <1>2, <1>3, TasksMove
<1>5. TasksKnown'
  <2>1. calls # <<>> => holding \/ load'[calls[1].load].async
    BY <1>1, <1>2, BottomKnown
  <2>2. QED
    BY <1>1, <1>2, <2>1 DEF KnownInv, TasksKnown
<1>6. ParserExact => ParserExact'
  <2>1. /\ refs \in Int /\ Handle \in Nat /\ Handle' = Handle
        /\ Cardinality(Tasks) \in Nat /\ Cardinality(DataTasks) \in Nat
    BY <1>1, CountsAreFinite DEF KnownInv, TreeTypes, Handle
  <2>2. Cardinality(Tasks') \in Int /\ Cardinality(DataTasks') \in Int
    BY <1>1, <1>2, TasksFinite
  <2>3. Held(l) \in Nat /\ refs' = refs + Held(l)
    BY <1>1 DEF Held
  <2>4. QED
    BY <1>4, <2>1, <2>2, <2>3 DEF ParserExact
<1>7. QED
  BY <1>5, <1>6

\* A call returns: the task of a callback is gone, and its references with it.
LEMMA ReturnTasks ==
  ASSUME KnownInv, ParseReturns \/ CallbackReturns
  PROVE  TasksKnown' /\ (ParserExact => ParserExact')
<1> DEFINE l == Top.load
<1>1. /\ LoadInv /\ load \in [Load -> LoadRecord] /\ calls # <<>> /\ calls' = Front(calls)
      /\ UNCHANGED holding /\ Top.at \in {"parse-end", "callback"}
  BY DEF KnownInv, LoadInv, Types, ParseReturns, CallbackReturns, handle
<1>2. l \in Load /\ Cur = load[l] /\ load[l] \in LoadRecord
      /\ Cur.at = IF Top.at = "callback" THEN "callback" ELSE "parsing"
  BY <1>1, TopCall DEF Cur
<1>3. Top.doc = Null
  <2>1. Len(calls) \in Nat \ {0} /\ Top = calls[Len(calls)]
    BY <1>1, FrontAndLast DEF LoadInv, Types, Top
  <2>2. FrameKnown(calls[Len(calls)])
    BY <2>1 DEF KnownInv, OnlyNumbered, StackKnown
  <2>3. QED
    BY <1>1, <2>1, <2>2 DEF FrameKnown
<1>4. calls' # <<>> => calls'[1] = calls[1] /\ 1 \in 1..Len(calls) /\ l # calls[1].load
  BY <1>1, <1>3, StackPops
<1> HIDE DEF l
<1>5. \A k \in Load \ {l} : load'[k] = load[k]
  BY <1>1, <1>2 DEF ParseReturns, CallbackReturns, l
<1>6. calls' # <<>> => holding' \/ load'[calls'[1].load].async
  BY <1>1, <1>4, <1>5, BottomKnown
<1>7. CASE ParseReturns
  <2>1. load' = [load EXCEPT ![l] = IF load[l].async THEN [load[l] EXCEPT !.at = "returned"] ELSE Over]
        /\ UNCHANGED refs
    BY <1>1, <1>2, <1>7 DEF ParseReturns, handle, l
  <2>2. /\ load'[l].async = load[l].async
        /\ load'[l].at = "done" \/ (load[l].async /\ load'[l].at = "returned")
    <3>1. CASE load[l].async
      BY <1>1, <1>2, <2>1, <3>1 DEF LoadRecord
    <3>2. CASE ~load[l].async
      BY <1>1, <1>2, <2>1, <3>2 DEF LoadRecord, Over, NoLoad
    <3>3. QED
      BY <3>1, <3>2
  <2>3. QED
    BY <1>1, <1>5, <1>6, <2>1, <2>2, TasksStay
<1>8. CASE CallbackReturns
  <2>1. /\ load' = [load EXCEPT ![l] = Over] /\ refs' = refs - Held(l) /\ Top.at = "callback"
    BY <1>8 DEF CallbackReturns, DropParser, l
  <2>2. load'[l].at = "done" /\ load'[l].async = FALSE
    BY <1>1, <1>2, <2>1 DEF Over, NoLoad
  <2>3. load[l].async = TRUE
    <3>1. load[l].async
      BY <1>2, <2>1 DEF KnownInv, TasksKnown
    <3>2. QED
      BY <1>2, <3>1 DEF LoadRecord
  <2>4. Cardinality(Tasks') + Cardinality(DataTasks')
          = Cardinality(Tasks) + Cardinality(DataTasks) - Held(l)
    BY <1>1, <1>2, <1>5, <2>2, <2>3, TasksMove
  <2>5. TasksKnown'
    BY <1>5, <1>6, <2>2 DEF KnownInv, TasksKnown
  <2>6. ParserExact => ParserExact'
    <3>1. /\ refs \in Int /\ Handle \in Nat /\ Handle' = Handle
          /\ Cardinality(Tasks) \in Nat /\ Cardinality(DataTasks) \in Nat
      BY <1>1, CountsAreFinite DEF KnownInv, TreeTypes, Handle
    <3>2. Cardinality(Tasks') \in Int /\ Cardinality(DataTasks') \in Int
      BY TasksFinite
    <3>3. Held(l) \in Nat
      BY DEF Held
    <3>4. QED
      BY <2>1, <2>4, <3>1, <3>2, <3>3 DEF ParserExact
  <2>7. QED
    BY <2>5, <2>6
<1>9. QED
  BY <1>7, <1>8

\* The program drops the parser, which a load in progress still holds.
LEMMA UnrefTasks ==
  ASSUME KnownInv, UnrefParser
  PROVE  TasksKnown' /\ (ParserExact => ParserExact')
<1>1. /\ LoadInv /\ holding /\ holding' = FALSE /\ refs' = refs - 1 /\ UNCHANGED <<load, calls>>
      /\ calls # <<>> => load[calls[1].load].async
  BY DEF KnownInv, UnrefParser, DropParser, work
<1>2. TasksKnown'
  BY <1>1 DEF KnownInv, TasksKnown
<1>3. ParserExact => ParserExact'
  <2>1. /\ refs \in Int /\ Handle = 1 /\ Handle' = 0 /\ Tasks' = Tasks /\ DataTasks' = DataTasks
        /\ Cardinality(Tasks) \in Nat /\ Cardinality(DataTasks) \in Nat
    BY <1>1, CountsAreFinite DEF KnownInv, TreeTypes, Handle, Tasks, DataTasks
  <2>2. QED
    BY <1>1, <2>1 DEF ParserExact
<1>4. QED
  BY <1>2, <1>3

-----------------------------------------------------------------------------
(* The counters. *)

Exact == ParserExact /\ TreesExact

\* The program has the parser, which has nothing yet.
LEMMA KnownInitially == Init => KnownInv /\ Exact
<1> SUFFICES ASSUME Init PROVE KnownInv /\ Exact
  OBVIOUS
<1>1. LoadInv
  BY Initially
<1>2. /\ refs = 1 /\ holding = TRUE /\ documents = <<>> /\ calls = <<>> /\ numbered = 0
      /\ doc  = [d \in Document |-> [refs |-> 0, root |-> Null, sealed |-> FALSE]]
      /\ node = [d \in Document |-> [refs |-> 0, sealed |-> FALSE]]
      /\ docsOwned = [d \in Document |-> 0] /\ nodesOwned = [d \in Document |-> 0]
      /\ load = [l \in Load |-> NoLoad]
  BY DEF Init
<1>3. /\ documents \in Seq(Document) /\ Len(documents) = 0 /\ Len(calls) = 0
      /\ DOMAIN calls = {} /\ MaxDocuments \in Nat
  BY <1>2, ParserAssumption
<1>4. TreeTypes
  <2>1. [refs |-> 0, root |-> Null, sealed |-> FALSE] \in DocRecord
        /\ [refs |-> 0, sealed |-> FALSE] \in RootRecord
    BY DEF DocRecord, RootRecord
  <2>2. NoneTwice(documents)
    BY <1>3 DEF NoneTwice
  <2>3. QED
    BY <1>2, <1>3, <2>1, <2>2 DEF TreeTypes
<1>5. OnlyNumbered
  <2>1. Starts = {}
    BY <1>3 DEF Starts
  <2>2. Cardinality(Starts) = 0
    BY <2>1, FS_EmptySet
  <2>3. numbered + Cardinality(Starts) <= MaxDocuments
    BY <1>2, <1>3, <2>2
  <2>4. QED
    BY <1>2, <1>3, <2>3 DEF OnlyNumbered, StackKnown
<1>6. SealedRoots
  BY <1>2 DEF SealedRoots
<1>7. TasksKnown
  BY <1>2 DEF TasksKnown, NoLoad
<1>8. ParserExact
  <2>1. Tasks = {} /\ DataTasks = {}
    BY <1>2, ParserAssumption DEF Tasks, DataTasks, NoLoad
  <2>2. Cardinality(Tasks) = 0 /\ Cardinality(DataTasks) = 0
    BY <2>1, FS_EmptySet
  <2>3. QED
    BY <1>2, <2>2 DEF ParserExact, Handle
<1>9. ASSUME NEW d \in Document PROVE DocExact(d) /\ NodeExact(d)
  <2>1. d # Null
    BY ParserAssumption DEF Document
  <2>2. Emitting(d) = {} /\ RootsAt(d) = {} /\ Listed(d) = 0
    BY <1>2, <1>3, <2>1 DEF Emitting, RootsAt, Listed
  <2>3. Cardinality(Emitting(d)) = 0 /\ Cardinality(RootsAt(d)) = 0
    BY <2>2, FS_EmptySet
  <2>4. QED
    BY <1>2, <2>2, <2>3 DEF DocExact, NodeExact, Places
<1>10. QED
  BY <1>1, <1>4, <1>5, <1>6, <1>7, <1>8, <1>9 DEF KnownInv, Exact, TreesExact

\* What GLib and the library do on their own.
LEMMA StepCounts ==
  ASSUME KnownInv, Step
  PROVE  KnownInv' /\ (Exact => Exact')
<1>1. LoadInv'
  BY StepKeeps DEF KnownInv
<1>2. CASE NextDocument \/ ParseError \/ EndOfStream
  <2>1. TasksKnown' /\ (ParserExact => ParserExact')
    BY <1>2, ParseTasks
  <2>2. TreesKnown' /\ (TreesExact => TreesExact')
    <3>1. PICK at \in {"document-start", "error", "parse-end"} :
            /\ GoesTo(at) /\ calls # <<>> /\ Top.at \in {"parse-start", "document-end", "error"}
            /\ at = "document-start" => numbered + Cardinality(Starts) < MaxDocuments
            /\ UNCHANGED <<refs, holding, documents, docsOwned, nodesOwned, numbered>>
      BY <1>2 DEF NextDocument, ParseError, EndOfStream, handle, owned, Starts
    <3>2. QED
      BY <1>1, <3>1, GoesToTrees DEF Signals
  <2>3. QED
    BY <1>1, <2>1, <2>2 DEF KnownInv, TreesKnown, Exact
<1>3. CASE \E immutable \in BOOLEAN : FinishDocument(immutable)
  BY <1>1, <1>3, ParseTasks, FinishTrees DEF KnownInv, TreesKnown, Exact
<1>4. CASE ParseReturns
  BY <1>1, <1>4, ReturnTasks, BetweenTrees DEF KnownInv, TreesKnown, Exact
<1>5. CASE CallbackReturns
  BY <1>1, <1>5, ReturnTasks, ParserTrees DEF KnownInv, TreesKnown, Exact
<1>6. ASSUME NEW l \in Load, ReadDone(l) \/ CallBack(l)
      PROVE  KnownInv' /\ (Exact => Exact')
  BY <1>1, <1>6, BeginTasks, BetweenTrees DEF KnownInv, TreesKnown, Exact
<1>7. ASSUME NEW l \in Load, ReadFails(l)
      PROVE  KnownInv' /\ (Exact => Exact')
  <2>1. UNCHANGED <<refs, holding, calls>>
    BY <1>7 DEF ReadFails, handle
  <2>2. QED
    BY <1>1, <1>7, <2>1, QuietTasks, BetweenTrees DEF KnownInv, TreesKnown, Exact
<1>8. QED
  BY <1>2, <1>3, <1>4, <1>5, <1>6, <1>7 DEF Step

\* What the program calls: only a program that trusts yaml_parser_steal_document counts a
\* reference that nobody has.
LEMMA CallCounts ==
  ASSUME KnownInv, Call
  PROVE  KnownInv' /\ (~TrustsSteal /\ Exact => Exact')
<1>1. LoadInv'
  BY CallKeeps DEF KnownInv
<1>2. ASSUME NEW l \in Load, LoadSync(l)
      PROVE  KnownInv' /\ (Exact => Exact')
  BY <1>1, <1>2, BeginTasks, BetweenTrees DEF KnownInv, TreesKnown, Exact
<1>3. ASSUME NEW l \in Load, LoadAsync(l)
      PROVE  KnownInv' /\ (Exact => Exact')
  BY <1>1, <1>3, LoadAsyncTasks, BetweenTrees DEF KnownInv, TreesKnown, Exact
<1>4. ASSUME NEW l \in Load, Cancel(l)
      PROVE  KnownInv' /\ (Exact => Exact')
  <2>1. UNCHANGED <<refs, holding, calls>>
    BY <1>4 DEF Cancel, handle
  <2>2. QED
    BY <1>1, <1>4, <2>1, QuietTasks, BetweenTrees DEF KnownInv, TreesKnown, Exact
<1>5. CASE Reset
  <2>1. UNCHANGED <<refs, holding, calls, load>>
    BY <1>5 DEF Reset, handle, work
  <2>2. QED
    BY <1>1, <1>5, <2>1, QuietTasks, ParserTrees DEF KnownInv, TreesKnown, Exact
<1>6. CASE UnrefParser
  BY <1>1, <1>6, UnrefTasks, ParserTrees DEF KnownInv, TreesKnown, Exact
<1>7. ASSUME NEW i \in DOMAIN documents, StealDocument(i)
      PROVE  KnownInv' /\ (~TrustsSteal /\ Exact => Exact')
  <2>1. UNCHANGED <<refs, holding, calls, load>>
    BY <1>7 DEF StealDocument, handle, work
  <2>2. QED
    BY <1>1, <1>7, <2>1, QuietTasks, StealTrees DEF KnownInv, TreesKnown, Exact
<1>8. ASSUME NEW d \in Document,
             \/ DupDocument(d) \/ UnrefDocument(d) \/ UnrefNode(d)
             \/ DupRoot(d) \/ StealRoot(d) \/ SealDocument(d)
             \/ \E n \in Nodes : SetRoot(d, n)
      PROVE  KnownInv' /\ (Exact => Exact')
  <2>1. UNCHANGED <<refs, holding, calls, load>>
    BY <1>8 DEF DupDocument, UnrefDocument, UnrefNode, DupRoot, StealRoot, SealDocument, SetRoot,
                handle, work
  <2>2. TasksKnown' /\ (ParserExact => ParserExact')
    BY <2>1, QuietTasks
  <2>3. TreesKnown' /\ (TreesExact => TreesExact')
    BY <1>1, <1>8, DupTrees, UnrefTrees, UnrefNodeTrees, DupRootTrees, StealRootTrees, SealTrees,
       SetRootTrees
  <2>4. QED
    BY <1>1, <2>2, <2>3 DEF KnownInv, TreesKnown, Exact
<1>9. QED
  BY <1>2, <1>3, <1>4, <1>5, <1>6, <1>7, <1>8 DEF Call

\* What is known stays known when nothing happens.
LEMMA NothingHappens ==
  ASSUME KnownInv, UNCHANGED vars
  PROVE  KnownInv' /\ (Exact => Exact')
<1>1. LoadInv'
  BY WorkUnchanged DEF KnownInv, vars
<1>2. UNCHANGED <<refs, holding, documents, doc, node, docsOwned, nodesOwned, load, numbered, calls>>
  BY DEF vars, handle, trees, owned, work
<1>3. StackKnown' /\ \A d : Emitting(d)' = Emitting(d)
  BY <1>2, StackStays
<1>4. refs' \in Int /\ holding' \in BOOLEAN
  BY <1>2 DEF KnownInv, TreeTypes
<1>5. QED
  BY <1>1, <1>2, <1>3, <1>4, QuietTasks, TreesStay DEF KnownInv, TreesKnown, Exact

\* Documents are numbered as they are made, and only what was made is referred to.
LEMMA KnownIsInvariant == Spec => []KnownInv
<1>1. Init => KnownInv
  BY KnownInitially
<1>2. KnownInv /\ [Next]_vars => KnownInv'
  BY StepCounts, CallCounts, NothingHappens DEF Next
<1>3. QED
  BY <1>1, <1>2, PTL DEF Spec

\* The counters count what is there, unless the program takes steal_document at its word.
LEMMA ExactIsInvariant == ~TrustsSteal /\ Spec => [](KnownInv /\ Exact)
<1> SUFFICES ASSUME ~TrustsSteal PROVE Spec => [](KnownInv /\ Exact)
  OBVIOUS
<1>1. Init => KnownInv /\ Exact
  BY KnownInitially
<1>2. KnownInv /\ Exact /\ [Next]_vars => KnownInv' /\ Exact'
  BY StepCounts, CallCounts, NothingHappens DEF Next
<1>3. QED
  BY <1>1, <1>2, PTL DEF Spec

\* A document is in the array once.
LEMMA ListedOnce ==
  ASSUME KnownInv, NEW d
  PROVE  Cardinality({i \in DOMAIN documents : documents[i] = d}) = Listed(d)
<1>1. DOMAIN documents = 1..Len(documents) /\ NoneTwice(documents)
  BY LenProperties DEF KnownInv, TreeTypes
<1>2. CASE \E i \in 1..Len(documents) : documents[i] = d
  <2>1. PICK i \in 1..Len(documents) : documents[i] = d
    BY <1>2
  <2>2. {j \in DOMAIN documents : documents[j] = d} = {i}
    BY <1>1, <2>1 DEF NoneTwice
  <2>3. QED
    BY <1>2, <2>2, FS_Singleton DEF Listed
<1>3. CASE ~ \E i \in 1..Len(documents) : documents[i] = d
  <2>1. {j \in DOMAIN documents : documents[j] = d} = {}
    BY <1>1, <1>3
  <2>2. QED
    BY <1>3, <2>1, FS_EmptySet DEF Listed
<1>4. QED
  BY <1>2, <1>3

\* The counters are exact for any number of loads, documents and nested parses: of the
\* parser while tasks and the program share it, of a document that is in the array, in
\* the hands of the program and in a signal that is being emitted, and of a root that
\* several documents share.
THEOREM CountsAreExact == ~TrustsSteal /\ Spec => []RefsExact
<1>1. KnownInv /\ Exact => RefsExact
  <2> SUFFICES ASSUME KnownInv, Exact PROVE RefsExact
    OBVIOUS
  <2>1. LoadInv /\ TreeTypes
    BY DEF KnownInv
  <2>2. refs = (IF holding THEN 1 ELSE 0) + Cardinality({l \in Load : TaskExists(l)})
                                           + Cardinality({l \in Stream : TaskExists(l)})
    BY DEF Exact, ParserExact, Handle, Tasks, DataTasks, TaskExists
  <2>3. ASSUME NEW d \in Document
        PROVE  /\ doc[d].refs = docsOwned[d] + Cardinality({i \in DOMAIN documents : documents[i] = d})
                                  + Cardinality({i \in DOMAIN calls : calls[i].doc = d})
               /\ node[d].refs = nodesOwned[d] + Cardinality({e \in Document : doc[e].root = d})
    <3>1. DocExact(d) /\ NodeExact(d)
      BY DEF Exact, TreesExact
    <3>2. Cardinality({i \in DOMAIN documents : documents[i] = d}) = Listed(d)
      BY ListedOnce
    <3>3. QED
      BY <3>1, <3>2 DEF DocExact, NodeExact, Places, Emitting, RootsAt
  <2>4. QED
    BY <2>2, <2>3 DEF RefsExact
<1>2. QED
  BY <1>1, ExactIsInvariant, PTL

\* What the parser, the program and a signal that is emitted refer to exists, and so does
\* the parser while anything of it runs, unless the program trusts steal_document.
THEOREM NothingDangles == ~TrustsSteal /\ Spec => []NoDangling
<1>1. KnownInv /\ Exact => NoDangling
  <2> SUFFICES ASSUME KnownInv, Exact PROVE NoDangling
    OBVIOUS
  <2>1. /\ LoadInv /\ TreeTypes
        /\ \A i \in 1..Len(calls) : FrameKnown(calls[i])
    BY DEF KnownInv, OnlyNumbered, StackKnown
  <2>2. ASSUME NEW d \in Document
        PROVE  /\ docsOwned[d] \in Nat /\ nodesOwned[d] \in Nat /\ Listed(d) \in {0, 1}
               /\ IsFiniteSet(Emitting(d)) /\ Cardinality(Emitting(d)) \in Nat
               /\ IsFiniteSet(RootsAt(d)) /\ Cardinality(RootsAt(d)) \in Nat
               /\ doc[d].refs = docsOwned[d] + Listed(d) + Cardinality(Emitting(d))
               /\ node[d].refs = nodesOwned[d] + Cardinality(RootsAt(d))
    <3>1. DocExact(d) /\ NodeExact(d)
      BY DEF Exact, TreesExact
    <3>2. QED
      BY <2>1, <3>1, CountsAreFinite DEF TreeTypes, DocExact, NodeExact, Places
  <2>3. \A d \in Document : /\ docsOwned[d] > 0 => doc[d].refs > 0
                            /\ nodesOwned[d] > 0 => node[d].refs > 0
                            /\ Listed(d) = 1 => doc[d].refs > 0
                            /\ Cardinality(Emitting(d)) # 0 => doc[d].refs > 0
                            /\ Cardinality(RootsAt(d)) # 0 => node[d].refs > 0
    BY <2>2
  <2>4. ASSUME NEW d \in Document, doc[d].root # Null
        PROVE  node[doc[d].root].refs > 0
    <3>1. doc[d].root \in Document
      BY <2>4, TreeFacts
    <3>2. d \in RootsAt(doc[d].root)
      BY DEF RootsAt
    <3>3. Cardinality(RootsAt(doc[d].root)) # 0
      BY <2>2, <3>1, <3>2, FS_EmptySet
    <3>4. QED
      BY <2>3, <3>1, <3>3
  <2>5. ASSUME NEW d \in Range(documents) \cup {calls[i].doc : i \in DOMAIN calls}, d # Null
        PROVE  doc[d].refs > 0
    <3>1. CASE d \in Range(documents)
      <4>1. documents \in Seq(Document) /\ DOMAIN documents = 1..Len(documents)
        BY <2>1, LenProperties DEF TreeTypes
      <4>2. PICK i \in 1..Len(documents) : documents[i] = d
        BY <3>1, <4>1 DEF Range
      <4>3. d \in Document /\ Listed(d) = 1
        BY <4>1, <4>2, ElementOfSeq DEF Listed
      <4>4. QED
        BY <2>3, <4>3
    <3>2. CASE d \in {calls[i].doc : i \in DOMAIN calls}
      <4>1. PICK i \in DOMAIN calls : d = calls[i].doc
        BY <3>2
      <4>2. DOMAIN calls = 1..Len(calls)
        BY <2>1, LenProperties DEF LoadInv, Types
      <4>3. d \in 1..numbered
        BY <2>1, <2>5, <4>1, <4>2 DEF FrameKnown
      <4>4. d \in Document
        <5>1. numbered + Cardinality(Starts) <= MaxDocuments
          BY DEF KnownInv, OnlyNumbered, StackKnown
        <5>2. Cardinality(Starts) \in Nat /\ numbered \in Nat /\ MaxDocuments \in Nat
          BY <2>1, CountsAreFinite, ParserAssumption DEF LoadInv, Types
        <5>3. QED
          BY <4>3, <5>1, <5>2 DEF Document
      <4>5. i \in Emitting(d)
        BY <4>1 DEF Emitting
      <4>6. Cardinality(Emitting(d)) # 0
        BY <2>2, <4>4, <4>5, FS_EmptySet
      <4>7. QED
        BY <2>3, <4>4, <4>6
    <3>3. QED
      BY <3>1, <3>2
  <2>6. ASSUME calls # <<>> \/ holding
        PROVE  refs > 0
    <3>1. /\ IsFiniteSet(Tasks) /\ Cardinality(Tasks) \in Nat /\ Cardinality(DataTasks) \in Nat
          /\ refs = Handle + Cardinality(Tasks) + Cardinality(DataTasks)
      BY <2>1, CountsAreFinite DEF Exact, ParserExact
    <3>2. CASE holding
      BY <3>1, <3>2 DEF Handle
    <3>3. CASE ~holding
      <4>1. calls[1].load \in Tasks
        BY <2>6, <3>3, BottomKnown DEF Tasks
      <4>2. Cardinality(Tasks) # 0
        BY <3>1, <4>1, FS_EmptySet
      <4>3. QED
        BY <3>1, <3>3, <4>2 DEF Handle
    <3>4. QED
      BY <3>2, <3>3
  <2>7. QED
    BY <2>3, <2>4, <2>5, <2>6 DEF NoDangling
<1>2. QED
  BY <1>1, ExactIsInvariant, PTL

-----------------------------------------------------------------------------
(* Sealed documents. *)

\* A document keeps its root, and the root its seal.
KeepsRoot(d) ==
    doc[d].sealed /\ doc'[d].refs > 0 /\ doc[d].refs > 0
      => /\ doc'[d].root = doc[d].root
         /\ doc[d].root # Null => node'[doc[d].root].sealed

\* Documents that lose a reference keep their roots until they are gone.
LEMMA DropKeepsRoots ==
  ASSUME KnownInv, NEW D \in SUBSET Document, DropDocuments(D)
  PROVE  \A d \in Document : KeepsRoot(d)
<1> SUFFICES ASSUME NEW d \in Document, doc[d].sealed, doc'[d].refs > 0, doc[d].refs > 0
             PROVE  /\ doc'[d].root = doc[d].root
                    /\ doc[d].root # Null => node'[doc[d].root].sealed
  BY DEF KeepsRoot
<1>1. /\ \A e \in Document :
           /\ doc'[e].refs = doc[e].refs - (IF e \in D THEN 1 ELSE 0)
           /\ doc'[e].root = IF e \in D /\ doc[e].refs = 1 THEN Null ELSE doc[e].root
           /\ node'[e].sealed = node[e].sealed
  BY DropKeeps DEF KnownInv
<1>2. /\ doc[d].refs \in Int /\ doc[d].root \in Document \cup {Null}
      /\ doc[d].root # Null => node[doc[d].root].sealed
  BY TreeFacts
<1>3. ~(d \in D /\ doc[d].refs = 1)
  BY <1>1, <1>2
<1>4. QED
  BY <1>1, <1>2, <1>3

\* So do they when nothing is dropped and neither a sealed document nor a seal changes.
LEMMA SealsKeepRoots ==
  ASSUME KnownInv,
         \A d \in Document :
           /\ doc[d].sealed /\ doc[d].refs > 0 => doc'[d].root = doc[d].root
           /\ node[d].sealed /\ d <= numbered => node'[d].sealed
  PROVE  \A d \in Document : KeepsRoot(d)
<1> SUFFICES ASSUME NEW d \in Document, doc[d].sealed, doc[d].refs > 0
             PROVE  /\ doc'[d].root = doc[d].root
                    /\ doc[d].root # Null => node'[doc[d].root].sealed
  BY DEF KeepsRoot
<1>1. /\ doc[d].root \in Document \cup {Null}
      /\ doc[d].root # Null => node[doc[d].root].sealed /\ doc[d].root <= numbered
  BY TreeFacts
<1>2. QED
  BY <1>1

\* The documents the library and the program drop.
LEMMA DropSteps ==
  ASSUME KnownInv,
         \/ NextDocument \/ ParseError \/ EndOfStream \/ CallbackReturns \/ Reset \/ UnrefParser
         \/ \E i \in DOMAIN documents : StealDocument(i)
         \/ \E d \in Document : UnrefDocument(d)
  PROVE  \E D \in SUBSET Document : DropDocuments(D)
<1>1. documents \in Seq(Document) /\ DOMAIN documents = 1..Len(documents)
  BY LenProperties DEF KnownInv, TreeTypes
<1>2. Range(documents) \in SUBSET Document /\ \A i \in DOMAIN documents : documents[i] \in Document
  BY <1>1, ElementOfSeq DEF Range
<1>3. CASE NextDocument \/ ParseError \/ EndOfStream
  <2>1. calls # <<>> /\ LoadInv /\ DropDocuments(EmissionOver)
    BY <1>3 DEF NextDocument, ParseError, EndOfStream, GoesTo, KnownInv
  <2>2. Len(calls) \in 1..Len(calls) /\ Top = calls[Len(calls)]
    <3>1. Len(calls) \in Nat \ {0} /\ Top = calls[Len(calls)]
      BY <2>1, FrontAndLast DEF LoadInv, Types, Top
    <3>2. QED
      BY <3>1
  <2>3. FrameKnown(Top)
    BY <2>2 DEF KnownInv, OnlyNumbered, StackKnown
  <2>4. 1..numbered \subseteq Document
    <3>1. numbered + Cardinality(Starts) <= MaxDocuments
      BY DEF KnownInv, OnlyNumbered, StackKnown
    <3>2. Cardinality(Starts) \in Nat /\ numbered \in Nat /\ MaxDocuments \in Nat
      BY <2>1, CountsAreFinite, ParserAssumption DEF LoadInv, Types
    <3>3. QED
      BY <3>1, <3>2 DEF Document
  <2>5. EmissionOver \in SUBSET Document
    BY <2>3, <2>4 DEF EmissionOver, FrameKnown
  <2>6. QED
    BY <2>1, <2>5
<1>4. CASE CallbackReturns \/ UnrefParser
  <2>1. \E k : DropParser(k)
    BY <1>4 DEF CallbackReturns, UnrefParser
  <2>2. DropDocuments(Range(documents)) \/ DropDocuments({})
    BY <2>1 DEF DropParser
  <2>3. QED
    BY <1>2, <2>2
<1>5. CASE Reset
  BY <1>2, <1>5 DEF Reset
<1>6. ASSUME NEW i \in DOMAIN documents, StealDocument(i)
      PROVE  \E D \in SUBSET Document : DropDocuments(D)
  <2>1. DropDocuments({documents[i]}) /\ {documents[i]} \in SUBSET Document
    BY <1>2, <1>6 DEF StealDocument
  <2>2. QED
    BY <2>1
<1>7. ASSUME NEW d \in Document, UnrefDocument(d)
      PROVE  \E D \in SUBSET Document : DropDocuments(D)
  <2>1. DropDocuments({d}) /\ {d} \in SUBSET Document
    BY <1>7 DEF UnrefDocument
  <2>2. QED
    BY <2>1
<1>8. QED
  BY <1>3, <1>4, <1>5, <1>6, <1>7

\* Every step lets sealed documents keep their roots.
LEMMA StepsKeepRoots ==
  ASSUME KnownInv, Next
  PROVE  \A d \in Document : KeepsRoot(d)
<1>1. /\ doc \in [Document -> DocRecord] /\ node \in [Document -> RootRecord]
      /\ numbered \in Nat
  BY DEF KnownInv, TreeTypes, LoadInv, Types
<1>2. CASE \/ NextDocument \/ ParseError \/ EndOfStream \/ CallbackReturns \/ Reset \/ UnrefParser
           \/ \E i \in DOMAIN documents : StealDocument(i)
           \/ \E d \in Document : UnrefDocument(d)
  BY <1>2, DropSteps, DropKeepsRoots
<1>3. CASE UNCHANGED <<doc, node>>
  BY <1>3, SealsKeepRoots
<1>4. ASSUME NEW immutable \in BOOLEAN, FinishDocument(immutable)
      PROVE  \A d \in Document : KeepsRoot(d)
  <2> DEFINE x == numbered + 1
  <2>1. /\ doc'  = [doc EXCEPT ![x] = [refs |-> 2, root |-> x, sealed |-> immutable]]
        /\ node' = [node EXCEPT ![x] = [refs |-> 1, sealed |-> immutable]]
    BY <1>4 DEF FinishDocument
  <2>2. \A d \in Document : d # x => doc'[d] = doc[d] /\ node'[d] = node[d]
    BY <1>1, <2>1
  <2>3. \A d \in Document : d = x => doc[d].refs = 0 /\ ~(d <= numbered)
    BY <1>1, TreeFacts
  <2> HIDE DEF x
  <2>4. \A d \in Document : /\ doc[d].refs > 0 => doc'[d] = doc[d]
                            /\ d <= numbered => node'[d] = node[d]
    BY <2>2, <2>3
  <2>5. QED
    BY <2>4, SealsKeepRoots
<1>5. ASSUME NEW d \in Document, DupDocument(d)
      PROVE  \A e \in Document : KeepsRoot(e)
  <2>1. doc' = [doc EXCEPT ![d].refs = @ + 1] /\ node' = node
    BY <1>5 DEF DupDocument
  <2>2. \A e \in Document : doc'[e].root = doc[e].root
    BY <1>1, <2>1 DEF DocRecord
  <2>3. QED
    BY <2>1, <2>2, SealsKeepRoots
<1>6. ASSUME NEW d \in Document, UnrefNode(d) \/ DupRoot(d)
      PROVE  \A e \in Document : KeepsRoot(e)
  <2>1. doc' = doc /\ (node' = [node EXCEPT ![d].refs = @ - 1]
                       \/ node' = [node EXCEPT ![doc[d].root].refs = @ + 1])
    BY <1>6 DEF UnrefNode, DupRoot
  <2>2. \A e \in Document : node'[e].sealed = node[e].sealed
    BY <1>1, <2>1 DEF RootRecord
  <2>3. QED
    BY <2>1, <2>2, SealsKeepRoots
<1>7. ASSUME NEW d \in Document, StealRoot(d) \/ \E n \in Nodes : SetRoot(d, n)
      PROVE  \A e \in Document : KeepsRoot(e)
  <2>1. ~doc[d].sealed /\ \E n : doc' = [doc EXCEPT ![d].root = n]
    BY <1>7 DEF StealRoot, SetRoot
  <2>2. \A e \in Document : e # d => doc'[e] = doc[e]
    BY <1>1, <2>1
  <2>3. \A e \in Document : node'[e].sealed = node[e].sealed
    <3>1. CASE StealRoot(d)
      BY <3>1 DEF StealRoot
    <3>2. ASSUME NEW n, SetRoot(d, n)
          PROVE  \A e \in Document : node'[e].sealed = node[e].sealed
      <4>1. node' = [m \in Document |->
                      [node[m] EXCEPT !.refs = @ + (IF m = n THEN 1 ELSE 0)
                                                  - (IF m = doc[d].root THEN 1 ELSE 0)]]
        BY <3>2 DEF SetRoot
      <4>2. QED
        BY <1>1, <4>1 DEF RootRecord
    <3>3. QED
      BY <1>7, <3>1, <3>2
  <2>4. QED
    BY <2>1, <2>2, <2>3, SealsKeepRoots
<1>8. ASSUME NEW d \in Document, SealDocument(d)
      PROVE  \A e \in Document : KeepsRoot(e)
  <2>1. /\ doc' = [doc EXCEPT ![d].sealed = TRUE]
        /\ node' = [n \in Document |-> [node[n] EXCEPT !.sealed = @ \/ n = doc[d].root]]
    BY <1>8 DEF SealDocument
  <2>2. \A e \in Document : doc'[e].root = doc[e].root
    BY <1>1, <2>1 DEF DocRecord
  <2>3. \A e \in Document : node[e].sealed => node'[e].sealed
    BY <1>1, <2>1 DEF RootRecord
  <2>4. QED
    BY <2>2, <2>3, SealsKeepRoots
<1>9. ASSUME NEW l \in Load, \/ ReadDone(l) \/ ReadFails(l) \/ CallBack(l)
                             \/ LoadSync(l) \/ LoadAsync(l) \/ Cancel(l)
      PROVE  UNCHANGED <<doc, node>>
  BY <1>9 DEF ReadDone, ReadFails, CallBack, LoadSync, LoadAsync, Cancel, trees
<1>10. ParseReturns => UNCHANGED <<doc, node>>
  BY DEF ParseReturns, trees
<1>11. QED
  BY <1>2, <1>3, <1>4, <1>5, <1>6, <1>7, <1>8, <1>9, <1>10 DEF Next, Step, Call

\* A sealed document keeps its root, sealed, as long as it exists, although the root may be
\* shared with documents that are not sealed and that are given other roots: for any
\* number of documents, whether or not the program trusts steal_document.
THEOREM SealedRootsStay == Spec => SealedKeepsRoot
<1>1. KnownInv /\ [Next]_vars => [\A d \in Document : KeepsRoot(d)]_vars
  BY StepsKeepRoots
<1>2. [](KnownInv) /\ [][Next]_vars => [][\A d \in Document : KeepsRoot(d)]_vars
  BY <1>1, PTL
<1>3. Spec => [][\A d \in Document : KeepsRoot(d)]_vars
  BY <1>2, KnownIsInvariant, PTL DEF Spec
<1>4. QED
  BY <1>3 DEF KeepsRoot, SealedKeepsRoot

=============================================================================

--------------------------- MODULE WsTunnelProofs ---------------------------
(* Proofs about WsTunnel, for any frames and any number of them.                *)
EXTENDS WsTunnel, FiniteSetTheorems, TLAPS

\* Why nothing runs on when tunnelWebSocket has returned: a copy that is done
\* does not start again, and closed connections are not opened again.
IInv ==
    /\ handler \in {"first", "second", "returned"}
    /\ conns \subseteq Both
    /\ handler # "first" => conns = {}
    /\ handler = "returned" => BothDone

LEMMA InitInv == Init => IInv
  BY DEF Init, IInv, Both

\* The copies, the capture and the decoder leave the handler and the connections
\* alone, and whoever is done stays so.
LEMMA CopyStep ==
    ASSUME UpEnds \/ Receive \/ DownEnds \/ Forward \/ UpFails \/ DownFails \/ Capture \/ Decode
    PROVE  /\ UNCHANGED <<handler, conns>>
           /\ up = "done" => up' = "done"
           /\ down = "done" => down' = "done"
<1>1. CASE UpEnds \/ Receive \/ DownEnds \/ Forward \/ UpFails \/ DownFails
  BY <1>1 DEF UpEnds, Receive, DownEnds, Forward, UpFails, DownFails, Goto, tunnelVars
<1>2. CASE AbortCloses \/ AbortReceives \/ BeginText \/ BeginOther
  BY <1>2 DEF AbortCloses, AbortReceives, BeginText, BeginOther, Goto, tunnelVars
<1>3. CASE Payload \/ Written \/ FinishFrame \/ FinishText \/ FinishReceives
  BY <1>3 DEF Payload, Written, FinishFrame, FinishText, FinishReceives, Goto, tunnelVars
<1>4. CASE Decode
  BY <1>4 DEF Decode, DecoderReads, DecoderEnds, DecoderLeaves, DecoderFails, Decoder, tunnelVars
<1> QED BY <1>1, <1>2, <1>3, <1>4 DEF Capture

LEMMA InvStep == IInv /\ [Next]_vars => IInv'
<1> SUFFICES ASSUME IInv, [Next]_vars PROVE IInv'
  OBVIOUS
<1>1. CASE Cancel \/ CancelCloses \/ UNCHANGED vars
  BY <1>1 DEF Cancel, CancelCloses, CloseBoth, vars, tunnelVars, IInv, BothDone
<1>2. CASE FirstResult \/ SecondResult
  BY <1>2 DEF FirstResult, SecondResult, CloseBoth, IInv, BothDone
<1>3. CASE UpEnds \/ Receive \/ DownEnds \/ Forward \/ UpFails \/ DownFails \/ Capture \/ Decode
  BY <1>3, CopyStep DEF IInv, BothDone
<1> QED BY <1>1, <1>2, <1>3 DEF Next, Proxy

\* When tunnelWebSocket has returned, neither copy runs and both connections are
\* closed, whatever was sent, cancelled or broken off.
THEOREM NothingRunsOn == Spec => []QuietAfterReturn
<1>1. IInv => QuietAfterReturn
  BY DEF IInv, QuietAfterReturn, BothDone
<1> QED BY <1>1, InitInv, InvStep, PTL DEF Spec
----------------------------------------------------------------------------
(* The messages in a log of frames, followed frame by frame.                    *)

EndsAt(l, n) == l[n].op # "control" /\ l[n].fin

\* Frame i starts a text message that frame n belongs to.
Running(l, i, n) ==
    /\ l[i].op = "text"
    /\ \A k \in i + 1 .. n : l[k].op \in {"cont", "control"}
    /\ \A k \in i .. n - 1 : ~EndsAt(l, k)

\* ... and more of it may come.
Open(l, i, n) == Running(l, i, n) /\ ~EndsAt(l, n)

\* One of its frames up to n completes the JSON value.
HasEnd(l, i, n) == \E k \in i .. n : l[k].op # "control" /\ l[k].piece = "end"

\* Where the whole text messages start that end with frame n, or up to it.
WholeAt(l, n, c) ==
    {i \in 1 .. n : l[i].content = c /\ Running(l, i, n) /\ EndsAt(l, n) /\ HasEnd(l, i, n)}

WholeTo(l, n, c) ==
    {i \in 1 .. n : l[i].content = c /\
        \E j \in i .. n : Running(l, i, j) /\ EndsAt(l, j) /\ HasEnd(l, i, j)}

\* The property's messages are the ones the proof follows.
LEMMA WholeIsWholeTo ==
    ASSUME log \in Seq(Frames), NEW c
    PROVE  Whole(c) = WholeTo(log, Len(log), c)
<1>1. DOMAIN log = 1 .. Len(log)
  OBVIOUS
<1>2. ASSUME NEW i \in DOMAIN log, NEW j \in i .. Len(log)
      PROVE  /\ TextMessage(i, j) <=> (Running(log, i, j) /\ EndsAt(log, j))
             /\ (\E k \in i .. j : IsData(k) /\ log[k].piece = "end") <=> HasEnd(log, i, j)
  BY DEF TextMessage, IsData, Running, EndsAt, HasEnd
<1> QED BY <1>1, <1>2 DEF Whole, WholeTo

\* A frame goes on with the message before it, or starts one, or neither.
LEMMA RunningNext ==
    ASSUME NEW l, NEW n \in Nat
    PROVE  /\ \A i \in 1 .. n : Running(l, i, n + 1) <=>
                Open(l, i, n) /\ l[n + 1].op \in {"cont", "control"}
           /\ Running(l, n + 1, n + 1) <=> l[n + 1].op = "text"
<1>1. ASSUME NEW i \in 1 .. n
      PROVE  Running(l, i, n + 1) <=> Open(l, i, n) /\ l[n + 1].op \in {"cont", "control"}
  <2>1. /\ \A k : k \in i + 1 .. n + 1 <=> (k \in i + 1 .. n \/ k = n + 1)
        /\ \A k : k \in i .. (n + 1) - 1 <=> (k \in i .. n - 1 \/ k = n)
    OBVIOUS
  <2> QED BY <2>1 DEF Running, Open
<1>2. Running(l, n + 1, n + 1) <=> l[n + 1].op = "text"
  <2>1. /\ \A k : k \notin (n + 1) + 1 .. n + 1
        /\ \A k : k \notin n + 1 .. (n + 1) - 1
    OBVIOUS
  <2> QED BY <2>1 DEF Running
<1> QED BY <1>1, <1>2

LEMMA OneRunning ==
    ASSUME NEW l, NEW n \in Nat, NEW i \in 1 .. n, NEW j \in 1 .. n,
           Running(l, i, n), Running(l, j, n)
    PROVE  i = j
<1>1. CASE i < j
  BY <1>1 DEF Running
<1>2. CASE j < i
  BY <1>2 DEF Running
<1> QED BY <1>1, <1>2

\* What frame n adds to the whole messages; nothing of it was there before.
LEMMA WholeNext ==
    ASSUME NEW l, NEW n \in Nat, n > 0, NEW c
    PROVE  /\ WholeTo(l, n, c) = WholeTo(l, n - 1, c) \union WholeAt(l, n, c)
           /\ WholeTo(l, n - 1, c) \intersect WholeAt(l, n, c) = {}
<1>1. \A i : i \in 1 .. n <=> (i \in 1 .. n - 1 \/ i = n)
  OBVIOUS
<1>2. \A i \in 1 .. n : \A j : j \in i .. n <=> (j \in i .. n - 1 \/ j = n)
  OBVIOUS
<1>3. \A j : j \notin n .. n - 1
  OBVIOUS
<1>4. WholeTo(l, n, c) = WholeTo(l, n - 1, c) \union WholeAt(l, n, c)
  BY <1>1, <1>2, <1>3 DEF WholeTo, WholeAt
<1>5. WholeTo(l, n - 1, c) \intersect WholeAt(l, n, c) = {}
  BY DEF WholeTo, WholeAt, Running
<1> QED BY <1>4, <1>5

\* Nothing is whole that does not end, or lacks its end; and a message that ends is
\* the only one.
LEMMA WholeAtCases ==
    ASSUME NEW l, NEW n \in Nat, n > 0, NEW c
    PROVE  /\ ~EndsAt(l, n) => WholeAt(l, n, c) = {}
           /\ (\A i \in 1 .. n : ~Running(l, i, n)) => WholeAt(l, n, c) = {}
           /\ \A i \in 1 .. n : Running(l, i, n) /\ EndsAt(l, n) =>
                WholeAt(l, n, c) = IF l[i].content = c /\ HasEnd(l, i, n) THEN {i} ELSE {}
<1>1. ~EndsAt(l, n) => WholeAt(l, n, c) = {}
  BY DEF WholeAt
<1>2. (\A i \in 1 .. n : ~Running(l, i, n)) => WholeAt(l, n, c) = {}
  BY DEF WholeAt
<1>3. ASSUME NEW i \in 1 .. n, Running(l, i, n), EndsAt(l, n)
      PROVE  WholeAt(l, n, c) = IF l[i].content = c /\ HasEnd(l, i, n) THEN {i} ELSE {}
  <2>1. \A j \in 1 .. n : Running(l, j, n) => j = i
    BY <1>3, OneRunning
  <2> QED BY <1>3, <2>1 DEF WholeAt
<1> QED BY <1>1, <1>2, <1>3

\* The count of whole messages goes up by one with one that ends, else by nothing.
LEMMA WholeCount ==
    ASSUME NEW l, NEW n \in Nat, n > 0, NEW c
    PROVE  /\ WholeAt(l, n, c) = {} => WholeTo(l, n, c) = WholeTo(l, n - 1, c)
           /\ \A i : WholeAt(l, n, c) = {i} =>
                /\ WholeTo(l, n, c) # {}
                /\ Cardinality(WholeTo(l, n, c)) = Cardinality(WholeTo(l, n - 1, c)) + 1
<1>1. WholeAt(l, n, c) = {} => WholeTo(l, n, c) = WholeTo(l, n - 1, c)
  BY WholeNext
<1>2. IsFiniteSet(WholeTo(l, n - 1, c))
  <2>1. WholeTo(l, n - 1, c) \subseteq 1 .. n - 1
    BY DEF WholeTo
  <2> QED BY <2>1, FS_Interval, FS_Subset
<1>3. ASSUME NEW i, WholeAt(l, n, c) = {i}
      PROVE  /\ WholeTo(l, n, c) # {}
             /\ Cardinality(WholeTo(l, n, c)) = Cardinality(WholeTo(l, n - 1, c)) + 1
  <2>1. WholeTo(l, n, c) = WholeTo(l, n - 1, c) \union {i} /\ i \notin WholeTo(l, n - 1, c)
    BY <1>3, WholeNext
  <2> QED BY <1>2, <2>1, FS_AddElement
<1> QED BY <1>1, <1>3

\* Another frame leaves what was said of the earlier ones as it is.
LEMMA LogGrows ==
    ASSUME NEW l \in Seq(Frames), NEW f \in Frames, NEW n \in 0 .. Len(l)
    PROVE  /\ \A i \in 1 .. n : Append(l, f)[i] = l[i]
           /\ \A i \in 1 .. n : Running(Append(l, f), i, n) <=> Running(l, i, n)
           /\ \A i \in 1 .. n : Open(Append(l, f), i, n) <=> Open(l, i, n)
           /\ \A i \in 1 .. n : HasEnd(Append(l, f), i, n) <=> HasEnd(l, i, n)
           /\ \A c : WholeTo(Append(l, f), n, c) = WholeTo(l, n, c)
<1> DEFINE m == Append(l, f)
<1>1. \A k \in 1 .. n : m[k] = l[k]
  OBVIOUS
<1> HIDE DEF m
<1>2. \A j \in 1 .. n : EndsAt(m, j) <=> EndsAt(l, j)
  BY <1>1 DEF EndsAt
<1>3. ASSUME NEW i \in 1 .. n, NEW j \in i .. n
      PROVE  Running(m, i, j) <=> Running(l, i, j)
  <2>1. \A k \in i + 1 .. j : m[k] = l[k]
    BY <1>1
  <2>2. \A k \in i .. j - 1 : EndsAt(m, k) <=> EndsAt(l, k)
    BY <1>2
  <2>3. m[i] = l[i]
    BY <1>1
  <2> QED BY <2>1, <2>2, <2>3 DEF Running
<1>4. ASSUME NEW i \in 1 .. n, NEW j \in i .. n
      PROVE  HasEnd(m, i, j) <=> HasEnd(l, i, j)
  <2>1. \A k \in i .. j : m[k] = l[k]
    BY <1>1
  <2> QED BY <2>1 DEF HasEnd
<1>5. \A i \in 1 .. n : n \in i .. n
  OBVIOUS
<1>6. ASSUME NEW c PROVE WholeTo(m, n, c) = WholeTo(l, n, c)
  <2>1. \A i \in 1 .. n : \A j \in i .. n :
            (Running(m, i, j) /\ EndsAt(m, j) /\ HasEnd(m, i, j))
            <=> (Running(l, i, j) /\ EndsAt(l, j) /\ HasEnd(l, i, j))
    BY <1>2, <1>3, <1>4
  <2> QED BY <1>1, <2>1 DEF WholeTo
<1>7. \A i \in 1 .. n : Running(m, i, n) <=> Running(l, i, n)
  BY <1>3, <1>5
<1>8. \A i \in 1 .. n : Open(m, i, n) <=> Open(l, i, n)
  BY <1>2, <1>7 DEF Open
<1>9. \A i \in 1 .. n : HasEnd(m, i, n) <=> HasEnd(l, i, n)
  BY <1>4, <1>5
<1> QED BY <1>1, <1>6, <1>7, <1>8, <1>9 DEF m
----------------------------------------------------------------------------
(* The inductive invariant of the capture: at each place of it, what the proxy  *)
(* keeps of the frames is what the log says of them.                            *)

Reading == down \in {"read", "forward"}
InFrame == down \in {"begin", "abort", "payload", "write", "finish", "result"}

\* messageOpcode, contents and value, before frame n + 1 or where none is.
Tracks(n) ==
    \/ /\ message = "text"
       /\ \E i \in 1 .. n : /\ Open(log, i, n) /\ content = log[i].content
                            /\ body = "whole" <=> HasEnd(log, i, n)
    \/ message \in {"none", "binary"} /\ \A i \in 1 .. n : ~Open(log, i, n)

\* The same in the midst of the last frame, of which the first k are written.
InMessage(k) ==
    \/ /\ message = "text"
       /\ \E i \in 1 .. Len(log) : /\ Running(log, i, Len(log)) /\ content = log[i].content
                                   /\ body = "whole" <=> HasEnd(log, i, k)
    \/ message \in {"none", "binary"} /\ \A i \in 1 .. Len(log) : ~Running(log, i, Len(log))

\* Between two writes the decoder waits for more, or has the whole value.
Settled ==
    \/ decoder = "reading" /\ body = "open" /\ pipe = "empty"
    \/ decoder = "returned" /\ body = "whole" /\ pipe = "empty" /\ outcome = content

NoDecoder == decoder = "none"

Decoding == IF message = "text" THEN Settled ELSE NoDecoder

\* A piece is offered, was read, or is never read to its end.
Offered ==
    \/ decoder = "reading" /\ body = "open" /\ pipe = frame.piece /\ pipe # "none"
    \/ decoder = "reading" /\ body = "open" /\ pipe = "empty" /\ frame.piece = "part"
    \/ decoder = "returned" /\ body = "open" /\ pipe = "empty" /\ frame.piece = "end" /\ outcome = content
    \/ decoder = "returned" /\ pipe # "empty"

Awaited ==
    /\ pipe = "closed"
    /\ \/ body = "whole" /\ decoder = "returned" /\ outcome = content
       \/ body = "open" /\ decoder = "reading"
       \/ body = "open" /\ decoder = "returned" /\ outcome = "error"

StartsAnother == frame.op \in {"text", "binary"}

CaptureFollows ==
    /\ Reading => Tracks(Len(log)) /\ Decoding
    /\ down = "begin" =>
        /\ Tracks(Len(log) - 1)
        /\ (message = "text" /\ Settled) \/ (NoDecoder /\ (message = "text" => StartsAnother))
    /\ down = "abort" =>
        /\ Tracks(Len(log) - 1)
        /\ message = "text" /\ decoder # "none" /\ pipe = "aborted" /\ StartsAnother
    /\ down = "payload" => InMessage(Len(log) - 1) /\ Decoding
    /\ down = "write" =>
        /\ InMessage(Len(log) - 1)
        /\ message = "text" /\ frame.op # "control" /\ Offered
    /\ down = "finish" => InMessage(Len(log)) /\ Decoding
    /\ down = "result" =>
        /\ InMessage(Len(log))
        /\ message = "text" /\ EndsAt(log, Len(log)) /\ Awaited

CaptureTyped ==
    /\ down \in {"read", "forward", "done"} \/ InFrame
    /\ log \in Seq(Frames)
    /\ down = "forward" => frame \in Frames
    /\ InFrame => Len(log) > 0 /\ frame = log[Len(log)]
    /\ content \in {"usage", "limit", "other"} /\ body \in {"open", "whole"}
    /\ decoder \in {"none", "reading", "returned"}
    /\ usages \in Nat /\ limits \in {0, 1}

\* How far the log is counted: usage when the decoder is done, the limit before.
UsageCounted ==
    /\ Reading => usages = Cardinality(WholeTo(log, Len(log), "usage"))
    /\ InFrame => usages = Cardinality(WholeTo(log, Len(log) - 1, "usage"))

LimitCounted ==
    /\ Reading \/ down = "result" => (limits = 1 <=> WholeTo(log, Len(log), "limit") # {})
    /\ InFrame /\ down # "result" => (limits = 1 <=> WholeTo(log, Len(log) - 1, "limit") # {})

CaptureInv == CaptureTyped /\ CaptureFollows /\ UsageCounted /\ LimitCounted
LEMMA HasEndNext ==
    ASSUME NEW l, NEW n \in Nat, n > 0, NEW i \in 1 .. n
    PROVE  HasEnd(l, i, n) <=> HasEnd(l, i, n - 1) \/ (l[n].op # "control" /\ l[n].piece = "end")
<1>1. \A k : k \in i .. n <=> (k \in i .. n - 1 \/ k = n)
  OBVIOUS
<1> QED BY <1>1 DEF HasEnd

LEMMA CaptureInit == Init => CaptureInv
<1> SUFFICES ASSUME Init PROVE CaptureInv
  OBVIOUS
<1>1. /\ log = <<>> /\ Len(log) = 0 /\ down = "read" /\ message = "none"
      /\ decoder = "none" /\ usages = 0 /\ limits = 0 /\ content = "other" /\ body = "open"
  BY DEF Init
<1>2. \A c : WholeTo(log, Len(log), c) = {}
  BY <1>1 DEF WholeTo
<1>3. Tracks(Len(log))
  BY <1>1 DEF Tracks
<1>4. CaptureTyped
  BY <1>1 DEF CaptureTyped, InFrame
<1>5. UsageCounted /\ LimitCounted
  BY <1>1, <1>2, FS_EmptySet DEF UsageCounted, LimitCounted, InFrame
<1>6. CaptureFollows
  BY <1>1, <1>3 DEF CaptureFollows, Decoding, NoDecoder
<1> QED BY <1>4, <1>5, <1>6 DEF CaptureInv

\* What the handler and the other direction do leaves all of this alone.
LEMMA SameCapture ==
    ASSUME CaptureInv, UNCHANGED <<down, frame, captureVars, log>>
    PROVE  CaptureInv'
<1> USE DEF captureVars, textVars
<1>1. CaptureTyped'
  BY DEF CaptureInv, CaptureTyped, InFrame
<1>2. CaptureFollows'
  BY DEF CaptureInv, CaptureFollows, Reading, Tracks, InMessage, Decoding, NoDecoder, Settled,
         Offered, Awaited, StartsAnother
<1>3. UsageCounted' /\ LimitCounted'
  BY DEF CaptureInv, UsageCounted, LimitCounted, Reading, InFrame
<1> QED BY <1>1, <1>2, <1>3 DEF CaptureInv

----------------------------------------------------------------------------
(* One step of the copy each.                                                   *)

LEMMA ReceiveKeeps == ASSUME CaptureInv, Receive PROVE CaptureInv'
<1> USE DEF Receive, Goto, captureVars, textVars
<1>1. CaptureTyped'
  BY DEF CaptureInv, CaptureTyped, InFrame
<1>2. CaptureFollows'
  BY DEF CaptureInv, CaptureFollows, Reading, Tracks, Decoding, NoDecoder, Settled
<1>3. UsageCounted' /\ LimitCounted'
  BY DEF CaptureInv, UsageCounted, LimitCounted, Reading, InFrame
<1> QED BY <1>1, <1>2, <1>3 DEF CaptureInv

LEMMA DownEndsKeeps == ASSUME CaptureInv, DownEnds PROVE CaptureInv'
BY DEF CaptureInv, DownEnds, Goto, captureVars, textVars,
       CaptureTyped, CaptureFollows, UsageCounted, LimitCounted, Reading, InFrame

LEMMA ForwardKeeps == ASSUME CaptureInv, Forward PROVE CaptureInv'
<1> DEFINE n == Len(log)
<1>1. /\ down = "forward" /\ down' = "begin" /\ log' = Append(log, frame) /\ frame' = frame
      /\ UNCHANGED <<message, content, body, decoder, outcome, pipe, usages, limits>>
  BY DEF Forward, Goto, captureVars, textVars
<1>2. log \in Seq(Frames) /\ frame \in Frames /\ n \in Nat
  BY <1>1 DEF CaptureInv, CaptureTyped
<1>3. log' \in Seq(Frames) /\ Len(log') = n + 1 /\ log'[n + 1] = frame
  BY <1>1, <1>2
<1>4. CaptureTyped'
  BY <1>1, <1>3 DEF CaptureInv, CaptureTyped, InFrame
<1>5. /\ \A i \in 1 .. n : log'[i] = log[i]
      /\ \A i \in 1 .. n : Open(log', i, n) <=> Open(log, i, n)
      /\ \A i \in 1 .. n : HasEnd(log', i, n) <=> HasEnd(log, i, n)
      /\ \A c : WholeTo(log', n, c) = WholeTo(log, n, c)
  BY <1>1, <1>2, LogGrows
<1>6. Len(log') - 1 = n
  BY <1>2, <1>3
<1>7. CaptureFollows'
  <2>1. Tracks(n) /\ Decoding
    BY <1>1 DEF CaptureInv, CaptureFollows, Reading
  <2>2. \/ /\ message' = "text"
           /\ \E i \in 1 .. n : /\ Open(log', i, n) /\ content' = log'[i].content
                                /\ body' = "whole" <=> HasEnd(log', i, n)
        \/ message' \in {"none", "binary"} /\ \A i \in 1 .. n : ~Open(log', i, n)
    BY <1>1, <1>5, <2>1 DEF Tracks
  <2>3. Tracks(Len(log) - 1)'
    BY <1>6, <2>2 DEF Tracks
  <2> QED BY <1>1, <2>1, <2>3 DEF CaptureFollows, Reading, Decoding, Settled, NoDecoder
<1>8. UsageCounted' /\ LimitCounted'
  BY <1>1, <1>5, <1>6 DEF CaptureInv, UsageCounted, LimitCounted, Reading, InFrame
<1> QED BY <1>4, <1>7, <1>8 DEF CaptureInv

----------------------------------------------------------------------------
(* websocketUsageCapture.Write.                                                 *)

LEMMA AbortKeeps == ASSUME CaptureInv, AbortCloses \/ AbortReceives PROVE CaptureInv'
<1> USE DEF AbortCloses, AbortReceives, Goto
<1>1. CaptureTyped'
  BY DEF CaptureInv, CaptureTyped, InFrame
<1>2. CaptureFollows'
  BY DEF CaptureInv, CaptureFollows, Reading, Tracks, NoDecoder, StartsAnother, Capturing
<1>3. UsageCounted' /\ LimitCounted'
  BY DEF CaptureInv, UsageCounted, LimitCounted, Reading, InFrame
<1> QED BY <1>1, <1>2, <1>3 DEF CaptureInv

\* What the lemmas on the log need of the state in the midst of a frame.
LEMMA InFrameLog ==
    ASSUME CaptureInv, InFrame
    PROVE  /\ Len(log) \in Nat /\ Len(log) > 0 /\ Len(log) - 1 \in Nat
           /\ (Len(log) - 1) + 1 = Len(log)
           /\ frame = log[Len(log)] /\ frame \in Frames
           /\ frame.op \in {"text", "binary", "cont", "control"}
           /\ frame.piece \in {"none", "part", "end", "surplus"}
           /\ Running(log, Len(log), Len(log)) <=> frame.op = "text"
           /\ \A i \in 1 .. Len(log) - 1 : Running(log, i, Len(log)) <=>
                Open(log, i, Len(log) - 1) /\ frame.op \in {"cont", "control"}
           /\ \A i : i \in 1 .. Len(log) <=> (i \in 1 .. Len(log) - 1 \/ i = Len(log))
           /\ EndsMessage <=> EndsAt(log, Len(log))
<1> DEFINE n == Len(log)
<1>1. n \in Nat /\ n > 0 /\ frame = log[n] /\ frame \in Frames
  BY DEF CaptureInv, CaptureTyped
<1>2. n - 1 \in Nat /\ (n - 1) + 1 = n
  BY <1>1
<1>3. /\ frame.op \in {"text", "binary", "cont", "control"}
      /\ frame.piece \in {"none", "part", "end", "surplus"}
  BY <1>1, FramesAssumption
<1>4. /\ Running(log, n, n) <=> frame.op = "text"
      /\ \A i \in 1 .. n - 1 : Running(log, i, n) <=>
            Open(log, i, n - 1) /\ frame.op \in {"cont", "control"}
  <2>1. /\ \A i \in 1 .. n - 1 : Running(log, i, (n - 1) + 1) <=>
                Open(log, i, n - 1) /\ log[(n - 1) + 1].op \in {"cont", "control"}
        /\ Running(log, (n - 1) + 1, (n - 1) + 1) <=> log[(n - 1) + 1].op = "text"
    BY <1>2, RunningNext
  <2> QED BY <1>1, <1>2, <2>1
<1>5. \A i : i \in 1 .. n <=> (i \in 1 .. n - 1 \/ i = n)
  BY <1>1
<1>6. EndsMessage <=> EndsAt(log, n)
  BY <1>1 DEF EndsMessage, EndsAt
<1> QED BY <1>1, <1>2, <1>3, <1>4, <1>5, <1>6

LEMMA BeginTextKeeps == ASSUME CaptureInv, BeginText PROVE CaptureInv'
<1> DEFINE n == Len(log)
<1>1. /\ down = "begin" /\ down' = "payload" /\ frame.op = "text" /\ message' = "text"
      /\ content' = frame.content /\ body' = "open" /\ decoder' = "reading" /\ pipe' = "empty"
      /\ UNCHANGED <<log, frame, usages, limits>>
  BY DEF BeginText, Goto
<1>2. InFrame
  BY <1>1 DEF InFrame
<1>3. CaptureTyped'
  <2>1. frame.content \in {"usage", "limit", "other"}
    BY <1>2, InFrameLog, FramesAssumption
  <2> QED BY <1>1, <2>1 DEF CaptureInv, CaptureTyped, InFrame
<1>4. InMessage(Len(log) - 1)'
  <2>1. n \in 1 .. n /\ Running(log, n, n) /\ frame.content = log[n].content
    BY <1>1, <1>2, InFrameLog
  <2>2. ~HasEnd(log, n, n - 1)
    BY <1>2, InFrameLog DEF HasEnd
  <2> QED BY <1>1, <2>1, <2>2 DEF InMessage
<1>5. CaptureFollows'
  BY <1>1, <1>4 DEF CaptureFollows, Reading, Decoding, Settled
<1>6. UsageCounted' /\ LimitCounted'
  BY <1>1 DEF CaptureInv, UsageCounted, LimitCounted, Reading, InFrame
<1> QED BY <1>3, <1>5, <1>6 DEF CaptureInv

LEMMA BeginOtherKeeps == ASSUME CaptureInv, BeginOther PROVE CaptureInv'
<1> DEFINE n == Len(log)
<1>1. /\ down = "begin" /\ down' = "payload" /\ frame.op # "text"
      /\ frame.op = "binary" => decoder = "none"
      /\ message' = IF frame.op = "binary" THEN "binary" ELSE message
      /\ UNCHANGED <<log, frame, content, body, decoder, outcome, pipe, usages, limits>>
  BY DEF BeginOther, Goto, textVars, Capturing
<1>2. InFrame
  BY <1>1 DEF InFrame
<1>3. CaptureTyped'
  BY <1>1 DEF CaptureInv, CaptureTyped, InFrame
<1>4. /\ Tracks(n - 1)
      /\ (message = "text" /\ Settled) \/ (NoDecoder /\ (message = "text" => StartsAnother))
  BY <1>1 DEF CaptureInv, CaptureFollows
<1>5. InMessage(Len(log) - 1)' /\ Decoding'
  <2>1. CASE frame.op = "binary"
    <3>1. \A i \in 1 .. n : ~Running(log, i, n)
      BY <1>2, <2>1, InFrameLog
    <3> QED BY <1>1, <2>1, <3>1 DEF InMessage, Decoding, NoDecoder
  <2>2. CASE frame.op # "binary"
    <3>1. frame.op \in {"cont", "control"} /\ ~StartsAnother
      BY <1>1, <1>2, <2>2, InFrameLog DEF StartsAnother
    <3>2. CASE message = "text"
      <4>1. Settled
        BY <1>4, <3>1, <3>2
      <4>2. PICK i \in 1 .. n - 1 : /\ Open(log, i, n - 1) /\ content = log[i].content
                                    /\ body = "whole" <=> HasEnd(log, i, n - 1)
        BY <1>4, <3>2 DEF Tracks
      <4>3. i \in 1 .. n /\ Running(log, i, n)
        BY <1>2, <3>1, <4>2, InFrameLog
      <4> QED BY <1>1, <2>2, <3>2, <4>1, <4>2, <4>3 DEF InMessage, Decoding, Settled
    <3>3. CASE message # "text"
      <4>1. message \in {"none", "binary"} /\ \A i \in 1 .. n - 1 : ~Open(log, i, n - 1)
        BY <1>4, <3>3 DEF Tracks
      <4>2. \A i \in 1 .. n : ~Running(log, i, n)
        BY <1>1, <1>2, <4>1, InFrameLog
      <4> QED BY <1>1, <1>4, <2>2, <3>3, <4>1, <4>2 DEF InMessage, Decoding, NoDecoder
    <3> QED BY <3>2, <3>3
  <2> QED BY <2>1, <2>2
<1>6. CaptureFollows'
  BY <1>1, <1>5 DEF CaptureFollows, Reading
<1>7. UsageCounted' /\ LimitCounted'
  BY <1>1 DEF CaptureInv, UsageCounted, LimitCounted, Reading, InFrame
<1> QED BY <1>3, <1>6, <1>7 DEF CaptureInv

LEMMA PayloadKeeps == ASSUME CaptureInv, Payload PROVE CaptureInv'
<1> DEFINE n == Len(log)
<1>1. /\ down = "payload"
      /\ UNCHANGED <<log, frame, message, content, body, decoder, outcome, usages, limits>>
      /\ \/ IsText /\ frame.piece # "none" /\ pipe' = frame.piece /\ down' = "write"
         \/ ~(IsText /\ frame.piece # "none") /\ pipe' = pipe /\ down' = "finish"
  BY DEF Payload, Goto
<1>2. InFrame
  BY <1>1 DEF InFrame
<1>3. CaptureTyped'
  BY <1>1 DEF CaptureInv, CaptureTyped, InFrame
<1>4. InMessage(n - 1) /\ Decoding
  BY <1>1 DEF CaptureInv, CaptureFollows
<1>5. ASSUME down' = "write" PROVE CaptureFollows'
  <2>1. IsText /\ frame.piece # "none" /\ pipe' = frame.piece
    BY <1>1, <1>5
  <2>2. message = "text"
    <3>1. ASSUME frame.op = "text" PROVE message = "text"
      <4>1. n \in 1 .. n /\ Running(log, n, n)
        BY <1>2, <3>1, InFrameLog
      <4> QED BY <1>4, <4>1 DEF InMessage
    <3> QED BY <2>1, <3>1 DEF IsText
  <2>3. frame.op # "control"
    BY <2>1 DEF IsText
  <2>4. Offered'
    BY <1>1, <1>2, <1>4, <2>1, <2>2, InFrameLog DEF Decoding, Settled, Offered
  <2>5. InMessage(Len(log) - 1)'
    BY <1>1, <1>4 DEF InMessage
  <2> QED BY <1>1, <1>5, <2>2, <2>3, <2>4, <2>5 DEF CaptureFollows, Reading
<1>6. ASSUME down' = "finish" PROVE CaptureFollows'
  <2>1. ~(IsText /\ frame.piece # "none") /\ pipe' = pipe
    BY <1>1, <1>6
  <2>2. Decoding'
    BY <1>1, <1>4, <2>1 DEF Decoding, Settled, NoDecoder
  <2>3. InMessage(Len(log))'
    <3>1. CASE message = "text"
      <4>1. PICK i \in 1 .. n : /\ Running(log, i, n) /\ content = log[i].content
                                /\ body = "whole" <=> HasEnd(log, i, n - 1)
        BY <1>4, <3>1 DEF InMessage
      <4>2. frame.op = "control" \/ frame.piece = "none"
        BY <1>2, <2>1, <3>1, <4>1, InFrameLog DEF IsText
      <4>3. HasEnd(log, i, n) <=> HasEnd(log, i, n - 1)
        BY <1>2, <4>2, InFrameLog, HasEndNext
      <4> QED BY <1>1, <3>1, <4>1, <4>3 DEF InMessage
    <3>2. CASE message # "text"
      BY <1>1, <1>4, <3>2 DEF InMessage
    <3> QED BY <3>1, <3>2
  <2> QED BY <1>1, <1>6, <2>2, <2>3 DEF CaptureFollows, Reading
<1>7. UsageCounted' /\ LimitCounted'
  BY <1>1 DEF CaptureInv, UsageCounted, LimitCounted, Reading, InFrame
<1> QED BY <1>1, <1>3, <1>5, <1>6, <1>7 DEF CaptureInv

LEMMA WrittenKeeps == ASSUME CaptureInv, Written PROVE CaptureInv'
<1> DEFINE n == Len(log)
<1>1. /\ down = "write" /\ down' = "finish" /\ pipe = "empty"
      /\ body' = IF frame.piece = "end" THEN "whole" ELSE body
      /\ UNCHANGED <<log, frame, message, content, decoder, outcome, pipe, usages, limits>>
  BY DEF Written, Goto
<1>2. InFrame
  BY <1>1 DEF InFrame
<1>3. CaptureTyped'
  BY <1>1 DEF CaptureInv, CaptureTyped, InFrame
<1>4. InMessage(n - 1) /\ message = "text" /\ frame.op # "control" /\ Offered
  BY <1>1 DEF CaptureInv, CaptureFollows
<1>5. /\ body = "open"
      /\ \/ decoder = "reading" /\ frame.piece = "part"
         \/ decoder = "returned" /\ frame.piece = "end" /\ outcome = content
  BY <1>1, <1>2, <1>4, InFrameLog DEF Offered
<1>6. Decoding'
  BY <1>1, <1>4, <1>5 DEF Decoding, Settled
<1>7. InMessage(Len(log))'
  <2>1. PICK i \in 1 .. n : /\ Running(log, i, n) /\ content = log[i].content
                            /\ body = "whole" <=> HasEnd(log, i, n - 1)
    BY <1>4 DEF InMessage
  <2>2. HasEnd(log, i, n) <=> HasEnd(log, i, n - 1) \/ frame.piece = "end"
    BY <1>2, <1>4, InFrameLog, HasEndNext
  <2>3. body' = "whole" <=> HasEnd(log, i, n)
    BY <1>1, <1>5, <2>1, <2>2
  <2> QED BY <1>1, <1>4, <2>1, <2>3 DEF InMessage
<1>8. CaptureFollows'
  BY <1>1, <1>6, <1>7 DEF CaptureFollows, Reading
<1>9. UsageCounted' /\ LimitCounted'
  BY <1>1 DEF CaptureInv, UsageCounted, LimitCounted, Reading, InFrame
<1> QED BY <1>3, <1>8, <1>9 DEF CaptureInv

LEMMA FinishFrameKeeps == ASSUME CaptureInv, FinishFrame PROVE CaptureInv'
<1> DEFINE n == Len(log)
<1>1. /\ down = "finish" /\ down' = "read" /\ ~(EndsMessage /\ message = "text")
      /\ message' = IF EndsMessage THEN "none" ELSE message
      /\ UNCHANGED <<log, frame, content, body, decoder, outcome, pipe, usages, limits>>
  BY DEF FinishFrame, Goto, textVars
<1>2. InFrame
  BY <1>1 DEF InFrame
<1>3. CaptureTyped'
  BY <1>1 DEF CaptureInv, CaptureTyped, InFrame
<1>4. InMessage(n) /\ Decoding
  BY <1>1 DEF CaptureInv, CaptureFollows
<1>5. CASE message = "text"
  <2>1. ~EndsAt(log, n) /\ message' = "text"
    BY <1>1, <1>2, <1>5, InFrameLog
  <2>2. Tracks(Len(log))'
    BY <1>1, <1>4, <1>5, <2>1 DEF InMessage, Tracks, Open
  <2>3. Decoding'
    BY <1>1, <1>4, <1>5, <2>1 DEF Decoding, Settled
  <2>4. \A c : WholeTo(log, n, c) = WholeTo(log, n - 1, c)
    <3> SUFFICES ASSUME NEW c PROVE WholeTo(log, n, c) = WholeTo(log, n - 1, c)
      OBVIOUS
    <3>1. WholeAt(log, n, c) = {}
      BY <1>2, <2>1, InFrameLog, WholeAtCases
    <3> QED BY <1>2, <3>1, InFrameLog, WholeCount
  <2>5. CaptureFollows'
    BY <1>1, <2>2, <2>3 DEF CaptureFollows, Reading
  <2>6. UsageCounted' /\ LimitCounted'
    BY <1>1, <2>4 DEF CaptureInv, UsageCounted, LimitCounted, Reading, InFrame
  <2> QED BY <1>3, <2>5, <2>6 DEF CaptureInv
<1>6. CASE message # "text"
  <2>1. \A i \in 1 .. n : ~Running(log, i, n)
    BY <1>4, <1>6 DEF InMessage
  <2>2. message' \in {"none", "binary"}
    BY <1>1, <1>4, <1>6 DEF InMessage
  <2>3. Tracks(Len(log))'
    BY <1>1, <2>1, <2>2 DEF Tracks, Open
  <2>4. Decoding'
    BY <1>1, <1>4, <1>6, <2>2 DEF Decoding, NoDecoder
  <2>5. \A c : WholeTo(log, n, c) = WholeTo(log, n - 1, c)
    <3> SUFFICES ASSUME NEW c PROVE WholeTo(log, n, c) = WholeTo(log, n - 1, c)
      OBVIOUS
    <3>1. WholeAt(log, n, c) = {}
      BY <1>2, <2>1, InFrameLog, WholeAtCases
    <3> QED BY <1>2, <3>1, InFrameLog, WholeCount
  <2>6. CaptureFollows'
    BY <1>1, <2>3, <2>4 DEF CaptureFollows, Reading
  <2>7. UsageCounted' /\ LimitCounted'
    BY <1>1, <2>5 DEF CaptureInv, UsageCounted, LimitCounted, Reading, InFrame
  <2> QED BY <1>3, <2>6, <2>7 DEF CaptureInv
<1> QED BY <1>5, <1>6

LEMMA FinishTextKeeps == ASSUME CaptureInv, FinishText PROVE CaptureInv'
<1> DEFINE n == Len(log)
<1>1. /\ down = "finish" /\ down' = "result" /\ EndsMessage /\ message = "text"
      /\ limits' = IF content = "limit" /\ body = "whole" THEN MarkLimit ELSE limits
      /\ pipe' = "closed"
      /\ UNCHANGED <<log, frame, message, content, body, decoder, outcome, usages>>
  BY DEF FinishText, Goto
<1>2. InFrame
  BY <1>1 DEF InFrame
<1>3. CaptureTyped'
  BY <1>1 DEF CaptureInv, CaptureTyped, InFrame, MarkLimit
<1>4. InMessage(n) /\ Settled
  BY <1>1 DEF CaptureInv, CaptureFollows, Decoding
<1>5. EndsAt(log, n)
  BY <1>1, <1>2, InFrameLog
<1>6. PICK i \in 1 .. n : /\ Running(log, i, n) /\ content = log[i].content
                          /\ body = "whole" <=> HasEnd(log, i, n)
  BY <1>1, <1>4 DEF InMessage
<1>7. WholeAt(log, n, "limit") = IF content = "limit" /\ body = "whole" THEN {i} ELSE {}
  BY <1>2, <1>5, <1>6, InFrameLog, WholeAtCases
<1>8. limits = 1 <=> WholeTo(log, n - 1, "limit") # {}
  BY <1>1, <1>2 DEF CaptureInv, LimitCounted
<1>9. limits' = 1 <=> WholeTo(log, n, "limit") # {}
  <2>1. WholeTo(log, n, "limit") = WholeTo(log, n - 1, "limit") \union WholeAt(log, n, "limit")
    BY <1>2, InFrameLog, WholeNext
  <2> QED BY <1>1, <1>7, <1>8, <2>1 DEF MarkLimit, CaptureInv, CaptureTyped
<1>10. CaptureFollows'
  <2>1. InMessage(Len(log))'
    BY <1>1, <1>4 DEF InMessage
  <2>2. EndsAt(log, Len(log))'
    BY <1>1, <1>5
  <2>3. Awaited'
    BY <1>1, <1>4 DEF Settled, Awaited
  <2> QED BY <1>1, <2>1, <2>2, <2>3 DEF CaptureFollows, Reading
<1>11. UsageCounted' /\ LimitCounted'
  BY <1>1, <1>2, <1>9 DEF CaptureInv, UsageCounted, LimitCounted, Reading, InFrame
<1> QED BY <1>3, <1>10, <1>11 DEF CaptureInv

LEMMA FinishReceivesKeeps == ASSUME CaptureInv, FinishReceives PROVE CaptureInv'
<1> DEFINE n == Len(log)
<1>1. /\ down = "result" /\ down' = "read" /\ decoder = "returned" /\ decoder' = "none"
      /\ usages' = IF outcome = "usage" THEN usages + 1 ELSE usages
      /\ message' = "none"
      /\ UNCHANGED <<log, frame, content, body, outcome, pipe, limits>>
  BY DEF FinishReceives, Goto, ResetMessage
<1>2. InFrame
  BY <1>1 DEF InFrame
<1>3. CaptureTyped'
  BY <1>1 DEF CaptureInv, CaptureTyped, InFrame
<1>4. InMessage(n) /\ message = "text" /\ EndsAt(log, n) /\ Awaited
  BY <1>1 DEF CaptureInv, CaptureFollows
<1>5. PICK i \in 1 .. n : /\ Running(log, i, n) /\ content = log[i].content
                          /\ body = "whole" <=> HasEnd(log, i, n)
  BY <1>4 DEF InMessage
<1>6. outcome = "usage" <=> content = "usage" /\ body = "whole"
  BY <1>1, <1>4 DEF Awaited
<1>7. WholeAt(log, n, "usage") = IF outcome = "usage" THEN {i} ELSE {}
  BY <1>2, <1>4, <1>5, <1>6, InFrameLog, WholeAtCases
<1>8. usages' = Cardinality(WholeTo(log, n, "usage"))
  <2>1. usages = Cardinality(WholeTo(log, n - 1, "usage"))
    BY <1>1, <1>2 DEF CaptureInv, UsageCounted
  <2>2. CASE outcome = "usage"
    <3>1. Cardinality(WholeTo(log, n, "usage")) = Cardinality(WholeTo(log, n - 1, "usage")) + 1
      BY <1>2, <1>7, <2>2, InFrameLog, WholeCount
    <3> QED BY <1>1, <2>1, <2>2, <3>1
  <2>3. CASE outcome # "usage"
    <3>1. WholeTo(log, n, "usage") = WholeTo(log, n - 1, "usage")
      BY <1>2, <1>7, <2>3, InFrameLog, WholeCount
    <3> QED BY <1>1, <2>1, <2>3, <3>1
  <2> QED BY <2>2, <2>3
<1>9. CaptureFollows'
  <2>1. Tracks(Len(log))'
    BY <1>1, <1>4 DEF Tracks, Open
  <2> QED BY <1>1, <2>1 DEF CaptureFollows, Reading, Decoding, NoDecoder
<1>10. UsageCounted' /\ LimitCounted'
  BY <1>1, <1>8 DEF CaptureInv, UsageCounted, LimitCounted, Reading, InFrame
<1> QED BY <1>3, <1>9, <1>10 DEF CaptureInv

\* The decoding goroutine runs beside the copy, wherever that is.
LEMMA DecodeKeeps == ASSUME CaptureInv, Decode PROVE CaptureInv'
<1>1. /\ decoder = "reading"
      /\ UNCHANGED <<down, frame, message, content, body, usages, limits, log>>
      /\ \/ pipe = "part" /\ decoder' = "reading" /\ pipe' = "empty"
         \/ pipe = "end" /\ decoder' = "returned" /\ outcome' = content /\ pipe' = "empty"
         \/ pipe = "surplus" /\ decoder' = "returned" /\ outcome' = content /\ pipe' = "surplus"
         \/ /\ pipe \in {"closed", "aborted"}
            /\ decoder' = "returned" /\ outcome' = "error" /\ pipe' = pipe
  BY DEF Decode, DecoderReads, DecoderEnds, DecoderLeaves, DecoderFails, Decoder
<1>2. CaptureTyped'
  BY <1>1 DEF CaptureInv, CaptureTyped, InFrame
<1>3. UsageCounted' /\ LimitCounted'
  BY <1>1 DEF CaptureInv, UsageCounted, LimitCounted, Reading, InFrame
<1>4. ~Settled /\ ~NoDecoder
  BY <1>1 DEF Settled, NoDecoder
<1>5. /\ ~Reading
      /\ down \notin {"begin", "payload", "finish"}
  BY <1>4 DEF CaptureInv, CaptureFollows, Decoding
<1>6. CaptureFollows'
  <2>1. ~Reading' /\ down' \notin {"begin", "payload", "finish"}
    BY <1>1, <1>5 DEF Reading
  <2>2. CASE down = "abort"
    BY <1>1, <2>1, <2>2 DEF CaptureInv, CaptureFollows, Tracks, StartsAnother
  <2>3. CASE down = "write"
    <3>1. Offered'
      <4>1. Offered
        BY <2>3 DEF CaptureInv, CaptureFollows
      <4>2. InFrame
        BY <2>3 DEF InFrame
      <4> QED BY <1>1, <4>1, <4>2, InFrameLog DEF Offered
    <3> QED BY <1>1, <2>1, <2>3, <3>1 DEF CaptureInv, CaptureFollows, InMessage
  <2>4. CASE down = "result"
    <3>1. Awaited'
      BY <1>1, <2>4 DEF CaptureInv, CaptureFollows, Awaited
    <3> QED BY <1>1, <2>1, <2>4, <3>1 DEF CaptureInv, CaptureFollows, InMessage
  <2>5. CASE down \notin {"abort", "write", "result"}
    BY <1>1, <2>1, <2>5 DEF CaptureFollows
  <2> QED BY <2>2, <2>3, <2>4, <2>5
<1> QED BY <1>2, <1>3, <1>6 DEF CaptureInv

LEMMA CaptureStep == CaptureInv /\ [Next]_vars => CaptureInv'
<1> SUFFICES ASSUME CaptureInv, [Next]_vars PROVE CaptureInv'
  OBVIOUS
<1>1. CASE Cancel \/ CancelCloses \/ FirstResult \/ SecondResult \/ UpEnds \/ UpFails \/ UNCHANGED vars
  BY <1>1, SameCapture
     DEF Cancel, CancelCloses, FirstResult, SecondResult, UpEnds, UpFails, vars
<1>2. CASE Receive
  BY <1>2, ReceiveKeeps
<1>3. CASE DownEnds \/ DownFails
  BY <1>3, DownEndsKeeps DEF DownFails
<1>4. CASE Forward
  BY <1>4, ForwardKeeps
<1>5. CASE Capture
  BY <1>5, AbortKeeps, BeginTextKeeps, BeginOtherKeeps, PayloadKeeps, WrittenKeeps,
     FinishFrameKeeps, FinishTextKeeps, FinishReceivesKeeps DEF Capture
<1>6. CASE Decode
  BY <1>6, DecodeKeeps
<1> QED BY <1>1, <1>2, <1>3, <1>4, <1>5, <1>6 DEF Next, Proxy

\* However a message is cut into frames and whatever comes between them, its usage
\* is reported exactly once, and only of whole text messages, when the copy gets to
\* its next read (websocketUsageCapture, websocketTextMessage).
THEOREM UsageOncePerMessage == Spec => []UsageReportedPerMessage
<1>1. CaptureInv => UsageReportedPerMessage
  BY WholeIsWholeTo DEF CaptureInv, CaptureTyped, UsageCounted, Reading, UsageReportedPerMessage
<1> QED BY <1>1, CaptureInit, CaptureStep, PTL DEF Spec

\* A connection reports a usage limit once, if one of its messages did.
THEOREM LimitOncePerConnection == Spec => []LimitReportedOnce
<1>1. CaptureInv => LimitReportedOnce
  BY WholeIsWholeTo DEF CaptureInv, CaptureTyped, LimitCounted, Reading, LimitReportedOnce
<1> QED BY <1>1, CaptureInit, CaptureStep, PTL DEF Spec
=============================================================================

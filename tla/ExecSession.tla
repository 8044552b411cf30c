---------------------------- MODULE ExecSession ----------------------------
(***************************************************************************)
(* One ExecContainer call: a command run in a container, its terminal      *)
(* relayed over a bidirectional gRPC stream by six goroutines and two      *)
(* buffered channels.                                                      *)
(*                                                                         *)
(*   client -> receiver -> inputChan -> handleInput -> stdin, resizeChan   *)
(*   stdout, stderr -> handleOutput (one each) -> outputChan -> sender     *)
(*       -> client                                                         *)
(*                                                                         *)
(* The main goroutine runs the command (StreamWithContext), then sends the *)
(* exit code, closes outputChan and waits for the sender.  Data are        *)
(* numbered in the order in which they were produced.                      *)
(***************************************************************************)
EXTENDS Integers, Sequences

CONSTANTS
    ChannelSize,  \* capacity of inputChan and of outputChan
    ResizeSize,   \* capacity of resizeChan
    MaxInputs,    \* bound: messages of the client after the first
    MaxOutputs,   \* bound: [Streams -> chunks the command writes to the stream]
    Disconnects   \* whether the client may go away

VARIABLES
    tty,          \* ExecInit.tty: only then does anybody read resizeChan
    client,       \* "typing", "silent" (it has closed its side of the stream) or
                  \* "gone" (the context of the stream is done)
    sent,         \* the messages the client has sent, in order
    receiver, received,       \* the goroutine that reads the stream
    inputChan, inputClosed,
    input, inHand,            \* handleInput and the message in its hands
    typed,        \* what the command has read from stdin
    resizeChan,
    command,      \* "running" or "exited"
    written,      \* [Streams -> number of chunks the command has written]
    pipe,         \* [Streams -> chunk that is being written to the pipe, or None]
    output,       \* [Streams -> step of its handleOutput]
    outHand,      \* [Streams -> the chunk in its hands]
    outputChan, outputClosed,
    main, failed, \* the main goroutine; whether the command ended in an error
    sender,       \* the goroutine that writes to the stream
    delivered     \* what the client has been sent, in order

session == <<tty, client>>
inVars == <<sent, receiver, received, inputChan, inputClosed, input, inHand, typed,
            resizeChan>>
outVars == <<written, pipe, output, outHand>>
chanVars == <<outputChan, outputClosed>>
mainVars == <<main, failed>>
sendVars == <<sender, delivered>>
vars == <<session, inVars, command, outVars, chanVars, mainVars, sendVars>>
-----------------------------------------------------------------------------
Streams == {"stdout", "stderr"}
None == 0

Message == [type : {"stdin", "resize"}, n : 1 .. MaxInputs]
NoMessage == [type |-> "none", n |-> None]
Chunks == UNION {1 .. MaxOutputs[s] : s \in Streams}
Data(s, n) == [type |-> s, n |-> n]
Error == [type |-> "error", n |-> None]
Exit == [type |-> "exit", n |-> None]
Outputs == {Data(s, n) : s \in Streams, n \in Chunks} \cup {Error, Exit}

ASSUME SizesAssumption ==
    /\ {ChannelSize, ResizeSize} \subseteq Nat \ {0}
    /\ MaxInputs \in Nat /\ MaxOutputs \in [Streams -> Nat]
    /\ Disconnects \in BOOLEAN

TypeOK ==
    /\ tty \in BOOLEAN
    /\ client \in {"typing", "silent", "gone"}
    /\ sent \in Seq(Message)
    /\ receiver \in {"recv", "put", "done", "dead"}
    /\ received \in 0 .. Len(sent)
    /\ inputChan \in Seq(Message) /\ Len(inputChan) <= ChannelSize
    /\ inputClosed \in BOOLEAN
    /\ input \in {"take", "write", "resize", "done", "dead"}
    /\ inHand \in Message \cup {NoMessage}
    /\ typed \in Seq(Message)
    /\ resizeChan \in Seq(Message) /\ Len(resizeChan) <= ResizeSize
    /\ command \in {"running", "exited"}
    /\ written \in [Streams -> Nat] /\ \A s \in Streams : written[s] <= MaxOutputs[s]
    /\ pipe \in [Streams -> Chunks \cup {None}]
    /\ output \in [Streams -> {"read", "send", "dead"}]
    /\ outHand \in [Streams -> Chunks \cup {None}]
    /\ outputChan \in Seq(Outputs) /\ Len(outputChan) <= ChannelSize
    /\ outputClosed \in BOOLEAN
    /\ main \in {"find", "stream", "error", "exit", "close", "wait", "returned",
                "dead"}
    /\ failed \in BOOLEAN
    /\ sender \in {"range", "failed", "done", "dead"}
    /\ delivered \in Seq(Outputs)

Init ==
    /\ tty \in BOOLEAN
    /\ client = "typing"
    /\ sent = <<>>
    /\ receiver = "recv"
    /\ received = 0
    /\ inputChan = <<>>
    /\ inputClosed = FALSE
    /\ input = "take"
    /\ inHand = NoMessage
    /\ typed = <<>>
    /\ resizeChan = <<>>
    /\ command = "running"
    /\ written = [s \in Streams |-> 0]
    /\ pipe = [s \in Streams |-> None]
    /\ output = [s \in Streams |-> "read"]
    /\ outHand = [s \in Streams |-> None]
    /\ outputChan = <<>>
    /\ outputClosed = FALSE
    /\ main = "find"
    /\ failed = FALSE
    /\ sender = "range"
    /\ delivered = <<>>

\* A goroutine that panics takes the whole process with it.
Panicked == main = "dead"
Panic ==
    /\ main' = "dead" /\ sender' = "dead" /\ receiver' = "dead" /\ input' = "dead"
    /\ output' = [s \in Streams |-> "dead"]
-----------------------------------------------------------------------------
(* The client.                                                             *)

ClientSends ==
    /\ client = "typing" /\ Len(sent) < MaxInputs
    /\ \E type \in {"stdin", "resize"} :
          sent' = Append(sent, [type |-> type, n |-> Len(sent) + 1])
    /\ UNCHANGED <<session, receiver, received, inputChan, inputClosed, input, inHand>>
    /\ UNCHANGED <<typed, resizeChan, command, outVars, chanVars, mainVars, sendVars>>

ClientClosesSend ==
    /\ client = "typing"
    /\ client' = "silent"
    /\ UNCHANGED <<tty, inVars, command, outVars, chanVars, mainVars, sendVars>>

ClientGoes ==
    /\ Disconnects /\ client # "gone"
    /\ client' = "gone"
    /\ UNCHANGED <<tty, inVars, command, outVars, chanVars, mainVars, sendVars>>
-----------------------------------------------------------------------------
(* Input: the receiver of the service layer and handleInput.               *)

\* Recv fails once the client is gone or the handler has returned, and at the end
\* of what the client sends.
RecvFails ==
    \/ client = "gone" \/ main = "returned"
    \/ client = "silent" /\ received = Len(sent)

Recv ==
    /\ receiver = "recv"
    /\ \/ /\ received < Len(sent) /\ ~RecvFails
          /\ received' = received + 1
          /\ receiver' = "put"
          /\ UNCHANGED inputClosed
       \/ /\ RecvFails
          /\ receiver' = "done"
          /\ inputClosed' = TRUE
          /\ UNCHANGED received
    /\ UNCHANGED <<session, sent, inputChan, input, inHand, typed, resizeChan, command>>
    /\ UNCHANGED <<outVars, chanVars, mainVars, sendVars>>

PutInput_drop ==   \* mutant: a message is dropped when the channel is full
    /\ receiver = "put"
    /\ inputChan' = IF Len(inputChan) < ChannelSize
                    THEN Append(inputChan, sent[received]) ELSE inputChan
    /\ receiver' = "recv"
    /\ UNCHANGED <<session, sent, received, inputClosed, input, inHand, typed, resizeChan>>
    /\ UNCHANGED <<command, outVars, chanVars, mainVars, sendVars>>

PutInput ==
    /\ receiver = "put" /\ Len(inputChan) < ChannelSize
    /\ inputChan' = Append(inputChan, sent[received])
    /\ receiver' = "recv"
    /\ UNCHANGED <<session, sent, received, inputClosed, input, inHand, typed, resizeChan>>
    /\ UNCHANGED <<command, outVars, chanVars, mainVars, sendVars>>

\* Both goroutines below exist once the pod has been found.
Started == main # "find"

TakeInput ==
    /\ Started /\ input = "take"
    /\ \/ /\ inputChan # <<>>
          /\ inHand' = Head(inputChan)
          /\ inputChan' = Tail(inputChan)
          /\ input' = IF inHand'.type = "stdin" THEN "write" ELSE "resize"
       \/ /\ inputChan = <<>> /\ inputClosed
          /\ input' = "done"
          /\ UNCHANGED <<inHand, inputChan>>
    /\ UNCHANGED <<session, sent, receiver, received, inputClosed, typed, resizeChan>>
    /\ UNCHANGED <<command, outVars, chanVars, mainVars, sendVars>>

\* A write to the pipe returns when the command has read it.
WriteStdin ==
    /\ input = "write" /\ main = "stream" /\ command = "running"
    /\ typed' = Append(typed, inHand)
    /\ input' = "take"
    /\ inHand' = NoMessage
    /\ UNCHANGED <<session, sent, receiver, received, inputChan, inputClosed, resizeChan>>
    /\ UNCHANGED <<command, outVars, chanVars, mainVars, sendVars>>

PutResize ==
    /\ input = "resize" /\ Len(resizeChan) < ResizeSize
    /\ resizeChan' = Append(resizeChan, inHand)
    /\ input' = "take"
    /\ inHand' = NoMessage
    /\ UNCHANGED <<session, sent, receiver, received, inputChan, inputClosed, typed>>
    /\ UNCHANGED <<command, outVars, chanVars, mainVars, sendVars>>

\* terminalSizeQueue.Next, called by the executor of a TTY.
Resize ==
    /\ tty /\ main = "stream" /\ resizeChan # <<>>
    /\ resizeChan' = Tail(resizeChan)
    /\ UNCHANGED <<session, sent, receiver, received, inputChan, inputClosed, input, inHand>>
    /\ UNCHANGED <<typed, command, outVars, chanVars, mainVars, sendVars>>
-----------------------------------------------------------------------------
(* Output: the command, handleOutput and the sender of the service layer.  *)

\* The executor writes the next chunk of the command to the pipe; a terminal has
\* no stderr of its own.
Produce(s) ==
    /\ main = "stream" /\ command = "running" /\ (tty => s = "stdout")
    /\ pipe[s] = None /\ written[s] < MaxOutputs[s]
    /\ written' = [written EXCEPT ![s] = @ + 1]
    /\ pipe' = [pipe EXCEPT ![s] = written[s] + 1]
    /\ UNCHANGED <<session, inVars, command, output, outHand, chanVars, mainVars, sendVars>>

CommandExits ==
    /\ main = "stream" /\ command = "running"
    /\ command' = "exited"
    /\ failed' \in BOOLEAN
    /\ UNCHANGED <<session, inVars, outVars, chanVars, main, sendVars>>

ReadOutput_noCopy(s) ==   \* mutant: the buffer is sent without copying it
    /\ Started /\ output[s] = "read" /\ pipe[s] # None
    /\ outHand' = [outHand EXCEPT ![s] = pipe[s]]
    /\ outputChan' = [i \in DOMAIN outputChan |->
                        IF outputChan[i].type = s THEN Data(s, pipe[s]) ELSE outputChan[i]]
    /\ pipe' = [pipe EXCEPT ![s] = None]
    /\ output' = [output EXCEPT ![s] = "send"]
    /\ UNCHANGED <<session, inVars, command, written, outputClosed, mainVars, sendVars>>

\* Read returns, and with it the Write at the other end of the pipe.
ReadOutput(s) ==
    /\ Started /\ output[s] = "read" /\ pipe[s] # None
    /\ outHand' = [outHand EXCEPT ![s] = pipe[s]]
    /\ pipe' = [pipe EXCEPT ![s] = None]
    /\ output' = [output EXCEPT ![s] = "send"]
    /\ UNCHANGED <<session, inVars, command, written, chanVars, mainVars, sendVars>>

\* A send on outputChan blocks while it is full.
Room_always == TRUE   \* mutant: the channel takes whatever comes
Room == Len(outputChan) < ChannelSize

\* Sending to a closed channel panics, and so does being blocked when it closes.
SendOutput(s) ==
    /\ output[s] = "send"
    /\ IF outputClosed
       THEN /\ Panic
            /\ UNCHANGED <<outHand, outputChan>>
       ELSE /\ Room
            /\ outputChan' = Append(outputChan, Data(s, outHand[s]))
            /\ outHand' = [outHand EXCEPT ![s] = None]
            /\ output' = [output EXCEPT ![s] = "read"]
            /\ UNCHANGED <<main, sender, receiver, input>>
    /\ UNCHANGED <<session, sent, received, inputChan, inputClosed, inHand, typed>>
    /\ UNCHANGED <<resizeChan, command, written, pipe, outputClosed, failed, delivered>>

\* The sender stops at the first Send that fails, and nobody takes over.
Forward ==
    /\ sender = "range"
    /\ \/ /\ outputChan # <<>>
          /\ outputChan' = Tail(outputChan)
          /\ IF client # "gone"
             THEN /\ delivered' = Append(delivered, Head(outputChan))
                  /\ UNCHANGED sender
             ELSE /\ sender' = "failed"
                  /\ UNCHANGED delivered
       \/ /\ outputChan = <<>> /\ outputClosed
          /\ sender' = "done"
          /\ UNCHANGED <<outputChan, delivered>>
    /\ UNCHANGED <<session, inVars, command, outVars, outputClosed, mainVars>>
-----------------------------------------------------------------------------
(* The main goroutine: StreamExec, and the end of ExecContainer.           *)

\* The pod is looked up; without one StreamExec returns before it has sent anything.
FindPod ==
    /\ main = "find"
    /\ main' \in {"stream", "close"}
    /\ UNCHANGED <<session, inVars, command, outVars, chanVars, failed, sendVars>>

StreamReturns_alone ==   \* mutant: the command is run without the context of the stream
    /\ main = "stream" /\ command = "exited" /\ \A s \in Streams : pipe[s] = None
    /\ main' = IF failed THEN "error" ELSE "exit"
    /\ UNCHANGED <<session, inVars, command, failed, outVars, chanVars, sendVars>>

StreamReturns_early ==   \* mutant: the end of the output is not waited for
    /\ main = "stream"
    /\ \/ command = "exited" /\ UNCHANGED failed
       \/ client = "gone" /\ failed' = TRUE
    /\ main' = IF failed' THEN "error" ELSE "exit"
    /\ UNCHANGED <<session, inVars, command, outVars, chanVars, sendVars>>

\* StreamWithContext returns when the command has exited and its output has been
\* copied to the pipes, or as soon as the context is done.
StreamReturns ==
    /\ main = "stream"
    /\ \/ /\ command = "exited" /\ \A s \in Streams : pipe[s] = None
          /\ UNCHANGED failed
       \/ /\ client = "gone"
          /\ failed' = TRUE
    /\ main' = IF failed' THEN "error" ELSE "exit"
    /\ UNCHANGED <<session, inVars, command, outVars, chanVars, sendVars>>

SendEnd(from, item, to) ==
    /\ main = from /\ Room
    /\ outputChan' = Append(outputChan, item)
    /\ main' = to
    /\ UNCHANGED <<session, inVars, command, outVars, outputClosed, failed, sendVars>>

SendError == SendEnd("error", Error, "exit")
SendExit_noClose == SendEnd("exit", Exit, "wait")   \* mutant: outputChan stays open
SendExit == SendEnd("exit", Exit, "close")

CloseOutput ==
    /\ main = "close"
    /\ outputClosed' = TRUE
    /\ main' = "wait"
    /\ UNCHANGED <<session, inVars, command, outVars, outputChan, failed, sendVars>>

\* errChan has room for the sender's verdict.
Return ==
    /\ main = "wait" /\ sender # "range"
    /\ main' = "returned"
    /\ UNCHANGED <<session, inVars, command, outVars, chanVars, failed, sendVars>>

Input == Recv \/ PutInput \/ TakeInput \/ WriteStdin \/ PutResize \/ Resize
Output(s) == ReadOutput(s) \/ SendOutput(s)
Main == FindPod \/ StreamReturns \/ SendError \/ SendExit \/ CloseOutput \/ Return

Next ==
    \/ ClientSends \/ ClientClosesSend \/ ClientGoes
    \/ Input
    \/ \E s \in Streams : Produce(s) \/ Output(s)
    \/ CommandExits \/ Forward \/ Main

Spec == Init /\ [][Next]_vars

\* Goroutines that can run do run; the command need not exit, nor the client type.
FairSpec ==
    /\ Spec
    /\ WF_vars(Main) /\ WF_vars(Forward) /\ \A s \in Streams : WF_vars(Output(s))
-----------------------------------------------------------------------------
(* Properties.                                                             *)

\* The items of a type, as their source numbered them, among the items of others:
\* they are the first ones of the source, in its order, each of them once ...
InOrder(type, items, source) ==
    \A k \in DOMAIN items : items[k].type = type =>
        /\ items[k].n \in DOMAIN source /\ items[k] = source[items[k].n]
        /\ \A j \in 1 .. k - 1 : items[j].type = type => items[j].n < items[k].n
        /\ \A i \in 1 .. items[k].n - 1 :
              source[i].type = type => \E j \in 1 .. k - 1 : items[j] = source[i]
\* ... and every one of the source is there.
Relayed(type, items, source) ==
    /\ InOrder(type, items, source)
    /\ \A i \in DOMAIN source :
          source[i].type = type => \E k \in DOMAIN items : items[k] = source[i]

Numbered(s, k) == [n \in 1 .. k |-> Data(s, n)]
InHands(s) == IF outHand[s] = None THEN <<>> ELSE <<Data(s, outHand[s])>>
\* What handleOutput has read of a stream, and what is on its way to the client.
ReadOf(s) == Numbered(s, written[s] - (IF pipe[s] = None THEN 0 ELSE 1))
Passed == delivered \o outputChan

\* Between the command and the client no chunk of a stream is lost, duplicated or
\* overtaken by a later one, until a Send fails or the process dies.
OutputRelayed ==
    \A s \in Streams :
        IF sender \in {"failed", "dead"}
        THEN InOrder(s, delivered, ReadOf(s))
        ELSE Relayed(s, Passed \o InHands(s), ReadOf(s))

\* What the receiver has put into inputChan, and where it has got to.
Taken == SubSeq(sent, 1, IF receiver = "put" THEN received - 1 ELSE received)
Held == IF inHand = NoMessage THEN <<>> ELSE <<inHand>>

\* Between the client and the command nothing that is typed is lost, duplicated or
\* overtaken; resizes travel through the same channel and do not disturb it.
InputRelayed ==
    /\ \A k \in DOMAIN typed : typed[k].type = "stdin"
    /\ IF Panicked
       THEN InOrder("stdin", typed, sent)
       ELSE Relayed("stdin", typed \o Held \o inputChan, Taken)

\* A command that ends lets the call end, if the client stays: however full the
\* channels are, the sender keeps emptying them.
CallEnds == command = "exited" ~> main = "returned" \/ Panicked \/ client = "gone"

\* A client that goes away takes its command with it: however full the channels are,
\* the connection to the container is given up, as container-exec-design.md:294 says.
CommandLeft == client = "gone" ~> main \notin {"find", "stream"}

\* The exit code may overtake output, for three goroutines send on outputChan; but no
\* more than the chunk that each handleOutput holds when the command has ended.
ExitOvertakesLittle ==
    client # "gone" /\ sender \in {"range", "done"} =>
        \A k \in DOMAIN Passed : Passed[k] = Exit =>
            \A s \in Streams : \A n \in 1 .. written[s] - 1 :
                \E j \in 1 .. k - 1 : Passed[j] = Data(s, n)
-----------------------------------------------------------------------------
(* What the docs and comments of the code say, and the code does not do.   *)

\* "context.Context propagates the cancellation" to what a call has started: a call
\* whose client has gone comes to an end.
GoneCallEnds == client = "gone" ~> main = "returned" \/ Panicked

\* "Wait for the output goroutine": when the channel is closed no goroutine has
\* anything left to send on it.
NoSendOnClosed == ~Panicked
=============================================================================

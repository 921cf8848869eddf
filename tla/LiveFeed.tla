------------------------------ MODULE LiveFeed ------------------------------
(***************************************************************************)
(* The life of the server process and a page that shows its metrics.  The  *)
(* page (InfraLive) listens to an event stream; when the stream breaks it  *)
(* tries again after a while, and when that fails it polls from then on.   *)
(* On SIGTERM the process stops listening and waits for the requests under *)
(* way, of which a stream ends only with its client, up to a time limit.   *)
(*                                                                         *)
(* Times are left out: a timer fires some time after it was set.  What the *)
(* page shows is told apart by the process that it is about, by which its  *)
(* cached samples go as well.                                              *)
(***************************************************************************)
EXTENDS Integers, FiniteSets

CONSTANTS
  Streams,   \* bound on the streams whose handler or client is still there
  Polls,     \* bound on the polls that are on their way at once
  Retries,   \* MAX_SSE_RETRIES
  MaxStarts  \* bound on the starts of the process

ASSUME FeedAssumption == Retries \in Nat \ {0} /\ MaxStarts \in Nat

VARIABLES
  proc,      \* the server process: "down", "up" or, after a signal, "draining"
  epoch,     \* how often it was started: its name
  page,      \* what the page is doing and how many streams failed in a row
  shown,     \* the process that the metrics on the page are about, 0 for none
  client,    \* the page's end of each stream
  handler,   \* the streams whose handler runs in the process
  pending,   \* the streams with an event on its way
  poll,      \* each poll
  tells      \* the process that the answer to a poll on its way is about

server == <<proc, epoch>>
streams == <<client, handler, pending>>
pollVars == <<poll, tells>>
feedVars == <<server, page, shown, streams, pollVars>>

Modes == {"waiting", "streaming", "polling", "gone"}
Ends == {"closed", "asked", "accepted", "open", "cut"}
PollStates == {"none", "asked", "accepted", "answered", "failed"}

FeedBegins(mode) ==
  /\ proc = "down" /\ epoch = 0
  /\ page = [mode |-> mode, failed |-> 0]
  /\ shown = 0
  /\ client = [s \in Streams |-> "closed"]
  /\ handler = {} /\ pending = {}
  /\ poll = [p \in Polls |-> "none"]
  /\ tells = [p \in Polls |-> 0]

(* A browser that knows no event streams polls from the beginning. *)
FeedInit == FeedBegins("waiting") \/ FeedBegins("polling")

(***************************************************************************)
(* The page.                                                               *)
(***************************************************************************)
SetClient(s, end) == client' = [client EXCEPT ![s] = end]
SetPoll(p, state) == poll' = [poll EXCEPT ![p] = state]

ConnectSSE(s) ==
  /\ page.mode = "waiting"
  /\ client[s] = "closed" /\ s \notin handler
  /\ page' = [page EXCEPT !.mode = "streaming"]
  /\ SetClient(s, "asked")
  /\ UNCHANGED <<server, shown, handler, pending, pollVars>>

(* onopen resets the count of failures. *)
OnOpen(s) ==
  /\ page.mode = "streaming" /\ client[s] = "accepted"
  /\ SetClient(s, "open")
  /\ page' = [page EXCEPT !.failed = 0]
  /\ UNCHANGED <<server, shown, handler, pending, pollVars>>

OnMetrics(s) ==
  /\ page.mode = "streaming" /\ client[s] = "open" /\ s \in pending
  /\ shown' = epoch
  /\ pending' = pending \ {s}
  /\ UNCHANGED <<server, page, client, handler, pollVars>>

(* RetryOnly is a mutant: the page never falls back to polling. *)
RetryOnly(s) ==
  /\ page.mode = "streaming" /\ client[s] = "cut"
  /\ SetClient(s, "closed")
  /\ page' = [page EXCEPT !.mode = "waiting"]
  /\ pending' = pending \ {s}
  /\ UNCHANGED <<server, shown, handler, pollVars>>
OnError(s) ==
  /\ page.mode = "streaming" /\ client[s] = "cut"
  /\ SetClient(s, "closed")
  /\ page' = [mode |-> IF page.failed + 1 >= Retries THEN "polling" ELSE "waiting",
              failed |-> page.failed + 1]
  /\ pending' = pending \ {s}
  /\ UNCHANGED <<server, shown, handler, pollVars>>

(* The interval fires whether or not the last poll has come back. *)
FallbackFetch(p) ==
  /\ page.mode = "polling"
  /\ poll[p] = "none"
  /\ SetPoll(p, "asked")
  /\ UNCHANGED <<server, page, shown, streams, tells>>

(* Answers are shown in the order they arrive. *)
OnAnswer(p) ==
  /\ poll[p] = "answered"
  /\ SetPoll(p, "none")
  /\ tells' = [tells EXCEPT ![p] = 0]
  /\ shown' = IF page.mode = "gone" THEN shown ELSE tells[p]
  /\ UNCHANGED <<server, page, streams>>

OnFailure(p) ==
  /\ poll[p] = "failed"
  /\ SetPoll(p, "none")
  /\ UNCHANGED <<server, page, shown, streams, tells>>

(* The page is left: its stream is closed and its timers are cleared. *)
Leave ==
  /\ page.mode # "gone"
  /\ page' = [page EXCEPT !.mode = "gone"]
  /\ client' = [s \in Streams |-> "closed"]
  /\ pending' = {}
  /\ UNCHANGED <<server, shown, handler, pollVars>>

(***************************************************************************)
(* The network, and whatever else turns a request down: the rate limiter,  *)
(* a proxy, a process that does not listen.                                *)
(***************************************************************************)
BreakStream(s) ==
  /\ client[s] \in {"asked", "accepted", "open"}
  /\ SetClient(s, "cut")
  /\ UNCHANGED <<server, page, shown, handler, pending, pollVars>>

LosePoll(p) ==
  /\ poll[p] \in {"asked", "accepted", "answered"}
  /\ SetPoll(p, "failed")
  /\ tells' = [tells EXCEPT ![p] = 0]
  /\ UNCHANGED <<server, page, shown, streams>>

(***************************************************************************)
(* The process.                                                            *)
(***************************************************************************)
(* The first event goes out in one flush with the header. *)
AcceptStream(s) ==
  /\ proc = "up" /\ client[s] = "asked"
  /\ SetClient(s, "accepted")
  /\ handler' = handler \cup {s}
  /\ pending' = pending \cup {s}
  /\ UNCHANGED <<server, page, shown, pollVars>>

(* The ticker of a stream: an event, or the end if the client is gone. *)
TickStream(s) ==
  /\ s \in handler
  /\ pending' = IF client[s] \in {"accepted", "open"} THEN pending \cup {s} ELSE pending
  /\ UNCHANGED <<server, page, shown, client, handler, pollVars>>

EndStream(s) ==
  /\ s \in handler /\ client[s] \in {"closed", "cut"}
  /\ handler' = handler \ {s}
  /\ UNCHANGED <<server, page, shown, client, pending, pollVars>>

AcceptPoll(p) ==
  /\ proc = "up" /\ poll[p] = "asked"
  /\ SetPoll(p, "accepted")
  /\ UNCHANGED <<server, page, shown, streams, tells>>

AnswerPoll(p) ==
  /\ poll[p] = "accepted"
  /\ SetPoll(p, "answered")
  /\ tells' = [tells EXCEPT ![p] = epoch]
  /\ UNCHANGED <<server, page, shown, streams>>

StartServer ==
  /\ proc = "down" /\ epoch < MaxStarts
  /\ proc' = "up" /\ epoch' = epoch + 1
  /\ UNCHANGED <<page, shown, streams, pollVars>>

Sigterm ==
  /\ proc = "up"
  /\ proc' = "draining"
  /\ UNCHANGED <<epoch, page, shown, streams, pollVars>>

(* The process goes, and with it its connections. *)
Exit ==
  /\ proc' = "down"
  /\ handler' = {} /\ pending' = {}
  /\ client' = [s \in Streams |-> IF client[s] \in {"accepted", "open"} THEN "cut" ELSE client[s]]
  /\ poll' = [p \in Polls |-> IF poll[p] = "accepted" THEN "failed" ELSE poll[p]]
  /\ UNCHANGED <<epoch, page, shown, tells>>

Crash == proc # "down" /\ Exit

Idling == handler = {} /\ \A p \in Polls : poll[p] # "accepted"
ShutdownDone == proc = "draining" /\ Idling /\ Exit

(* NoTimeout is a mutant: Shutdown waits for ever. *)
NoTimeout == proc = "draining" /\ Idling /\ Exit
ShutdownTimeout == proc = "draining" /\ ~Idling /\ Exit

FeedNext ==
  \/ \E s \in Streams :
       \/ ConnectSSE(s) \/ OnOpen(s) \/ OnMetrics(s) \/ OnError(s)
       \/ BreakStream(s) \/ AcceptStream(s) \/ TickStream(s) \/ EndStream(s)
  \/ \E p \in Polls :
       \/ FallbackFetch(p) \/ OnAnswer(p) \/ OnFailure(p)
       \/ LosePoll(p) \/ AcceptPoll(p) \/ AnswerPoll(p)
  \/ Leave \/ StartServer \/ Sigterm \/ Crash \/ ShutdownDone \/ ShutdownTimeout

(***************************************************************************)
(* Timers fire and callbacks run; handlers notice that a client is gone;   *)
(* Shutdown returns.  Nothing that travels is lost for ever: the network   *)
(* is fair to polls and to the event that is sent with a stream's header,  *)
(* but a stream may be refused each time.                                  *)
(***************************************************************************)
FeedFairness ==
  /\ WF_feedVars(\E s \in Streams : ConnectSSE(s))
  /\ WF_feedVars(\E s \in Streams : OnOpen(s))
  /\ SF_feedVars(\E s \in Streams : OnMetrics(s))
  /\ WF_feedVars(\E s \in Streams : OnError(s))
  /\ WF_feedVars(\E s \in Streams : client[s] = "asked" /\ (BreakStream(s) \/ AcceptStream(s)))
  /\ WF_feedVars(\E s \in Streams : TickStream(s) /\ pending' # pending)
  /\ WF_feedVars(\E s \in Streams : EndStream(s))
  /\ \A p \in Polls : /\ WF_feedVars(FallbackFetch(p)) /\ WF_feedVars(OnFailure(p))
                      /\ SF_feedVars(AcceptPoll(p)) /\ SF_feedVars(AnswerPoll(p))
                      /\ SF_feedVars(OnAnswer(p))
  /\ WF_feedVars(ShutdownDone \/ ShutdownTimeout)

FeedSpec == FeedInit /\ [][FeedNext]_feedVars /\ FeedFairness

(***************************************************************************)
(* Properties.                                                             *)
(***************************************************************************)
FeedTypeOK ==
  /\ proc \in {"down", "up", "draining"} /\ epoch \in 0..MaxStarts
  /\ page \in [mode : Modes, failed : 0..Retries]
  /\ shown \in 0..epoch
  /\ client \in [Streams -> Ends]
  /\ handler \subseteq Streams /\ pending \subseteq Streams
  /\ poll \in [Polls -> PollStates] /\ tells \in [Polls -> 0..epoch]

(* Through crashes, restarts, shutdowns with open streams, broken streams  *)
(* and late answers of an earlier process: if the server stays up and the  *)
(* page stays open, the page ends up showing that server's metrics, by a   *)
(* stream or by polling (islands/InfraLive.tsx:49-119).                    *)
LiveAgain ==
  <>[](proc = "up" /\ page.mode # "gone") => <>[](shown = epoch)

(* A shutdown ends, though open streams do not                             *)
(* (cmd/server/main.go:210-216).                                           *)
ShutdownEnds == proc = "draining" ~> proc # "draining"
=============================================================================

------------------------------ MODULE Fetcher ------------------------------
(***************************************************************************)
(* Downloads (ostree-fetcher-curl.c).  A fetcher hands its requests to     *)
(* libcurl and runs libcurl's timer and sockets as sources of one main     *)
(* context: that of its requests, which may be another one when none is    *)
(* outstanding.  A request asks its mirrors one after the other as long as *)
(* they answer with an HTTP error.  libcurl and the servers are external.  *)
(***************************************************************************)
EXTENDS Integers, Sequences, FiniteSets

CONSTANTS None,
          FetchJobs   \* request |-> [ctx, mirrors (how each one answers), limit, after]

VARIABLES fjob,        \* the requests to make
          reqs,        \* what is known of each one
          outstanding, \* outstanding_requests
          mainctx,     \* the context, None when nothing is outstanding
          timer,       \* the context that timer_event is attached to, or None
          fpc,         \* loop, check (in check_multi_info), callback or aborted
          answering    \* the request whose callback is running

fetcherVars == <<fjob, reqs, outstanding, mainctx, timer, fpc, answering>>

\* xfer: libcurl's view, one of none, added, active, or how it ended.
Fresh == [idx |-> 1, body |-> <<>>, etag |-> 0, xfer |-> "none", watch |-> None,
          result |-> None, returned |-> FALSE]

FetcherInit ==
  /\ fjob \in FetchJobs
  /\ reqs = [r \in DOMAIN fjob |-> None]
  /\ outstanding = {} /\ mainctx = None /\ timer = None
  /\ fpc = "loop" /\ answering = None

Ended(r) == reqs[r] # None /\ reqs[r].xfer \in {"ok", "http", "curl", "size"}
Running(ctx) == \E r \in DOMAIN fjob : fjob[r].ctx = ctx /\ reqs[r] # None /\ ~reqs[r].returned

\* A caller iterates the context of its requests until they are answered.
Dispatches(ctx) == fpc = "loop" /\ ctx # None /\ Running(ctx)

-----------------------------------------------------------------------------
(* Making a request.                                                       *)

\* The requests of ctx only are made from the callback of another one, or when
\* the caller is not waiting for anything.
MayRequest(r) ==
  /\ reqs[r] = None
  /\ IF fjob[r].after # None THEN fpc = "callback" /\ answering = fjob[r].after
     ELSE fpc = "loop" /\ \A s \in DOMAIN fjob : reqs[s] # None /\ ~reqs[s].returned => fjob[s].ctx = fjob[r].ctx

\* initiate_next_curl_request: libcurl asks for its timer.
initiate_next_curl_request(r, req) ==
  /\ reqs' = [reqs EXCEPT ![r] = [req EXCEPT !.xfer = "added"]]
  /\ timer' = mainctx'

\* _ostree_fetcher_request_async, with adopt_steal_mainctx, which moves the sources
\* that libcurl has to the new context.
RequestAsync(r) ==
  /\ MayRequest(r)
  /\ LET ctx == fjob[r].ctx
         adopt == outstanding = {} /\ mainctx # ctx
     IN IF (IF adopt THEN mainctx = None ELSE mainctx = ctx)
        THEN /\ mainctx' = ctx
             /\ initiate_next_curl_request(r, Fresh)
             /\ outstanding' = outstanding \cup {r}
             /\ UNCHANGED fpc
        ELSE fpc' = "aborted" /\ UNCHANGED <<reqs, outstanding, mainctx, timer>>
  /\ UNCHANGED <<fjob, answering>>

-----------------------------------------------------------------------------
(* The sources.                                                            *)

\* update_timeout_cb: libcurl has a timer as long as a transfer is under way, and
\* may keep one longer.
SetTimer(rs) ==
  timer' \in IF \E r \in DOMAIN rs : rs[r] # None /\ rs[r].xfer \in {"added", "active"}
            THEN {mainctx} ELSE {mainctx, None}

\* Transfers start, with their sockets watched (sock_cb, addsock), and those that
\* a server leaves hanging time out.
TimeoutAction(r) ==
  CASE reqs[r] = None -> None
    [] reqs[r] # None /\ reqs[r].xfer = "added" -> [reqs[r] EXCEPT !.xfer = "active", !.watch = mainctx]
    [] reqs[r] # None /\ reqs[r].xfer = "active" /\ fjob[r].mirrors[reqs[r].idx] = "dead" ->
         [reqs[r] EXCEPT !.xfer = "curl", !.watch = None]
    [] OTHER -> reqs[r]

\* The timer is cleared after libcurl's turn, with the one that it has set meanwhile.
MutTimerCb ==
  /\ Dispatches(timer)
  /\ reqs' = [r \in DOMAIN reqs |-> TimeoutAction(r)]
  /\ timer' = None
  /\ fpc' = "check"
  /\ UNCHANGED <<fjob, outstanding, mainctx, answering>>

\* timer_cb: the timer goes, and libcurl sets the next one.
timer_cb ==
  /\ Dispatches(timer)
  /\ reqs' = [r \in DOMAIN reqs |-> TimeoutAction(r)]
  /\ SetTimer(reqs')
  /\ fpc' = "check"
  /\ UNCHANGED <<fjob, outstanding, mainctx, answering>>

\* The size of what came before is forgotten.
MutWriteCb(req, limit) == limit > 0 /\ 1 > limit

\* write_cb, with a body of size 1: does it exceed max_size?
write_cb(req, limit) == limit > 0 /\ 1 + Len(req.body) > limit

\* event_cb: an answer comes in, with a body and an ETag or without, and the
\* transfer is over.  Nothing is reset in between mirrors.
event_cb(r) ==
  /\ reqs[r] # None /\ reqs[r].xfer = "active" /\ Dispatches(reqs[r].watch)
  /\ LET a == fjob[r].mirrors[reqs[r].idx]
         over == a \in {"content", "page"} /\ write_cb(reqs[r], fjob[r].limit)
         req == [reqs[r] EXCEPT !.watch = None,
                                !.etag = IF a = "page" THEN reqs[r].idx ELSE @,
                                !.body = IF a \in {"content", "page"} /\ ~over THEN Append(@, reqs[r].idx) ELSE @]
     IN /\ a # "dead"
        /\ reqs' = [reqs EXCEPT ![r] =
             [req EXCEPT !.xfer = IF over THEN "size" ELSE IF a = "reset" THEN "curl"
                                  ELSE IF a = "content" THEN "ok" ELSE "http"]]
        /\ SetTimer(reqs')
  /\ fpc' = "check"
  /\ UNCHANGED <<fjob, outstanding, mainctx, answering>>

-----------------------------------------------------------------------------
(* check_multi_info: each transfer that is over.                           *)

\* After an HTTP error the next mirror is asked.
NextMirror(r) ==
  /\ fpc = "check" /\ Ended(r) /\ reqs[r].xfer = "http" /\ reqs[r].idx < Len(fjob[r].mirrors)
  /\ mainctx' = mainctx
  /\ initiate_next_curl_request(r, [reqs[r] EXCEPT !.idx = @ + 1])
  /\ UNCHANGED <<fjob, outstanding, fpc, answering>>

\* Otherwise the task returns; its callback runs at once or from the context.
TaskReturn(r, now) ==
  /\ fpc = "check" /\ Ended(r) /\ ~(reqs[r].xfer = "http" /\ reqs[r].idx < Len(fjob[r].mirrors))
  /\ reqs' = [reqs EXCEPT ![r].result = reqs[r].xfer, ![r].xfer = "none", ![r].returned = now]
  /\ answering' = r
  /\ fpc' = IF now THEN "callback" ELSE "remove"
  /\ UNCHANGED <<fjob, outstanding, mainctx, timer>>

\* The callback is done.
CallbackReturns ==
  /\ fpc = "callback"
  /\ \A r \in DOMAIN fjob : fjob[r].after = answering => reqs[r] # None
  /\ fpc' = IF answering \in outstanding THEN "remove" ELSE "loop"
  /\ UNCHANGED <<fjob, reqs, outstanding, mainctx, timer, answering>>

\* The context is kept for the next request.
MutRemoveRequest ==
  /\ fpc = "remove"
  /\ outstanding' = outstanding \ {answering}
  /\ fpc' = "check" /\ answering' = None
  /\ UNCHANGED <<fjob, reqs, mainctx, timer>>

\* The request is not outstanding any more; with the last one the context goes.
RemoveRequest ==
  /\ fpc = "remove"
  /\ outstanding' = outstanding \ {answering}
  /\ mainctx' = IF outstanding' = {} THEN None ELSE mainctx
  /\ fpc' = "check" /\ answering' = None
  /\ UNCHANGED <<fjob, reqs, timer>>

EndCheck ==
  /\ fpc = "check" /\ \A r \in DOMAIN reqs : ~Ended(r)
  /\ fpc' = "loop"
  /\ UNCHANGED <<fjob, reqs, outstanding, mainctx, timer, answering>>

\* A callback that was put off is run by the context.
RunCallback(r) ==
  /\ reqs[r] # None /\ reqs[r].result # None /\ ~reqs[r].returned /\ Dispatches(fjob[r].ctx)
  /\ reqs' = [reqs EXCEPT ![r].returned = TRUE]
  /\ answering' = r /\ fpc' = "callback"
  /\ UNCHANGED <<fjob, outstanding, mainctx, timer>>

FetcherStep ==
  \/ timer_cb \/ EndCheck \/ RemoveRequest \/ CallbackReturns
  \/ \E r \in DOMAIN fjob :
       event_cb(r) \/ NextMirror(r) \/ (\E now \in BOOLEAN : TaskReturn(r, now)) \/ RunCallback(r)
       \/ RequestAsync(r)

\* All requests have been made and answered.
FetcherDone ==
  /\ fpc = "loop" /\ \A r \in DOMAIN fjob : reqs[r] # None /\ reqs[r].returned
  /\ UNCHANGED fetcherVars

FetcherNext == FetcherStep \/ FetcherDone

-----------------------------------------------------------------------------
(* No assertion on the main context fails: requests of one context only    *)
(* are outstanding at a time, and without any the context is given up,     *)
(* also if a callback has started the next request before the fetcher has  *)
(* taken note that the last one is over.                                   *)
NoContextAssertion == fpc # "aborted" /\ (fpc = "loop" => (mainctx = None <=> outstanding = {}))

(* What is delivered is within the request's limit, all mirrors together.  *)
DeliveredWithinLimit ==
  \A r \in DOMAIN reqs :
    reqs[r] # None /\ reqs[r].result = "ok" /\ fjob[r].limit > 0 => Len(reqs[r].body) <= fjob[r].limit

(* Every request is answered, whatever the servers do, and within limits.  *)
AllAnswered ==
  /\ \A r \in DOMAIN fjob : reqs[r] # None => reqs[r].returned
  /\ NoContextAssertion
  /\ DeliveredWithinLimit

(* What is delivered is what one mirror sent.                              *)
DeliveredFromOneMirror ==
  \A r \in DOMAIN reqs :
    reqs[r] # None /\ reqs[r].result = "ok" => reqs[r].body = <<reqs[r].idx>> /\ reqs[r].etag \in {0, reqs[r].idx}
=============================================================================

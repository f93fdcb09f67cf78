------------------------------ MODULE HostAbi ------------------------------
(***************************************************************************)
(* The C boundary (cmd/openrouter-plugin): calls of the host into the      *)
(* plugin, callbacks of the plugin into the host, and the host's coming    *)
(* and going in the middle of them.  stored_host is a C static read and    *)
(* written with no lock: each of the reads of one callback is a step.      *)
(*                                                                         *)
(* A thread is a call of the host, or a pump goroutine, which outlives     *)
(* the call that started it.  What is local to a callback is forgotten     *)
(* when callHost returns.                                                  *)
(***************************************************************************)
CONSTANTS
  Calls,   \* threads the host calls in
  Pumps,   \* goroutines that pumpStream runs on
  Hosts,   \* tables of the plugin's ABI version that may be offered
  None

Threads == Calls \cup Pumps

ASSUME HostAssumption == None \notin Hosts

VARIABLES
  stored,     \* stored_host
  pc,         \* where a thread is; "crashed": it read through NULL
  reply,      \* the envelope a call left for the host: "none", "ok", "error"
  heap,       \* blocks of the plugin's malloc that are not freed
  function,   \* the host whose call pointer it loaded
  context,    \* the host whose host_ctx it loaded
  answer,     \* what came back
  lent,       \* the host that lent the buffer of the answer
  left        \* history: the hosts that stored_host lost during a thread's
              \* callback, after it first found one

callback == <<function, context, answer, lent>>
vars == <<stored, pc, reply, heap, callback, left>>

\* Where a callback needs the host, and where the host's buffer is in hand.
Giving == {"give", "giveCheck", "giveBack"}
PastGuard == {"check", "call", "context", "host"} \cup Giving
Answers == {"none", "empty", "full"}

Init ==
  /\ stored = None
  /\ pc = [t \in Threads |-> "idle"]
  /\ reply = [t \in Calls |-> "none"]
  /\ heap = {}
  /\ function = [t \in Threads |-> None]
  /\ context = function
  /\ answer = [t \in Threads |-> "none"]
  /\ lent = function
  /\ left = [t \in Threads |-> {}]

Goes(t, from, to) ==
  /\ pc[t] = from
  /\ pc' = [pc EXCEPT ![t] = to]

-----------------------------------------------------------------------------
(* The host.                                                                *)

\* stored_host changes under the callbacks in progress.
Stores(h) ==
  /\ stored' = h
  /\ left' = [t \in Threads |->
                IF pc[t] \in PastGuard THEN left[t] \cup ({stored} \ {None, h})
                ELSE left[t]]
  /\ UNCHANGED <<pc, reply, heap, callback>>

\* A table of another version is refused, and nothing changes.  A shared Go
\* library stays loaded, so a host may initialise it again, over another too.
cliproxy_plugin_init(h) == Stores(h)

\* Service.Shutdown does not wait for anybody.
cliproxyPluginShutdown == Stores(None)

\* The host's thread is free, and has given the last response back.
Ready(t) == pc[t] = "idle" /\ reply[t] = "none" /\ stored # None

\* writeResponse: the envelope, in memory that is the host's to free.
Responds(t, envelope) ==
  /\ reply' = [reply EXCEPT ![t] = envelope]
  /\ heap' = heap \cup {<<t, "response">>}

\* A call without a method is answered at once.
RefuseCall(t) ==
  /\ Ready(t)
  /\ Responds(t, "error")
  /\ UNCHANGED <<stored, pc, callback, left>>

cliproxyPluginCall(t) ==
  /\ Ready(t)
  /\ Goes(t, "idle", "run")
  /\ UNCHANGED <<stored, reply, heap, callback, left>>

cliproxyPluginFree(t) ==
  /\ reply[t] # "none"
  /\ reply' = [reply EXCEPT ![t] = "none"]
  /\ heap' = heap \ {<<t, "response">>}
  /\ UNCHANGED <<stored, pc, callback, left>>

-----------------------------------------------------------------------------
(* A handler, or a pump.                                                    *)

\* ExecuteStream starts its goroutine.
StartPump(t, p) ==
  /\ pc[t] = "run"
  /\ Goes(p, "idle", "run")
  /\ UNCHANGED <<stored, reply, heap, callback, left>>

PumpReturns(p) ==
  /\ Goes(p, "run", "idle")
  /\ UNCHANGED <<stored, reply, heap, callback, left>>

\* The handler returns a result, or an error or a value that does not encode:
\* these are an error envelope, with return code 1.
handleMethod(t) ==
  /\ Goes(t, "run", "idle")
  /\ \E envelope \in {"ok", "error"} : Responds(t, envelope)
  /\ UNCHANGED <<stored, callback, left>>

-----------------------------------------------------------------------------
(* callHost, call_host_api and free_host_buffer.                            *)

\* The C copies of the method's name and the request.
Arguments(t) == {<<t, "method">>, <<t, "request">>}

BeginCallback(t) ==
  /\ Goes(t, "run", "guard")
  /\ heap' = heap \cup Arguments(t)
  /\ UNCHANGED <<stored, reply, function, context, answer, lent, left>>

\* A test of stored_host, and a read through it after such a test: if it is
\* NULL by then, the process dies.
Tests(t, from, found, missing) == Goes(t, from, IF stored = None THEN missing ELSE found)
Reads(t, from, to) == Tests(t, from, to, "crashed")

\* Mutant of Guard: stored_host is not tested.
GuardAlways(t) ==
  /\ Goes(t, "guard", "check")
  /\ UNCHANGED <<stored, reply, heap, callback, left>>

\* stored_host == NULL: no response.
Guard(t) ==
  /\ Tests(t, "guard", "check", "decode")
  /\ UNCHANGED <<stored, reply, heap, callback, left>>

\* stored_host->call == NULL, which no host has.
Check(t) ==
  /\ Reads(t, "check", "call")
  /\ UNCHANGED <<stored, reply, heap, callback, left>>

\* Mutant of LoadCall: what is loaded through NULL is called.
LoadCallBlindly(t) ==
  /\ Goes(t, "call", "context")
  /\ function' = [function EXCEPT ![t] = stored]
  /\ UNCHANGED <<stored, reply, heap, context, answer, lent, left>>

\* stored_host->call, and stored_host->host_ctx after it or, likewise, before.
LoadCall(t) ==
  /\ Reads(t, "call", "context")
  /\ function' = [function EXCEPT ![t] = stored]
  /\ UNCHANGED <<stored, reply, heap, context, answer, lent, left>>

LoadContext(t) ==
  /\ Reads(t, "context", "host")
  /\ context' = [context EXCEPT ![t] = stored]
  /\ UNCHANGED <<stored, reply, heap, function, answer, lent, left>>

\* The host answers, in its own time: without a buffer, or with an empty one or
\* a full one, which GoBytes copies at once.
HostAnswers(t) ==
  /\ \E a \in Answers :
       /\ Goes(t, "host", IF a = "none" THEN "decode" ELSE "give")
       /\ answer' = [answer EXCEPT ![t] = a]
       /\ lent' = [lent EXCEPT ![t] = IF a = "none" THEN None ELSE function[t]]
  /\ UNCHANGED <<stored, reply, heap, function, context, left>>

\* Mutant of Give: an empty buffer is not given back.
GiveFull(t) ==
  /\ Tests(t, "give", IF answer[t] = "empty" THEN "decode" ELSE "giveCheck", "decode")
  /\ UNCHANGED <<stored, reply, heap, callback, left>>

\* stored_host == NULL: the buffer is kept.
Give(t) ==
  /\ Tests(t, "give", "giveCheck", "decode")
  /\ UNCHANGED <<stored, reply, heap, callback, left>>

GiveCheck(t) ==
  /\ Reads(t, "giveCheck", "giveBack")
  /\ UNCHANGED <<stored, reply, heap, callback, left>>

\* The free_buffer of another host does not settle the debt.
GiveBack(t) ==
  /\ Reads(t, "giveBack", "decode")
  /\ lent' = [lent EXCEPT ![t] = IF @ = stored THEN None ELSE @]
  /\ UNCHANGED <<stored, reply, heap, function, context, answer, left>>

\* callHost returns a result or one of five errors, as the copy decodes; the
\* deferred frees run whichever it is.
Returns(t) ==
  /\ Goes(t, "decode", "run")
  /\ heap' = heap \ Arguments(t)
  /\ function' = [function EXCEPT ![t] = None]
  /\ context' = [context EXCEPT ![t] = None]
  /\ answer' = [answer EXCEPT ![t] = "none"]
  /\ lent' = [lent EXCEPT ![t] = None]
  /\ left' = [left EXCEPT ![t] = {}]
  /\ UNCHANGED <<stored, reply>>

-----------------------------------------------------------------------------

\* A crash ends the process, and the host with it.
Running == \A t \in Threads : pc[t] # "crashed"

CallbackStep(t) ==
  \/ BeginCallback(t) \/ Guard(t) \/ Check(t) \/ LoadCall(t) \/ LoadContext(t)
  \/ Give(t) \/ GiveCheck(t) \/ GiveBack(t) \/ Returns(t)

ThreadStep(t) ==
  /\ Running
  /\ \/ CallbackStep(t)
     \/ t \in Calls /\ handleMethod(t)
     \/ t \in Pumps /\ PumpReturns(t)

AnswerStep(t) == Running /\ HostAnswers(t)

HostStep ==
  \/ \E h \in Hosts : cliproxy_plugin_init(h)
  \/ cliproxyPluginShutdown
  \/ \E t \in Calls :
       RefuseCall(t) \/ cliproxyPluginCall(t) \/ cliproxyPluginFree(t)

Next ==
  \/ \E t \in Threads : ThreadStep(t) \/ AnswerStep(t)
  \/ Running /\ HostStep
  \/ Running /\ \E t \in Calls, p \in Pumps : StartPump(t, p)

Spec == Init /\ [][Next]_vars

-----------------------------------------------------------------------------
(* Properties.                                                              *)

\* Every variable has its type, and what is called is a host's function.
TypeOK ==
  /\ stored \in Hosts \cup {None}
  /\ pc \in [Threads -> {"idle", "run", "guard", "decode", "crashed"} \cup PastGuard]
  /\ reply \in [Calls -> {"none", "ok", "error"}]
  /\ heap \subseteq Threads \X {"method", "request", "response"}
  /\ function \in [Threads -> Hosts \cup {None}]
  /\ context \in [Threads -> Hosts \cup {None}]
  /\ answer \in [Threads -> Answers]
  /\ lent \in [Threads -> Hosts \cup {None}]
  /\ left \in [Threads -> SUBSET Hosts]
  /\ \A t \in Threads : pc[t] \in {"context", "host"} \cup Giving => function[t] \in Hosts

\* What can go wrong in a callback, for all of them, takes a host that leaves
\* after the callback found one: only then is stored_host read while NULL, and
\* a host's function is called with the context of another only if it is that
\* host that left.  A Shutdown or an initialisation at any other time, and
\* whatever other threads do, harms no callback, though nothing takes a lock
\* (main.go:20-29, 45-49).
CallbacksAreSound ==
  \A t \in Threads :
    /\ pc[t] = "crashed" => left[t] # {}
    /\ pc[t] \in {"host"} \cup Giving \/ answer[t] # "none" =>
         context[t] \in Hosts /\ (context[t] = function[t] \/ function[t] \in left[t])

\* The plugin holds no memory but the arguments of callbacks in progress and the
\* responses the host has not freed; and of the host's buffers callHost keeps
\* one for good only if the very host that lent it left during the callback: it
\* does not give a buffer to another host, nor forget one of a host that stays
\* (main.go:27-29, 92-125).
NothingLeaks ==
  /\ \A t \in Threads :
       /\ \A k \in {"method", "request"} :
            <<t, k>> \in heap <=> pc[t] \notin {"idle", "run"}
       /\ <<t, "response">> \in heap <=> t \in Calls /\ reply[t] # "none"
  /\ \A t \in Threads :
       lent[t] # None /\ pc[t] \notin Giving => lent[t] \in left[t]

\* What they rest on: while no host has left, one is stored, and the one whose
\* function was loaded is stored or has left.
CallbackInv ==
  \A t \in Threads :
    /\ pc[t] \in PastGuard => stored \in Hosts \/ left[t] # {}
    /\ pc[t] \in {"context", "host"} \cup Giving =>
         function[t] = stored \/ function[t] \in left[t]
    /\ pc[t] \in Giving => lent[t] = function[t]
    /\ pc[t] \notin Giving \cup {"decode", "crashed"} =>
         lent[t] = None /\ answer[t] = "none"

IInv == TypeOK /\ CallbackInv /\ CallbacksAreSound /\ NothingLeaks
=============================================================================

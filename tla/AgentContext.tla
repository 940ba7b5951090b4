---------------------------- MODULE AgentContext ----------------------------
(***************************************************************************)
(* Whose VM do the tools of a chat reach?                                  *)
(*                                                                         *)
(* The notebook agent's tools find their session in a context that         *)
(* set_execution_context leaves in a thread-local of the caller and in a   *)
(* fallback of the module.  Streams set it on the event loop's thread,     *)
(* which they share; /ai/chat/sync sets it on a thread of the pool, where  *)
(* it stays; the report of a workbook sets it on a thread of its own.  The *)
(* agent library calls tools on a thread of the pool.                      *)
(*                                                                         *)
(* Left out: the text of the conversation, and two chats of one session at *)
(* once.                                                                   *)
(***************************************************************************)
EXTENDS Naturals, FiniteSets

CONSTANTS
    Session,
    Pool,      \* threads of the default executor
    MaxCalls   \* bound: calls of tools by each chat

Loop == "loop"
Nobody == "nobody"
Thread == Pool \cup {Loop} \cup Session   \* a report's thread is named for its session

VARIABLES
    local,     \* session in the thread-local context of each thread
    fallback,  \* session in _fallback_context
    agents,    \* sessions with an agent, which holds the conversation
    talk,      \* what runs for each session: "none", "stream", "sync" or "report"
    worker,    \* the pool's thread a chat without a stream occupies
    calls,     \* calls of tools so far
    touched,   \* sessions whose agents ran code in the VM of each session
    seen       \* sessions whose cells or variables each agent looked at

vars == <<local, fallback, agents, talk, worker, calls, touched, seen>>

Init ==
    /\ local = [t \in Thread |-> Nobody] /\ fallback = Nobody
    /\ agents = {} /\ talk = [s \in Session |-> "none"]
    /\ worker = [s \in Session |-> Nobody]
    /\ calls = [s \in Session |-> 0]
    /\ touched = [s \in Session |-> {}] /\ seen = [s \in Session |-> {}]

\* set_execution_context on thread t.
SetContext(s, t) == local' = [local EXCEPT ![t] = s] /\ fallback' = s

\* _get_context on thread t.
Context(t) == IF local[t] # Nobody THEN local[t] ELSE fallback

GetOrCreateAgent(s) == agents' = agents \cup {s}
Busy(t) == \E s \in Session : worker[s] = t

\* POST /ai/chat: the response streams from the event loop.
ChatStream(s) ==
    /\ talk[s] = "none"
    /\ talk' = [talk EXCEPT ![s] = "stream"]
    /\ SetContext(s, Loop) /\ GetOrCreateAgent(s)
    /\ UNCHANGED <<worker, calls, touched, seen>>

\* POST /ai/chat/sync: the whole chat runs on a thread of the pool.
Chat(s, t) ==
    /\ talk[s] = "none" /\ t \in Pool /\ ~Busy(t)
    /\ talk' = [talk EXCEPT ![s] = "sync"] /\ worker' = [worker EXCEPT ![s] = t]
    /\ SetContext(s, t) /\ GetOrCreateAgent(s)
    /\ UNCHANGED <<calls, touched, seen>>

\* generate_intel with tools, on its thread and with an agent of its own.
Report(s) ==
    /\ talk[s] = "none"
    /\ talk' = [talk EXCEPT ![s] = "report"] /\ worker' = [worker EXCEPT ![s] = s]
    /\ SetContext(s, s)
    /\ UNCHANGED <<agents, calls, touched, seen>>

ToolRuns(s, t) ==
    /\ talk[s] # "none" /\ calls[s] < MaxCalls
    /\ t \in Pool /\ ~Busy(t)
    /\ calls' = [calls EXCEPT ![s] = @ + 1]
    /\ UNCHANGED <<local, fallback, agents, talk, worker>>

\* execute_code and install_package.
ExecuteCode(s, t) ==
    /\ ToolRuns(s, t)
    /\ touched' = [touched EXCEPT ![Context(t)] = @ \cup {s}]
    /\ UNCHANGED seen

\* get_variables, get_notebook_state and get_available_data_sources.
GetState(s, t) ==
    /\ ToolRuns(s, t)
    /\ seen' = [seen EXCEPT ![s] = @ \cup {Context(t)}]
    /\ UNCHANGED touched

Finish(s) ==
    /\ talk[s] # "none"
    /\ talk' = [talk EXCEPT ![s] = "none"] /\ worker' = [worker EXCEPT ![s] = Nobody]
    /\ UNCHANGED <<local, fallback, agents, calls, touched, seen>>

\* DELETE /ai/chat: the conversation goes, the contexts stay.
NewThread(s) ==
    /\ s \in agents
    /\ agents' = agents \ {s}
    /\ UNCHANGED <<local, fallback, talk, worker, calls, touched, seen>>

Next ==
    \/ \E s \in Session : ChatStream(s) \/ Report(s) \/ Finish(s) \/ NewThread(s)
    \/ \E s \in Session, t \in Pool : Chat(s, t) \/ ExecuteCode(s, t) \/ GetState(s, t)

Spec == Init /\ [][Next]_vars

-----------------------------------------------------------------------------
\* Agents of concurrent sessions do not leak between each other (execution_tools.py:17):
\* an agent runs code in its own session's VM only, and sees nothing of another session.
SessionsDoNotLeak ==
    \A s \in Session : touched[s] \subseteq {s} /\ seen[s] \subseteq {s}
=============================================================================

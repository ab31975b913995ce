---------------------------- MODULE SamplerServers ----------------------------
(***************************************************************************)
(* t/exact_test_sampler_client.py and the limit that                       *)
(* t/exact_test_sampler_server.py puts on its requests: which samplers a   *)
(* test is spread over, and whether it evaluates values inline.            *)
(***************************************************************************)
EXTENDS Integers, FiniteSets

CONSTANTS
    Local,     \* the local parallel sampler
    Servers,   \* connection strings of gRPC servers
    None,      \* an option, or a file, that is not there
    Files,     \* what .sampler_servers.ini and sampler_servers.ini.dist may be
    CpuCount,  \* os.cpu_count() on the servers
    MaxRunning \* bound on the requests a server is asked to run

MAX_CONCURRENT_REQUESTS == 32

ASSUME ServersAssumption ==
    /\ IsFiniteSet(Servers) /\ Local \notin Servers /\ MaxRunning \in Nat /\ CpuCount \in [Servers -> Nat \ {0}]
    /\ Files \subseteq [servers : SUBSET Servers, local_parallelism : BOOLEAN \cup {None},
                        inline_evaluation : BOOLEAN \cup {None}] \cup {None}
-----------------------------------------------------------------------------
\* A file that is not there is an empty one.
parse_sampler_servers(file) ==
    IF file = None THEN [servers |-> {}, use_local |-> TRUE, inline_eval |-> TRUE]
    ELSE [servers |-> file.servers,
          use_local |-> file.local_parallelism \in {TRUE, None},
          inline_eval |-> file.inline_evaluation \in {TRUE, None}]

\* Without servers, nothing of the user's file is used.
Configuration(user, dist) ==
    IF parse_sampler_servers(user).servers # {} THEN parse_sampler_servers(user)
    ELSE parse_sampler_servers(dist)

num_requests(server) ==
    IF 2 * CpuCount[server] < MAX_CONCURRENT_REQUESTS THEN 2 * CpuCount[server]
    ELSE MAX_CONCURRENT_REQUESTS

\* The servers that answer status(): those that are up and do not already run as
\* many requests as they take.
Answering(up, running) == {server \in up : running[server] < num_requests(server)}

\* The others are left out.
get_sampler_servers(configuration, answering) ==
    [samplers |-> (configuration.servers \cap answering)
                      \cup (IF configuration.use_local THEN {Local} ELSE {}),
     inline_eval |-> configuration.inline_eval]

\* Everything that get_sampler_servers may return, in pytest or not.
Settings ==
    {[samplers |-> {Local}, inline_eval |-> TRUE]}
        \cup {get_sampler_servers(Configuration(user, dist), Answering(up, running)) :
                 user \in Files, dist \in Files, up \in SUBSET Servers,
                 running \in [Servers -> 0 .. MaxRunning]}
=============================================================================

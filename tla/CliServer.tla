----------------------------- MODULE CliServer ------------------------------
(***************************************************************************)
(* The telnet server: its listening socket (utils/tcp_server.c,            *)
(* tcp_server_ipv4.c), its connections (utils/cli_telnet.c) and their      *)
(* interfaces (utils/cli.c), within the descriptors a process may have.    *)
(*                                                                         *)
(* The sensor thread of the Raspberry Pi build shares the descriptors:     *)
(* am2321 keeps one each time an ioctl, write or read fails (am2320.c:60). *)
(*                                                                         *)
(* tcp_server_stop and tcp_server_deinit are never called.                 *)
(***************************************************************************)
EXTENDS Integers, Sequences, FiniteSets
Seqs == INSTANCE SequencesExt

CONSTANTS
    Clients,
    Descriptors,    \* what the descriptor table holds
    Backlog         \* the backlog listen is given

ASSUME DescriptorsAssumption == Descriptors \subseteq Nat /\ Backlog \in Nat \ {0}

NoDescriptor == -1

VARIABLES
    openFds,    \* the kernel's: descriptors of the process
    serverSd,   \* server->sd, the descriptor of its watcher
    listening,  \* server->is_listening
    backlog,    \* the kernel's: clients connected and not accepted, oldest first
    fdOf,       \* fdOf[c]: the descriptor of c's connection
    conns,      \* cli_server_t: conns, as clients
    intfs,      \* _cli_intf_list, as clients
    listed,     \* the clients cli_conn printed last, in order
    leaked      \* the descriptors am2321 left open

serverVars == <<openFds, serverSd, listening, backlog, fdOf, conns, intfs, listed, leaked>>

ServerInit ==
    /\ openFds = {} /\ serverSd = NoDescriptor /\ listening = FALSE
    /\ backlog = <<>> /\ fdOf = [c \in Clients |-> NoDescriptor]
    /\ conns = <<>> /\ intfs = <<>> /\ listed = <<>> /\ leaked = {}

FreeFds == Descriptors \ openFds

(* list_del: the node of c is taken out. *)
Unlisted(list, c) == Seqs!RemoveAt(list, CHOOSE i \in DOMAIN list : list[i] = c)

-----------------------------------------------------------------------------
(* cli_telnet_server_init.  Whether or not there is a socket, bound and    *)
(* listening (otherwise it is closed), tcp_server_start sets the flag.     *)
StartServer ==
    /\ ~listening
    /\ listening' = TRUE
    /\ \/ \E fd \in FreeFds : serverSd' = fd /\ openFds' = openFds \union {fd}
       \/ UNCHANGED <<serverSd, openFds>>
    /\ UNCHANGED <<backlog, fdOf, conns, intfs, listed, leaked>>

(* A client connects, the backlog not being full; or gives up waiting. *)
ClientConnects(c) ==
    /\ serverSd # NoDescriptor
    /\ c \notin Seqs!ToSet(backlog) \union Seqs!ToSet(conns)
    /\ Len(backlog) < Backlog
    /\ backlog' = Append(backlog, c)
    /\ UNCHANGED <<openFds, serverSd, listening, fdOf, conns, intfs, listed, leaked>>

ClientGivesUp(c) ==
    /\ c \in Seqs!ToSet(backlog)
    /\ backlog' = Unlisted(backlog, c)
    /\ UNCHANGED <<openFds, serverSd, listening, fdOf, conns, intfs, listed, leaked>>

NoMemoryLeaks == \* mutant: close(newsd) is left out
    /\ \E fd \in FreeFds : openFds' = openFds \union {fd}
    /\ UNCHANGED <<fdOf, conns, intfs>>

(* alloc_cli_connection with memory, and without: the socket is closed.    *)
NewConnection(c, fd) ==
    /\ openFds' = openFds \union {fd}
    /\ fdOf' = [fdOf EXCEPT ![c] = fd]
    /\ conns' = Append(conns, c)
    /\ intfs' = Append(intfs, c)

NoMemory == UNCHANGED <<openFds, fdOf, conns, intfs>>

AcceptOneSession == \* mutant: no second session while there is one
    /\ serverSd # NoDescriptor
    /\ conns = <<>>
    /\ backlog # <<>> /\ FreeFds # {}
    /\ backlog' = Tail(backlog)
    /\ (\E fd \in FreeFds : NewConnection(Head(backlog), fd)) \/ NoMemory
    /\ UNCHANGED <<serverSd, listening, listed, leaked>>

(* tcp_server_ipv4_rx_event.  Without a descriptor to give, accept fails   *)
(* and the client stays where it is: the loop is called again at once.     *)
AcceptClient ==
    /\ serverSd # NoDescriptor
    /\ backlog # <<>> /\ FreeFds # {}
    /\ backlog' = Tail(backlog)
    /\ (\E fd \in FreeFds : NewConnection(Head(backlog), fd)) \/ NoMemory
    /\ UNCHANGED <<serverSd, listening, listed, leaked>>

(* dealloc_cli_connection, on end of file or an error. *)
CloseConnection(c) ==
    /\ c \in Seqs!ToSet(conns)
    /\ openFds' = openFds \ {fdOf[c]}
    /\ fdOf' = [fdOf EXCEPT ![c] = NoDescriptor]
    /\ intfs' = Unlisted(intfs, c)
    /\ conns' = Unlisted(conns, c)
    /\ UNCHANGED <<serverSd, listening, backlog, listed, leaked>>

(* The command cli_conn, of any session (cli_telnet_show_connections). *)
ShowConnections ==
    /\ conns # <<>>
    /\ listed' = conns
    /\ UNCHANGED <<openFds, serverSd, listening, backlog, fdOf, conns, intfs, leaked>>

(* am2321 returns 2, 3 or 4. *)
SensorReadFails ==
    /\ \E fd \in FreeFds : openFds' = openFds \union {fd} /\ leaked' = leaked \union {fd}
    /\ UNCHANGED <<serverSd, listening, backlog, fdOf, conns, intfs, listed>>

ServerNext ==
    \/ StartServer \/ AcceptClient \/ ShowConnections \/ SensorReadFails
    \/ \E c \in Clients : ClientConnects(c) \/ ClientGivesUp(c) \/ CloseConnection(c)

(* The select loop calls the server's watcher as long as a client waits.   *)
ServerSpec == ServerInit /\ [][ServerNext]_serverVars /\ WF_serverVars(AcceptClient)

-----------------------------------------------------------------------------
(* Properties. *)

(* Every open descriptor is that of the server, of one listed connection,  *)
(* or one the sensor thread left open: a connection that ended, or found   *)
(* no memory, leaves none behind, and no listed one stands for a closed    *)
(* descriptor.  The list of connections and the list of interfaces are in  *)
(* step.                                                                   *)
DescriptorsAccounted ==
    /\ intfs = conns
    /\ openFds = {fdOf[c] : c \in Seqs!ToSet(conns)} \union leaked \union ({serverSd} \ {NoDescriptor})
    /\ Cardinality(openFds) =
        Len(conns) + Cardinality(leaked) + Cardinality({serverSd} \ {NoDescriptor})

(* A client that waits is served, is refused for want of memory, or gives  *)
(* up, unless the descriptors run out, which the sensor's failed readings  *)
(* alone can bring about.                                                  *)
EveryClientServed ==
    \A c \in Clients : c \in Seqs!ToSet(backlog) ~> (c \notin Seqs!ToSet(backlog) \/ FreeFds = {})
=============================================================================

------------------------------ MODULE HelperLink -------------------------------
(***************************************************************************)
(* The privileged helper (eoip-helper) and the Unix stream socket between  *)
(* it and the daemon.  The daemon's end is composed in DaemonStartup and   *)
(* TunnelManager.                                                          *)
(*                                                                         *)
(* The socket is a SOCK_STREAM: a read returns every byte queued so far,   *)
(* except that it stops after the first message that carries a file        *)
(* descriptor (SCM_RIGHTS is a barrier).  Both ends decode one message     *)
(* from what a read returned and drop the bytes that follow it, so         *)
(* messages queued together without a descriptor are read as one.  The     *)
(* 512-byte buffer of a read is taken to hold every message queued: the    *)
(* messages are a few dozen bytes, and the runs queue fewer than six.      *)
(***************************************************************************)
EXTENDS Naturals, Sequences

CONSTANTS
    Requests,        \* the CreateTunnel requests the daemon may send
    NoRequest,       \* not a request
    Hosts            \* the machines and helper modes considered

(* v4, v6: a raw socket of that family can be opened on the host.          *)
(* tapFails: creating a TAP interface or setting its MTU may fail.         *)
(* exitMode: the helper runs with --mode exit, not --mode persist.         *)
(* dies: the helper process may be killed.                                 *)
HostRecords ==
    [v4 : BOOLEAN, v6 : BOOLEAN, tapFails : BOOLEAN, exitMode : BOOLEAN, dies : BOOLEAN]

ASSUME LinkAssumption ==
    /\ NoRequest \notin Requests
    /\ Hosts \subseteq HostRecords

VARIABLES
    host,            \* where this behaviour happens; never changes
    toHelper,        \* requests queued on the socket, daemon to helper
    toDaemon,        \* messages queued on the socket, helper to daemon
    helper,          \* what the helper does next
    serving,         \* the request the helper is serving
    rawV4Created,    \* the helper's flags: the shared raw sockets were
    rawV6Created     \*   created and sent once

helperVars == <<host, helper, serving, rawV4Created, rawV6Created>>
linkVars == <<toHelper, toDaemon, helperVars>>

HelperMsgs ==
    [kind : {"HelperReady", "TapCreated", "RawSocket4", "RawSocket6", "Error"},
     for  : Requests \cup {NoRequest}]

(* "for" is the request a message answers.  Only TapCreated names it on    *)
(* the wire (its tunnel id), and no receiver looks at it.                  *)
Msg(k, r) == [kind |-> k, for |-> r]

CarriesFd(m) == m.kind \in {"TapCreated", "RawSocket4", "RawSocket6"}

(* One recvmsg on queue q returns its first n messages.                    *)
ReadsUpTo(q, n) ==
    /\ n \in 1 .. Len(q)
    /\ \A i \in 1 .. n - 1 : ~CarriesFd(q[i])
    /\ n = Len(q) \/ CarriesFd(q[n])

After(q, n) == SubSeq(q, n + 1, Len(q))

LinkTypeOK ==
    /\ host \in Hosts
    /\ toHelper \in Seq(Requests)
    /\ toDaemon \in Seq(HelperMsgs)
    /\ helper \in {"starting", "waiting", "tap", "rawV4", "rawV6", "exited"}
    /\ serving \in Requests \cup {NoRequest}
    /\ rawV4Created \in BOOLEAN
    /\ rawV6Created \in BOOLEAN

(* The helper accepted the daemon's connection.                            *)
LinkInit ==
    /\ host \in Hosts
    /\ toHelper = <<>>
    /\ toDaemon = <<>>
    /\ helper = "starting"
    /\ serving = NoRequest
    /\ rawV4Created = FALSE
    /\ rawV6Created = FALSE

--------------------------------------------------------------------------------
HelperSend(m) == toDaemon' = Append(toDaemon, m)

HelperStart ==
    /\ helper = "starting"
    /\ HelperSend(Msg("HelperReady", NoRequest))
    /\ helper' = "waiting"
    /\ UNCHANGED <<host, toHelper, serving, rawV4Created, rawV6Created>>

(* recv_msg: requests carry no descriptor, so a read takes all of them and *)
(* keeps the first.                                                        *)
HelperReceive ==
    /\ helper = "waiting"
    /\ toHelper # <<>>
    /\ serving' = Head(toHelper)
    /\ toHelper' = <<>>
    /\ helper' = "tap"
    /\ UNCHANGED <<host, toDaemon, rawV4Created, rawV6Created>>

(* handle_create_tunnel returns an error: persist mode reports it and goes *)
(* on, exit mode ends the process without a word.                          *)
HelperFails ==
    /\ IF host.exitMode
       THEN /\ helper' = "exited"
            /\ toHelper' = <<>>
            /\ UNCHANGED toDaemon
       ELSE /\ helper' = "waiting"
            /\ HelperSend(Msg("Error", serving))
            /\ UNCHANGED toHelper
    /\ UNCHANGED <<host, serving, rawV4Created, rawV6Created>>

HelperCreateTap ==
    /\ helper = "tap"
    /\ HelperSend(Msg("TapCreated", serving))
    /\ helper' = "rawV4"
    /\ UNCHANGED <<host, toHelper, serving, rawV4Created, rawV6Created>>

HelperTapFails ==
    /\ host.tapFails
    /\ helper = "tap"
    /\ HelperFails

HelperRawV4 ==
    /\ helper = "rawV4"
    /\ \/ /\ rawV4Created
          /\ UNCHANGED <<host, toDaemon, rawV4Created>>
       \/ /\ ~rawV4Created /\ host.v4
          /\ HelperSend(Msg("RawSocket4", serving))
          /\ rawV4Created' = TRUE
    /\ helper' = "rawV6"
    /\ UNCHANGED <<host, toHelper, serving, rawV6Created>>

(* Mutant: a missing IPv4 socket is passed over. *)
HelperRawV4Skipped ==
    /\ helper = "rawV4"
    /\ ~rawV4Created /\ ~host.v4
    /\ helper' = "rawV6"
    /\ UNCHANGED <<host, toHelper, toDaemon, serving, rawV4Created, rawV6Created>>

HelperRawV4Fails ==
    /\ helper = "rawV4"
    /\ ~rawV4Created /\ ~host.v4
    /\ HelperFails

(* Mutant: the helper forgets that it sent the IPv6 socket. *)
HelperRawV6Again ==
    /\ helper = "rawV6"
    /\ HelperSend(Msg(IF host.v6 THEN "RawSocket6" ELSE "Error", serving))
    /\ helper' = "waiting"
    /\ UNCHANGED <<host, toHelper, serving, rawV4Created, rawV6Created>>

(* No IPv6 socket: an Error is sent, and sent again after every tunnel.    *)
HelperRawV6 ==
    /\ helper = "rawV6"
    /\ \/ /\ rawV6Created
          /\ UNCHANGED <<host, toDaemon, rawV6Created>>
       \/ /\ ~rawV6Created /\ host.v6
          /\ HelperSend(Msg("RawSocket6", serving))
          /\ rawV6Created' = TRUE
       \/ /\ ~rawV6Created /\ ~host.v6
          /\ HelperSend(Msg("Error", serving))
          /\ UNCHANGED rawV6Created
    /\ helper' = "waiting"
    /\ UNCHANGED <<host, toHelper, serving, rawV4Created>>

(* The process is killed.  What it sent stays readable, what it had not    *)
(* read is gone.                                                           *)
HelperDies ==
    /\ host.dies
    /\ helper # "exited"
    /\ helper' = "exited"
    /\ toHelper' = <<>>
    /\ UNCHANGED <<host, toDaemon, serving, rawV4Created, rawV6Created>>

(* The daemon closed its end, which the composing module tells: recv_msg   *)
(* returns an error at end of stream and the process ends in both modes.   *)
(* The sends to a closed end, whose failure leads to the same read, are    *)
(* left to fill a queue that nobody reads.                                 *)
HelperHangup ==
    /\ helper = "waiting"
    /\ toHelper = <<>>
    /\ helper' = "exited"
    /\ UNCHANGED <<host, toHelper, toDaemon, serving, rawV4Created, rawV6Created>>

(* The steps of a helper that is scheduled while the daemon is there.      *)
HelperStep ==
    \/ HelperStart
    \/ HelperReceive
    \/ HelperCreateTap
    \/ HelperTapFails
    \/ HelperRawV4
    \/ HelperRawV4Fails
    \/ HelperRawV6

--------------------------------------------------------------------------------
(* The daemon's end. *)

(* sendmsg fails (EPIPE) once the helper is gone. *)
Connected == helper # "exited"

(* recv_msg_with_fd returns an error only at end of stream. *)
EndOfStream == toDaemon = <<>> /\ helper = "exited"

================================================================================

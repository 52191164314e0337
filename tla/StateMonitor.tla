---------------------------- MODULE StateMonitor ----------------------------
(***************************************************************************)
(* mysql-state-monitor (cmd/mysql-state-monitor/main.go): it listens to    *)
(* what mysqld tells systemd about its state and keeps one word about it   *)
(* in a file, which the liveness probe reads (build/liveness-check.sh) so  *)
(* as not to kill a server that is starting.  The entrypoint starts it in  *)
(* the background, then runs up to three servers: one that initialises the *)
(* data, a temporary one, the real one.  What is sent while nobody listens *)
(* is lost; the file outlives the container.                               *)
(*                                                                         *)
(* A datum is the class of the notification; a file is a sequence of       *)
(* words, where "NUL" stands for the bytes before the place of a write.    *)
(***************************************************************************)
EXTENDS Naturals, Sequences, Functions

CONSTANTS MaxSent,     \* notifications in one container
          MaxHitches,  \* calls on the file that fail
          MaxStarts    \* containers

VARIABLES stage,    \* the server: "initialize", "temporary", "real"
          phase,    \* what it does: none, starting, up, closing
          told,     \* the last notification of this container, or "none"
          heard,    \* was it sent while the monitor listened?
          socket,   \* what the monitor has not read
          mpc,      \* off, read, truncate, write
          datum,    \* what it has read
          offset,   \* the place of the next write
          file,     \* MYSQL_STATE_FILE
          unsure,   \* has a call on the file failed since the last write?
          sent, hitches, starts

mvars == <<stage, phase, told, heard, socket, mpc, datum, offset, file, unsure,
           sent, hitches, starts>>
server == <<stage, phase, told, heard, sent>>

Servers == {"initialize", "temporary", "real"}
Data == {"READY=1", "STOPPING=1", "Server is operational", "in progress",
         "Server initialization complete", "shutdown in progress",
         "unsuccessful", "Server shutdown complete"}

Parsed(datum_, complete) ==
    CASE datum_ \in {"READY=1", "Server is operational"} -> "ready"
      [] datum_ \in {"STOPPING=1", "shutdown in progress", "unsuccessful"} -> "down"
      [] datum_ \in {"in progress", "Server initialization complete"} -> "startup"
      [] datum_ = "Server shutdown complete" -> complete
      [] OTHER -> "unknown"

\* A mutant: a server that has shut down is down.
parseDatumComplete(datum_) == Parsed(datum_, "down")

\* parseDatum: a server that has shut down counts as starting, for the servers
\* that initialise the data do so before the real one starts.
parseDatum(datum_) == Parsed(datum_, "startup")

StateMonitorTypeOK ==
    /\ stage \in Servers /\ phase \in {"none", "starting", "up", "closing"}
    /\ told \in Data \union {"none"} /\ datum \in Data \union {"none"}
    /\ Range(socket) \subseteq Data /\ mpc \in {"off", "read", "truncate", "write"}
    /\ Range(file) \subseteq {"NUL", "ready", "down", "startup", "unknown"}
    /\ heard \in BOOLEAN /\ unsure \in BOOLEAN /\ offset \in 0..MaxSent
    /\ sent \in 0..MaxSent /\ hitches \in 0..MaxHitches /\ starts \in 1..MaxStarts

\* A container starts: with an empty data directory, or with data.
StateMonitorInit ==
    /\ stage \in {"initialize", "real"} /\ phase = "none" /\ told = "none" /\ heard = FALSE
    /\ socket = <<>> /\ mpc = "off" /\ datum = "none" /\ offset = 0
    /\ file \in {<<>>, <<"ready">>, <<"startup">>} /\ unsure = FALSE
    /\ sent = 0 /\ hitches = MaxHitches /\ starts = 1

\* main: the file is emptied, the socket made anew.
Listen == /\ mpc = "off" /\ mpc' = "read"
          /\ file' = <<>> /\ offset' = 0 /\ socket' = <<>>
          /\ UNCHANGED <<server, datum, unsure, hitches, starts>>

ReadFromUnix == /\ mpc = "read" /\ socket # <<>>
                /\ datum' = Head(socket) /\ socket' = Tail(socket) /\ mpc' = "truncate"
                /\ UNCHANGED <<server, offset, file, unsure, hitches, starts>>

\* Truncate leaves the place of the next write where it is.
Truncate == /\ mpc = "truncate" /\ mpc' = "write" /\ file' = <<>>
            /\ UNCHANGED <<server, socket, datum, offset, unsure, hitches, starts>>

\* Before the place of the write the file is filled with zeros.
WriteState ==
    /\ mpc = "write" /\ mpc' = "read"
    /\ file' = [i \in 1..offset + 1 |-> IF i = offset + 1 THEN parseDatum(datum)
                                        ELSE IF i <= Len(file) THEN file[i] ELSE "NUL"]
    /\ offset' = offset + 1 /\ unsure' = FALSE
    /\ UNCHANGED <<server, socket, datum, hitches, starts>>

\* The call fails, and the loop goes on with the next datum.
Hitch == /\ mpc \in {"truncate", "write"} /\ hitches > 0
         /\ mpc' = "read" /\ unsure' = TRUE /\ hitches' = hitches - 1
         /\ UNCHANGED <<server, socket, datum, offset, file, starts>>

\* mysqld reports; without a listener the datum is lost.
Notify(m) == /\ sent < MaxSent /\ sent' = sent + 1 /\ told' = m
             /\ heard' = (mpc # "off")
             /\ socket' = IF mpc # "off" THEN Append(socket, m) ELSE socket
             /\ UNCHANGED <<mpc, datum, offset, file, unsure, hitches, starts>>

Begin    == /\ phase = "none" /\ phase' = "starting" /\ Notify("in progress")
            /\ UNCHANGED stage
Progress == /\ phase = "starting" /\ Notify("in progress") /\ UNCHANGED <<stage, phase>>
Up       == /\ phase = "starting" /\ stage # "initialize" /\ phase' = "up"
            /\ \E m \in {"READY=1", "Server is operational"} : Notify(m)
            /\ UNCHANGED stage
Close    == /\ \/ phase = "up" /\ \E m \in {"STOPPING=1", "shutdown in progress"} : Notify(m)
               \/ phase = "starting" /\ stage = "initialize"
                  /\ Notify("Server initialization complete")
               \/ phase = "starting" /\ stage # "initialize" /\ Notify("unsuccessful")
            /\ phase' = "closing" /\ UNCHANGED stage
Closed   == /\ phase = "closing" /\ phase' = "none" /\ Notify("Server shutdown complete")
            /\ stage' = CASE stage = "initialize" -> "temporary" [] OTHER -> "real"

\* The container ends, whoever ended it, and another one starts.
NewContainer ==
    /\ starts < MaxStarts /\ starts' = starts + 1
    /\ stage' \in {"initialize", "real"} /\ phase' = "none" /\ told' = "none" /\ heard' = FALSE
    /\ socket' = <<>> /\ mpc' = "off" /\ datum' = "none" /\ offset' = 0 /\ sent' = 0
    /\ unsure' = FALSE /\ UNCHANGED <<file, hitches>>

StateMonitorNext ==
    \/ Listen \/ ReadFromUnix \/ Truncate \/ WriteState \/ Hitch
    \/ Begin \/ Progress \/ Up \/ Close \/ Closed \/ NewContainer
StateMonitorSpec == StateMonitorInit /\ [][StateMonitorNext]_mvars

\* What the probe reads, the zeros left out, and the servers it spares for it.
Words       == {i \in DOMAIN file : file[i] # "NUL"}
Reads(word) == \E i \in DOMAIN file : Words = {i} /\ file[i] = word
ProbeSpares == Reads("startup")

\* The monitor is up to date with what mysqld has said.
UpToDateMonitor == mpc = "read" /\ socket = <<>> /\ heard /\ ~unsure

-----------------------------------------------------------------------------
\* The probe reads exactly the state of the last notification, however many
\* were written before it and wherever the writes went; until the monitor has
\* caught up, or after a call on the file failed, it reads one word or nothing.
FileHasLastState ==
    /\ UpToDateMonitor => Reads(parseDatum(told))
    /\ mpc # "off" => Words = {} \/ \E i \in DOMAIN file : Words = {i}

\* A probe does not kill a server that starts, be it the one that initialises
\* the data or one that comes after it, nor the pod between two of them.
StartupSpared == UpToDateMonitor /\ phase \in {"starting", "none"} => ProbeSpares

\* The liveness probe reads the state of the last notification, or nothing, and
\* so spares a server that starts (main and parseDatum of mysql-state-monitor).
ProbeReadsLastState == FileHasLastState /\ StartupSpared
=============================================================================

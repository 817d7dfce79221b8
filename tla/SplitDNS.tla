------------------------------ MODULE SplitDNS ------------------------------
(***************************************************************************)
(* internal/monitor/splitdns.go: the policies' domains, as the resolver    *)
(* answers for them, are written into a block of the system's hosts file,  *)
(* over and over.                                                          *)
(*                                                                         *)
(* Stop ends the loop's context and takes the block out, without waiting   *)
(* for a sync that is under way.  Both writers read the file, empty it and *)
(* write it, with nothing to keep them, another daemon, or an editor,      *)
(* apart.                                                                  *)
(***************************************************************************)
EXTENDS Naturals

CONSTANTS
    Daemons   \* processes of `kongtrol up`

VARIABLES
    hosts,    \* the hosts file: the user's lines, by edition, and if it has the block
    writer,   \* per daemon and writer: how far it is, and what it is to write
    written,  \* history: the edition the user saved last
    torn,     \* history: a writer was overtaken between its read and its write,
              \* or has read what another had emptied
    crossed   \* history: daemons whose Stop came during a sync, or failed

hostsVars == <<hosts, writer, written, torn, crossed>>

\* The loop's goroutine, and the one that calls Stop.
Writers == {"sync", "stop"}

AtRest == [at |-> "idle", block |-> FALSE, lines |-> 0]

HostsInit ==
    /\ hosts = [lines |-> 1, block |-> FALSE]
    /\ writer = [u \in Daemons |-> [w \in Writers |-> AtRest]]
    /\ written = 1
    /\ torn = FALSE /\ crossed = {}

Writing(u, w) == writer[u][w].at # "idle"

\* Whoever has read the file and not yet written it.
Midway == {x \in Daemons \X Writers : writer[x[1]][x[2]].at \in {"empty", "write"}}

Rests(u, w) == writer' = [writer EXCEPT ![u][w] = AtRest]

\* The loop wakes up and asks for each domain, of which some may have an answer.
SyncBegins(u) ==
    /\ ~Writing(u, "sync")
    /\ \E b \in BOOLEAN :
          writer' = [writer EXCEPT ![u]["sync"] = [AtRest EXCEPT !.at = "read", !.block = b]]
    /\ UNCHANGED <<hosts, written, torn, crossed>>

\* Stop restores, whatever the loop is doing.
StopBegins(u) ==
    /\ writer' = [writer EXCEPT ![u]["stop"] = [AtRest EXCEPT !.at = "read"]]
    /\ crossed' = IF Writing(u, "sync") THEN crossed \cup {u} ELSE crossed
    /\ UNCHANGED <<hosts, written, torn>>

\* A file that cannot be read, or opened to be written, is left alone.
GivesUp(u, w) ==
    /\ writer[u][w].at \in {"read", "empty"}
    /\ Rests(u, w)
    /\ crossed' = IF w = "stop" THEN crossed \cup {u} ELSE crossed
    /\ UNCHANGED <<hosts, written, torn>>

ReadHosts(u, w) ==
    /\ writer[u][w].at = "read"
    /\ writer' = [writer EXCEPT ![u][w] = [@ EXCEPT !.at = "empty", !.lines = hosts.lines]]
    /\ torn' = (torn \/ \E x \in Midway : writer[x[1]][x[2]].at = "write")
    /\ UNCHANGED <<hosts, written, crossed>>

\* What another one has read and not yet written is out of date now, or it is
\* this one's: os.WriteFile empties the file first.
EmptyHosts(u, w) ==
    /\ writer[u][w].at = "empty"
    /\ hosts' = [lines |-> 0, block |-> FALSE]
    /\ writer' = [writer EXCEPT ![u][w].at = "write"]
    /\ torn' = (torn \/ Midway # {<<u, w>>})
    /\ UNCHANGED <<written, crossed>>

\* Mutant: a block that is there stays there.
KeepsBlock(u, w) == writer[u][w].block \/ hosts.block \/ w = "stop"

\* removeSplitDNSBlock and renderSplitDNSBlock: the old one out, the new one in.
Block(u, w) == writer[u][w].block

WriteHosts(u, w) ==
    /\ writer[u][w].at = "write"
    /\ \/ hosts' = [lines |-> writer[u][w].lines, block |-> Block(u, w)] /\ UNCHANGED torn
       \/ torn' = TRUE /\ UNCHANGED hosts
    /\ Rests(u, w)
    /\ UNCHANGED <<written, crossed>>

Write(u, w) == GivesUp(u, w) \/ ReadHosts(u, w) \/ EmptyHosts(u, w) \/ WriteHosts(u, w)

\* The process ends, with its goroutines wherever they are.
WritersEnd(u) ==
    /\ writer' = [writer EXCEPT ![u] = [w \in Writers |-> AtRest]]
    /\ torn' = (torn \/ \E w \in Writers : writer[u][w].at = "write")
    /\ UNCHANGED <<hosts, written, crossed>>

\* Somebody else saves the file.
UserEdits ==
    /\ written' = written + 1
    /\ hosts' = [hosts EXCEPT !.lines = written + 1]
    /\ torn' = (torn \/ Midway # {})
    /\ UNCHANGED <<writer, crossed>>
=============================================================================

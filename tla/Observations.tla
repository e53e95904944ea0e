----------------------------- MODULE Observations -----------------------------
(***************************************************************************)
(* What the analysis makes of a phase: the system calls that gVisor logs   *)
(* (internal/strace) and the DNS packets on the bridge                     *)
(* (internal/dnsanalyzer) become one result (dynamicanalysis.Run and       *)
(* setData).  The two sources are read one line and one packet at a time.  *)
(*                                                                         *)
(* A line that does not parse is skipped.  What is written to a file is    *)
(* kept in a temporary file named by its hash, which is written once in a  *)
(* phase; when that fails there is no result at all.                       *)
(***************************************************************************)
EXTENDS Naturals, Sequences, FiniteSets

CONSTANTS
  Path, Buffer, Socket, Command, Host, Type,
  AddressOf,   \* the address of a socket
  Lookups,     \* the types of questions and answers with addresses: A and AAAA
  MaxEvents,   \* lines and packets of all phases
  MaxPhases

VARIABLES
  phaseNo, events,
  lines,       \* the lines read so far (history)
  packets,     \* the packets received so far (history)
  accessed,    \* Path -> flags and the list of buffers, of the paths seen
  sockets, commands, syscalls,
  written,     \* allWriteBufferId
  tempFile,    \* on disk, until they are saved after the last phase
  ipHostnames, questions,
  result       \* of the phases that have ended

straceVars == <<accessed, sockets, commands, syscalls, written>>
dnsVars    == <<ipHostnames, questions>>
obsVars    == <<phaseNo, events, lines, packets, straceVars, tempFile, dnsVars, result>>

Address == {AddressOf[s] : s \in Socket}
NoFlags == [read |-> FALSE, write |-> FALSE, delete |-> FALSE, buffers |-> <<>>]

\* Noise is no line about a system call; ignored is one that does not parse, or
\* a socket of another family.  Exit lines that are about a file, by what the call and its flags say:
\* creat and O_WRONLY or O_CREAT write, O_RDWR does both, stat reads
Accesses == {[read |-> TRUE, write |-> FALSE, delete |-> FALSE],
             [read |-> FALSE, write |-> TRUE, delete |-> FALSE],
             [read |-> TRUE, write |-> TRUE, delete |-> FALSE],
             [read |-> FALSE, write |-> FALSE, delete |-> TRUE]}
Line == [ev : {"access"}, path : Path, of : Accesses]
        \cup [ev : {"write"}, path : Path, of : Buffer]
        \cup [ev : {"socket"}, of : Socket]
        \cup [ev : {"command"}, of : Command]
        \cup [ev : {"noise", "ignored"}]
DnsPacket == [reply : BOOLEAN, host : Host, type : Type, answers : SUBSET Address]

Running == phaseNo \in 1 .. MaxPhases
Event   == events < MaxEvents /\ events' = events + 1

------------------------------------------------------------------------------
(* strace.Parse *)

\* the last access counts
Overwritten(path, of) ==
  LET old == IF path \in DOMAIN accessed THEN accessed[path] ELSE NoFlags
  IN [old EXCEPT !.read = of.read, !.write = of.write, !.delete = of.delete]

\* recordFileAccess: flags are only added
Flagged(path, of) ==
  LET old == IF path \in DOMAIN accessed THEN accessed[path] ELSE NoFlags
  IN [old EXCEPT !.read = @ \/ of.read, !.write = @ \/ of.write, !.delete = @ \/ of.delete]

Put(path, access) == accessed' = [p \in DOMAIN accessed \cup {path} |-> IF p = path THEN access ELSE accessed[p]]

Writes == [read |-> FALSE, write |-> TRUE, delete |-> FALSE]

ParseExit(line) ==
  /\ CASE line.ev = "access"  -> Put(line.path, Flagged(line.path, line.of)) /\ UNCHANGED <<sockets, commands>>
       [] line.ev = "socket"  -> sockets' = sockets \cup {line.of} /\ UNCHANGED <<accessed, commands>>
       [] line.ev = "command" -> commands' = commands \cup {line.of} /\ UNCHANGED <<accessed, sockets>>
       [] OTHER               -> UNCHANGED <<accessed, sockets, commands>>
  /\ UNCHANGED <<written, tempFile, result, phaseNo>>

\* recordFileWrite, with WriteFileContents enabled.  An error of the file
\* system is none of parsing, and Run returns resultError
ParseEnter(line) ==
  LET access == Flagged(line.path, Writes)
  IN /\ Put(line.path, [access EXCEPT !.buffers = Append(@, line.of)])
     /\ \/ /\ written' = written \cup {line.of} /\ tempFile' = tempFile \cup {line.of}
           /\ UNCHANGED <<result, phaseNo>>
        \/ /\ line.of \notin written
           /\ result' = Append(result, [status |-> "error"]) /\ phaseNo' = MaxPhases + 1
           /\ UNCHANGED <<written, tempFile>>
     /\ UNCHANGED <<sockets, commands>>

ReadLine ==
  /\ Running /\ Event
  /\ \E line \in Line :
       /\ lines' = Append(lines, line)
       /\ syscalls' = (IF line.ev = "noise" THEN syscalls ELSE Append(syscalls, line))
       /\ IF line.ev = "write" THEN ParseEnter(line) ELSE ParseExit(line)
  /\ UNCHANGED <<packets, dnsVars>>

------------------------------------------------------------------------------
(* dnsanalyzer: addIPHostnames, addQuestion *)

Receive ==
  /\ Running /\ Event
  /\ \E p \in DnsPacket \ packets :
       /\ p.reply \/ p.answers = {}
       /\ packets' = packets \cup {p}
       /\ IF p.reply
            THEN /\ ipHostnames' = [addr \in Address |->
                      IF addr \in p.answers /\ p.type \in Lookups
                        THEN ipHostnames[addr] \cup {p.host} ELSE ipHostnames[addr]]
                 /\ UNCHANGED questions
            ELSE /\ questions' = questions \cup {<<p.host, p.type>>}
                 /\ UNCHANGED ipHostnames
  /\ UNCHANGED <<phaseNo, lines, straceVars, tempFile, result>>

------------------------------------------------------------------------------
(* dynamicanalysis: Run, setData *)

Summary ==
  [status |-> "completed", files |-> accessed, commands |-> commands, dns |-> questions,
   sockets |-> {[socket |-> s, hostnames |-> ipHostnames[AddressOf[s]]] : s \in sockets},
   bufferIds |-> UNION {{accessed[p].buffers[i] : i \in DOMAIN accessed[p].buffers} : p \in DOMAIN accessed}]

Fresh ==
  /\ lines' = <<>> /\ packets' = {} /\ accessed' = <<>>
  /\ sockets' = {} /\ commands' = {} /\ syscalls' = <<>> /\ written' = {}
  /\ ipHostnames' = [addr \in Address |-> {}] /\ questions' = {}

\* A phase ends and the next one has its own capture and parser
SetData ==
  /\ Running
  /\ result' = Append(result, Summary)
  /\ phaseNo' = phaseNo + 1
  /\ Fresh
  /\ UNCHANGED <<tempFile, events>>

ObsInit ==
  /\ phaseNo = 1 /\ events = 0 /\ lines = <<>> /\ packets = {} /\ accessed = <<>>
  /\ sockets = {} /\ commands = {} /\ syscalls = <<>> /\ written = {}
  /\ ipHostnames = [addr \in Address |-> {}] /\ questions = {}
  /\ tempFile = {} /\ result = <<>>

ObsNext == ReadLine \/ Receive \/ SetData

ObsSpec == ObsInit /\ [][ObsNext]_obsVars

------------------------------------------------------------------------------
(* Properties *)

About(p)     == {i \in DOMAIN lines : lines[i].ev \in {"access", "write"} /\ lines[i].path = p}
Accessing(p) == {i \in About(p) : lines[i].ev = "access"}
Writing(p)   == {i \in About(p) : lines[i].ev = "write"}
Lines(ev)    == {lines[i].of : i \in {j \in DOMAIN lines : lines[j].ev = ev}}

\* The n-th write to a path gives its n-th buffer
BuffersInOrder(p) ==
  /\ Len(accessed[p].buffers) = Cardinality(Writing(p))
  /\ \A i \in Writing(p) :
       accessed[p].buffers[Cardinality({j \in Writing(p) : j <= i})] = lines[i].of

\* What a phase's result will say is what its lines and packets say, in
\* whatever order they came: every access of a file, the buffers written to it
\* in order, and the names an address was looked up by
ResultIsWhatHappened ==
  /\ DOMAIN accessed = {p \in Path : About(p) # {}}
  /\ \A p \in DOMAIN accessed :
       /\ accessed[p].read = (\E i \in Accessing(p) : lines[i].of.read)
       /\ accessed[p].delete = (\E i \in Accessing(p) : lines[i].of.delete)
       /\ accessed[p].write = (Writing(p) # {} \/ \E i \in Accessing(p) : lines[i].of.write)
       /\ BuffersInOrder(p)
  /\ sockets = Lines("socket") /\ commands = Lines("command")
  /\ \A s \in sockets : ipHostnames[AddressOf[s]] =
       {p.host : p \in {q \in packets : q.reply /\ q.type \in Lookups /\ AddressOf[s] \in q.answers}}
  /\ questions = {<<p.host, p.type>> : p \in {q \in packets : ~q.reply}}
==============================================================================

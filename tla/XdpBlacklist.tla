---------------------------- MODULE XdpBlacklist ----------------------------
(* samples/bpf/xdp_ddos01_blacklist: the loader puts an XDP program on a     *)
(* device and pins its maps as files, the command line opens the files and   *)
(* changes the rules in the maps while the program reads them.  A loader or  *)
(* a command may fail or be killed between any two of its system calls; the  *)
(* next loader takes over what is pinned.                                    *)
EXTENDS Naturals, FiniteSets

CONSTANTS
    Ips, TestIp,      \* source addresses in hash order; what main adds "as a test"
    ZeroIp,           \* the place of 0.0.0.0 in that order
    Ports, TestPort,
    Ids,              \* tells apart the maps created from one definition
    SymTab,           \* the map symbols in the order of the ELF symbol table
    Modifiers, Listers,
    MaxMishaps,       \* bound: how often a loader fails or is killed
    None

Maps   == 0 .. 4      \* the definitions, by their offset in the maps section
Protos == {"tcp", "udp"}
Rules  == Ports \X Protos
CountMap(proto) == IF proto = "tcp" THEN 3 ELSE 4

ASSUME BlacklistAssumption ==
    /\ Ips \subseteq Nat /\ TestIp \in Ips /\ ZeroIp \in Nat /\ TestPort \in Ports
    /\ Ids \subseteq Nat /\ IsFiniteSet(Ids)
    /\ SymTab \in [Maps -> Maps] /\ \A s \in Maps : \E i \in Maps : SymTab[i] = s
    /\ Modifiers \cap Listers = {} /\ MaxMishaps \in Nat
    /\ None \notin Ips \cup Ports \cup (Maps \X Ids)

Cmds  == Modifiers \cup Listers
Objs  == Maps \X Ids  \* a map: its definition and its identity

VARIABLES
    files,     \* the pinned map of each exported file name
    attached,  \* the maps of the program on the device, or None
    black,     \* contents of the maps blacklist: the source addresses
    ports,     \* contents of the maps port_blacklist: the bits set
    tool,      \* the loader (xdp_ddos01_blacklist_user)
    mishaps,   \* how often it has failed or was killed
    warned,    \* it has printed a failure and gone on: in this run, or before
    cmd,       \* the command lines (xdp_ddos01_blacklist_cmdline)
    rules      \* history: the rules asked for of the maps that are pinned

vars == <<files, attached, black, ports, tool, mishaps, warned, cmd, rules>>

NoTool == [pc |-> "idle", at |-> 0, fd |-> [i \in Maps |-> None],
           marked |-> {}, bits |-> {}]
NoCmd  == [pc |-> "idle", add |-> FALSE, ip |-> None, port |-> None,
           proto |-> "tcp", obj |-> None, bits |-> {},
           key |-> ZeroIp, owed |-> {}]

Init ==
    /\ files = [i \in Maps |-> None] /\ attached = None
    /\ black = [id \in Ids |-> {}] /\ ports = [id \in Ids |-> {}]
    /\ tool = NoTool /\ mishaps = 0 /\ warned = "no"
    /\ cmd = [k \in Cmds |-> NoCmd]
    /\ rules = [ips |-> {}, ports |-> {}]

-----------------------------------------------------------------------------
(* The maps: what the programs and the commands do to them                   *)

(* A map lives while a file, a program or an open descriptor refers to it.   *)
Live ==
    {o \in Objs : \/ \E i \in Maps : files[i] = o \/ tool.fd[i] = o
                  \/ \E k \in Cmds : cmd[k].obj = o
                  \/ attached # None /\ \E s \in Maps : attached[s] = o}

Contents(addresses, bits) ==
    /\ black' = [id \in Ids |-> IF <<0, id>> \in Live' THEN addresses[id] ELSE {}]
    /\ ports' = [id \in Ids |-> IF <<2, id>> \in Live' THEN bits[id] ELSE {}]

MapsUnchanged == Contents(black, ports) /\ UNCHANGED rules

(* bpf_map_get_next_key: the first key after k, or, where k is not in the    *)
(* map, the first one of all.                                                *)
After(set, k) ==
    LET rest == IF k \in set THEN {ip \in set : ip > k} ELSE set
    IN  IF rest = {} THEN None ELSE CHOOSE ip \in rest : \A o \in rest : ip <= o

BitsOf(obj, port) == {proto \in Protos : <<port, proto>> \in ports[obj[2]]}

(* blacklist_modify: BPF_NOEXIST, or delete.                                 *)
WithIp(set, add, ip) == IF add THEN set \cup {ip} ELSE set \ {ip}

(* blacklist_port_modify, in two steps: the bits of a port are read ...      *)
NewBits_Sets(bits, add, proto) ==   \* FAULTY: = for |=
    IF add THEN {proto} ELSE bits \ {proto}
NewBits(bits, add, proto) == IF add THEN bits \cup {proto} ELSE bits \ {proto}

(* ... and all of them are written.                                          *)
WithBits(set, port, bits) ==
    {r \in set : r[1] # port} \cup {<<port, proto>> : proto \in bits}

(* The change of a rule in map obj is one that was asked for the pinned map. *)
SetIp(obj, add, ip) ==
    /\ Contents([black EXCEPT ![obj[2]] = WithIp(@, add, ip)], ports)
    /\ rules' = IF files[0] = obj
                THEN [rules EXCEPT !.ips = WithIp(@, add, ip)] ELSE rules

SetPort(obj, add, port, proto, bits) ==
    /\ Contents(black, [ports EXCEPT
                          ![obj[2]] = WithBits(@, port, NewBits(bits, add, proto))])
    /\ rules' = IF files[2] # obj THEN rules
                ELSE [rules EXCEPT !.ports = IF add THEN @ \cup {<<port, proto>>}
                                             ELSE @ \ {<<port, proto>>}]

(* Bound: one process at a time changes the bits of a port.                  *)
PortFree(port) ==
    /\ tool.pc = "testport" => port # TestPort
    /\ \A k \in Modifiers : cmd[k].pc = "update" => cmd[k].port # port

(* Bound: no loader is started during a listing.                             *)
NobodyLists == \A k \in Listers : cmd[k].pc = "idle"

-----------------------------------------------------------------------------
(* The loader                                                                *)

Goto(pc)      == tool' = [tool EXCEPT !.pc = pc]
ToolUnchanged == UNCHANGED <<tool, mishaps, warned>>
Mishap        == mishaps < MaxMishaps /\ mishaps' = mishaps + 1

(* load_elf_maps_section: the symbols are sorted by their offset, so that    *)
(* the map at index i is the i-th one defined.                               *)
MapData_Unsorted == SymTab          \* FAULTY: in the order of the table
MapData ==
    CHOOSE f \in [Maps -> {SymTab[i] : i \in Maps}] :
        \A i, j \in Maps : i < j => f[i] < f[j]

(* parse_relo_and_apply: a program's use of a map becomes the descriptor of  *)
(* the entry of map_data with the symbol's offset.                           *)
Relocated(fd) == [s \in Maps |-> fd[CHOOSE i \in Maps : MapData[i] = s]]

StartLoad ==
    /\ tool.pc = "idle" /\ NobodyLists
    /\ tool' = [NoTool EXCEPT !.pc = "maps"]
    /\ warned' = IF warned = "now" THEN "before" ELSE warned
    /\ UNCHANGED <<mishaps, files, attached, cmd>> /\ MapsUnchanged

(* Programs are loaded after the last map.                                   *)
NextMap(t) == IF t.at = 4 THEN [t EXCEPT !.pc = "export"] ELSE [t EXCEPT !.at = @ + 1]

(* load_maps: the callback pre_load_maps_via_fs finds the file ...           *)
LoadPinned ==
    /\ tool.pc = "maps" /\ files[tool.at] # None
    /\ tool' = NextMap([tool EXCEPT !.fd[tool.at] = files[tool.at]])
    /\ UNCHANGED <<mishaps, warned>>
    /\ UNCHANGED <<files, attached, cmd>> /\ MapsUnchanged

(* ... or marks the index, and bpf_create_map makes an empty map.            *)
CreateMap ==
    /\ tool.pc = "maps" /\ files[tool.at] = None
    /\ LET s == MapData[tool.at] IN \E id \in Ids :
         /\ <<s, id>> \notin Live /\ \A j \in Ids : j < id => <<s, j>> \in Live
         /\ tool' = NextMap([tool EXCEPT !.fd[tool.at] = <<s, id>>,
                                         !.marked = @ \cup {tool.at}])
    /\ UNCHANGED <<mishaps, warned, files, attached, cmd>> /\ MapsUnchanged

(* export_maps, in the order of the indices.                                 *)
ToExport == CHOOSE i \in tool.marked : \A j \in tool.marked : i <= j
Exported == [tool EXCEPT !.marked = @ \ {ToExport}]

PinMap ==
    /\ tool.pc = "export" /\ tool.marked # {}
    /\ files' = [files EXCEPT ![ToExport] = tool.fd[ToExport]]
    /\ tool' = Exported
    /\ UNCHANGED <<mishaps, warned>>
    /\ UNCHANGED <<attached, cmd>> /\ MapsUnchanged

(* "ERR: Cannot pin map": nobody looks at the result.                        *)
PinFails ==
    /\ tool.pc = "export" /\ tool.marked # {}
    /\ Mishap
    /\ tool' = Exported /\ warned' = "now"
    /\ UNCHANGED <<files, attached, cmd>> /\ MapsUnchanged

(* set_link_xdp_fd: takes the place of a program already there.              *)
Attach ==
    /\ tool.pc = "export" /\ tool.marked = {}
    /\ attached' = Relocated(tool.fd)
    /\ warned' = IF warned = "before" THEN "no" ELSE warned
    /\ Goto("testip")
    /\ UNCHANGED <<mishaps, files, cmd>> /\ MapsUnchanged

AddTestIp ==
    /\ tool.pc = "testip"
    /\ Goto("lookup")
    /\ UNCHANGED <<mishaps, warned, files, attached, cmd>>
    /\ SetIp(tool.fd[0], TRUE, TestIp)

LookupTestPort ==
    /\ tool.pc = "lookup" /\ PortFree(TestPort)
    /\ tool' = [tool EXCEPT !.pc = "testport", !.bits = BitsOf(tool.fd[2], TestPort)]
    /\ UNCHANGED <<mishaps, warned>>
    /\ UNCHANGED <<files, attached, cmd>> /\ MapsUnchanged

AddTestPort ==
    /\ tool.pc = "testport"
    /\ tool' = NoTool
    /\ UNCHANGED <<mishaps, warned, files, attached, cmd>>
    /\ SetPort(tool.fd[2], TRUE, TestPort, "udp", tool.bits)

(* remove_xdp_program                                                        *)
Detach ==
    /\ tool.pc = "idle" /\ NobodyLists
    /\ attached' = None
    /\ tool' = [NoTool EXCEPT !.pc = "unlink"]
    /\ warned' = IF warned = "now" THEN "before" ELSE warned
    /\ UNCHANGED <<mishaps, files, cmd>> /\ MapsUnchanged

(* The program stays; the files are removed all the same.                    *)
DetachFails ==
    /\ tool.pc = "idle" /\ NobodyLists /\ attached # None
    /\ Mishap
    /\ tool' = [NoTool EXCEPT !.pc = "unlink"]
    /\ warned' = "now"
    /\ UNCHANGED <<files, attached, cmd>> /\ MapsUnchanged

(* An unlink may fail, with a warning.  The rules of a removed map are gone. *)
Unlink ==
    /\ tool.pc = "unlink"
    /\ LET i == tool.at IN
         \/ UNCHANGED <<files, rules>> /\ Mishap
         \/ /\ files' = [files EXCEPT ![i] = None]
            /\ rules' = [ips   |-> IF i = 0 THEN {} ELSE rules.ips,
                         ports |-> IF i = 2 THEN {} ELSE rules.ports]
            /\ UNCHANGED mishaps
    /\ tool' = IF tool.at = 4 THEN NoTool ELSE [tool EXCEPT !.at = @ + 1]
    /\ UNCHANGED <<attached, warned, cmd>> /\ Contents(black, ports)

(* Killed, or out through one of its error exits.                            *)
ToolStops ==
    /\ tool.pc # "idle"
    /\ Mishap
    /\ tool' = NoTool
    /\ UNCHANGED warned
    /\ UNCHANGED <<files, attached, cmd>> /\ MapsUnchanged

-----------------------------------------------------------------------------
(* The command line                                                          *)

Become(k, c)      == cmd' = [cmd EXCEPT ![k] = c]
MachineUnchanged  == UNCHANGED <<files, attached>> /\ ToolUnchanged

(* --add or --del of an address or a port (of both is like two commands).    *)
(* The file of the verdicts is opened first; without it the command exits.   *)
StartModify(k) ==
    /\ cmd[k].pc = "idle" /\ files[1] # None
    /\ \E add \in BOOLEAN :
         \/ \E ip \in Ips :
              Become(k, [NoCmd EXCEPT !.pc = "openip", !.add = add, !.ip = ip])
         \/ \E port \in Ports, proto \in Protos :
              Become(k, [NoCmd EXCEPT !.pc = "openport", !.add = add,
                                      !.port = port, !.proto = proto])
    /\ MachineUnchanged /\ MapsUnchanged

OpenIp(k) ==
    /\ cmd[k].pc = "openip"
    /\ Become(k, IF files[0] = None THEN NoCmd
                 ELSE [cmd[k] EXCEPT !.pc = "ip", !.obj = files[0]])
    /\ MachineUnchanged /\ MapsUnchanged

(* The other commands' listings of the map do not owe a deleted address.     *)
ModifyIp(k) ==
    /\ cmd[k].pc = "ip"
    /\ cmd' = [l \in Cmds |->
                 IF l = k THEN NoCmd
                 ELSE IF cmd[l].obj = cmd[k].obj /\ ~cmd[k].add
                      THEN [cmd[l] EXCEPT !.owed = @ \ {cmd[k].ip}]
                      ELSE cmd[l]]
    /\ MachineUnchanged
    /\ SetIp(cmd[k].obj, cmd[k].add, cmd[k].ip)

(* The files of the port and of its drop counter are opened in one step: a   *)
(* command that finds one of them missing exits, and has done nothing.       *)
OpenPort(k) ==
    /\ cmd[k].pc = "openport"
    /\ Become(k, IF files[2] = None \/ files[CountMap(cmd[k].proto)] = None THEN NoCmd
                 ELSE [cmd[k] EXCEPT !.pc = "read", !.obj = files[2]])
    /\ MachineUnchanged /\ MapsUnchanged

LookupPort(k) ==
    /\ cmd[k].pc = "read" /\ PortFree(cmd[k].port)
    /\ Become(k, [cmd[k] EXCEPT !.pc = "update",
                                !.bits = BitsOf(cmd[k].obj, cmd[k].port)])
    /\ MachineUnchanged /\ MapsUnchanged

(* A deletion then writes zeroes to the port's drop counters, which the      *)
(* model has not.                                                            *)
UpdatePort(k) ==
    /\ cmd[k].pc = "update"
    /\ Become(k, NoCmd)
    /\ MachineUnchanged
    /\ SetPort(cmd[k].obj, cmd[k].add, cmd[k].port, cmd[k].proto, cmd[k].bits)

(* --list: blacklist_list_all_ipv4                                           *)
StartList(k) ==
    /\ cmd[k].pc = "idle" /\ files[1] # None /\ tool.pc = "idle"
    /\ Become(k, [NoCmd EXCEPT !.pc = "openlist"])
    /\ MachineUnchanged /\ MapsUnchanged

OpenList(k) ==
    /\ cmd[k].pc = "openlist"
    /\ Become(k, IF files[0] = None THEN NoCmd
                 ELSE [cmd[k] EXCEPT !.pc = "first", !.obj = files[0],
                                     !.owed = black[files[0][2]]])
    /\ MachineUnchanged /\ MapsUnchanged

(* History: what a listing owes are the addresses that have been in the map  *)
(* all along and that it has not printed yet; the first turn of its loop may *)
(* take some off its hands.  The walk starts at the key 0, which is the      *)
(* address 0.0.0.0: where that is in the map, it starts behind it.           *)
Owed(k) ==
    IF cmd[k].pc = "first" /\ ZeroIp \in black[cmd[k].obj[2]]
    THEN {ip \in cmd[k].owed : ip > ZeroIp} ELSE cmd[k].owed

(* A turn of the loop prints an address.                                     *)
Printing(k, next, ip) ==
    Become(k, IF next = None THEN [NoCmd EXCEPT !.pc = "listed", !.owed = Owed(k)]
              ELSE [cmd[k] EXCEPT !.pc = "next", !.key = next, !.owed = Owed(k) \ {ip}])

PrintIp_Key(k) ==                   \* FAULTY: prints the key it has moved from
    LET next == After(black[cmd[k].obj[2]], cmd[k].key)
    IN  /\ cmd[k].pc \in {"first", "next"} /\ Printing(k, next, cmd[k].key)
        /\ MachineUnchanged /\ MapsUnchanged

PrintIp(k) ==
    LET next == After(black[cmd[k].obj[2]], cmd[k].key)
    IN  /\ cmd[k].pc \in {"first", "next"} /\ Printing(k, next, next)
        /\ MachineUnchanged /\ MapsUnchanged

(* A command ends, or is killed.                                             *)
CmdEnds(k) ==
    /\ cmd[k].pc # "idle"
    /\ Become(k, NoCmd)
    /\ MachineUnchanged /\ MapsUnchanged

-----------------------------------------------------------------------------
Load   == StartLoad \/ LoadPinned \/ CreateMap \/ PinMap \/ PinFails \/ Attach
              \/ AddTestIp \/ LookupTestPort \/ AddTestPort
Remove == Detach \/ DetachFails \/ Unlink

Modify(k) == StartModify(k) \/ OpenIp(k) \/ ModifyIp(k) \/ OpenPort(k)
                 \/ LookupPort(k) \/ UpdatePort(k)
List(k)   == StartList(k) \/ OpenList(k) \/ PrintIp(k)

Next == Load \/ Remove \/ ToolStops \/ (\E k \in Modifiers : Modify(k))
            \/ (\E k \in Listers : List(k)) \/ (\E k \in Cmds : CmdEnds(k))

Spec == Init /\ [][Next]_vars

-----------------------------------------------------------------------------
(* xdp_ddos01_blacklist_kern.c: the verdict on a packet.  The counters it    *)
(* increments are left out.  l4 and port are what stands behind the first 20 *)
(* bytes of the IPv4 header (iph + 1): whether the header has options, or    *)
(* the packet is a later fragment, is not looked at.                         *)

Packets == [l2 : {"short", "other", "truncated", "ipv4"}, ip : Ips \cup {None},
            l4 : Protos \cup {"short", "other"}, port : Ports]

ParsePort(prog, pkt) ==
    IF pkt.l4 = "short" THEN "aborted"
    ELSE IF <<pkt.port, pkt.l4>> \in ports[prog[2][2]] THEN "drop" ELSE "pass"

ParseIpv4(prog, pkt) ==
    IF pkt.l2 = "truncated" THEN "aborted"
    ELSE IF pkt.ip \in black[prog[0][2]] THEN "drop" ELSE ParsePort(prog, pkt)

XdpProgram(prog, pkt) ==
    IF pkt.l2 \in {"ipv4", "truncated"} THEN ParseIpv4(prog, pkt) ELSE "pass"

-----------------------------------------------------------------------------
(* Properties *)

ObjOf(i) == ({i} \X Ids) \cup {None}

TypeOK ==
    /\ files \in [Maps -> Objs \cup {None}] /\ \A i \in Maps : files[i] \in ObjOf(i)
    /\ attached \in [Maps -> Objs] \cup {None}
    /\ attached # None => \A i \in Maps : attached[i] \in ObjOf(i)
    /\ black \in [Ids -> SUBSET Ips] /\ ports \in [Ids -> SUBSET Rules]
    /\ tool.pc \in {"idle", "maps", "export", "testip", "lookup", "testport", "unlink"}
    /\ tool.at \in Maps /\ tool.marked \subseteq Maps /\ tool.bits \subseteq Protos
    /\ \A i \in Maps : tool.fd[i] \in ObjOf(i)
    /\ mishaps \in 0 .. MaxMishaps /\ warned \in {"no", "before", "now"}
    /\ \A k \in Cmds : cmd[k].obj \in Objs \cup {None} /\ cmd[k].owed \subseteq Ips
    /\ rules \in [ips : SUBSET Ips, ports : SUBSET Rules]

InForce == tool.pc = "idle" /\ attached # None /\ warned = "no"

(* When no loader is at work and none has complained, the files the command  *)
(* line opens are the maps of the program on the device, whatever loaders    *)
(* have failed or been killed before, and wherever.                          *)
FilesOfProgram == InForce => \A i \in Maps : files[i] = attached[i]

(* ... and the program drops exactly the IPv4 packets that the rules asked   *)
(* for of those files match: a reload, or a loader that dies, neither loses  *)
(* a rule nor revives one.                                                   *)
Matches(pkt) == pkt.ip \in rules.ips \/ <<pkt.port, pkt.l4>> \in rules.ports

RulesKept ==
    InForce => \A pkt \in Packets :
        (XdpProgram(attached, pkt) = "drop") <=> (pkt.l2 = "ipv4" /\ Matches(pkt))

(* A listing has printed every address that was in the map all along, while  *)
(* commands add and delete others, save 0.0.0.0 and what comes before it,    *)
(* when that address was in the map at the first turn.                       *)
ListComplete == \A k \in Listers : cmd[k].pc = "listed" => cmd[k].owed = {}
=============================================================================

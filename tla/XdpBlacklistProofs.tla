------------------------- MODULE XdpBlacklistProofs -------------------------
(* Proofs about XdpBlacklist, for any addresses, ports and symbol table, any *)
(* number of command lines and of mishaps.  The inductive invariant follows  *)
(* a map through its life: created with nobody else's descriptor, pinned     *)
(* while still empty, then shared by the program, the files and the commands.*)
EXTENDS XdpBlacklist, WellFoundedInduction, TLAPS

-----------------------------------------------------------------------------
(* The invariant *)

LoaderPcs == {"idle", "maps", "export", "testip", "lookup", "testport", "unlink"}
CmdPcs    == {"idle", "openip", "ip", "openport", "read", "update",
              "openlist", "first", "next", "listed"}

ToolSet == [pc : LoaderPcs, at : Maps, fd : [Maps -> Objs \cup {None}],
            marked : SUBSET Maps, bits : SUBSET Protos]
CmdSet  == [pc : CmdPcs, add : BOOLEAN, ip : Ips \cup {None}, port : Ports \cup {None},
            proto : Protos, obj : Objs \cup {None}, bits : SUBSET Protos,
            key : Ips \cup {ZeroIp}, owed : SUBSET Ips]

Types ==
    /\ files \in [Maps -> Objs \cup {None}] /\ \A i \in Maps : files[i] \in ObjOf(i)
    /\ attached \in [Maps -> Objs] \cup {None}
    /\ attached # None => \A i \in Maps : attached[i] \in ObjOf(i)
    /\ black \in [Ids -> SUBSET Ips] /\ ports \in [Ids -> SUBSET Rules]
    /\ tool \in ToolSet /\ \A i \in Maps : tool.fd[i] \in ObjOf(i)
    /\ mishaps \in 0 .. MaxMishaps /\ warned \in {"no", "before", "now"}
    /\ cmd \in [Cmds -> CmdSet]
    /\ rules \in [ips : SUBSET Ips, ports : SUBSET Rules]

(* What a command at pc holds.                                               *)
Holds(c) ==
    /\ c.pc \in {"ip", "openip"} => c.ip \in Ips
    /\ c.pc \in {"openport", "read", "update"} => c.port \in Ports
    /\ c.pc \in {"ip", "first", "next"} => c.obj \in {0} \X Ids
    /\ c.pc \in {"read", "update"} => c.obj \in {2} \X Ids
    /\ c.pc \in {"openlist", "first"} => c.key = ZeroIp

(* Where the descriptors of the loader come from.                            *)
Loader ==
    /\ tool.pc = "maps" =>
         /\ warned # "now"
         /\ \A i \in Maps :
              IF i < tool.at
              THEN tool.fd[i] # None /\ (i \in tool.marked \/ tool.fd[i] = files[i])
              ELSE tool.fd[i] = None /\ i \notin tool.marked
    /\ tool.pc = "export" => \A i \in Maps :
         tool.fd[i] # None
         /\ (i \in tool.marked \/ tool.fd[i] = files[i] \/ warned = "now")
    /\ tool.pc \in {"testip", "lookup", "testport"} => \A i \in Maps : tool.fd[i] # None
    /\ tool.pc \notin {"maps", "export"} => tool.marked = {}
    /\ \A i \in tool.marked : files[i] = None /\ tool.fd[i] # None

(* The program has the maps of the files, also while a loader is at work.    *)
Agree ==
    /\ tool.pc = "unlink" => attached = None \/ warned = "now"
    /\ attached # None /\ warned = "no" => \A i \in Maps : files[i] = attached[i]

(* A map nobody refers to is empty.                                          *)
DeadEmpty == \A id \in Ids :
    /\ <<0, id>> \notin Live => black[id] = {}
    /\ <<2, id>> \notin Live => ports[id] = {}

(* A map that is created and not yet pinned is empty, and the loader's own.  *)
Private ==
    /\ 0 \in tool.marked => black[tool.fd[0][2]] = {}
    /\ 2 \in tool.marked => ports[tool.fd[2][2]] = {}
    /\ \A i \in tool.marked, k \in Cmds : cmd[k].obj # tool.fd[i]

(* The pinned maps hold the rules.                                           *)
Held ==
    /\ rules.ips = IF files[0] = None THEN {} ELSE black[files[0][2]]
    /\ rules.ports = IF files[2] = None THEN {} ELSE ports[files[2][2]]

(* The bits that are about to be written back are those of the map.          *)
Bits ==
    /\ tool.pc = "testport" => tool.bits = BitsOf(tool.fd[2], TestPort)
    /\ \A k \in Cmds : cmd[k].pc = "update" =>
         /\ k \in Modifiers
         /\ cmd[k].bits = BitsOf(cmd[k].obj, cmd[k].port)
         /\ tool.pc = "testport" => cmd[k].port # TestPort
         /\ \A l \in Cmds \ {k} : cmd[l].pc = "update" => cmd[l].port # cmd[k].port

(* What a listing owes is in the map, behind the key that it stands at.      *)
Listing == \A k \in Cmds :
    /\ cmd[k].pc \in {"first", "next"} => cmd[k].owed \subseteq black[cmd[k].obj[2]]
    /\ cmd[k].pc = "next" => \A ip \in cmd[k].owed : ip > cmd[k].key
    /\ cmd[k].pc = "listed" => cmd[k].owed = {}

IInv == /\ Types /\ \A k \in Cmds : Holds(cmd[k])
        /\ Loader /\ Agree /\ DeadEmpty /\ Private /\ Held /\ Bits /\ Listing

-----------------------------------------------------------------------------
(* The operators of the model *)

LEMMA LeastOf ==
    ASSUME NEW S \in SUBSET Nat, NEW s \in S
    PROVE  \E m \in S : \A x \in S : m <= x
<1> DEFINE Less == {ss \in Nat \X Nat : ss[1] < ss[2]}
<1>1. IsWellFoundedOn(Less, Nat)  BY NatLessThanWellFounded DEF OpToRel
<1>2. PICK m \in S : \A x \in S : <<x, m>> \notin Less
  <2> HIDE DEF Less
  <2> QED  BY <1>1, WFMin
<1>3. ASSUME NEW x \in S PROVE m <= x
  <2>1. x \in Nat /\ m \in Nat  OBVIOUS
  <2>2. ~ (x < m)  BY <1>2, <2>1
  <2> QED  BY <2>1, <2>2
<1> QED  BY <1>3

(* bpf_map_get_next_key in a hash map, as the commands use it.               *)
LEMMA AfterIs ==
    ASSUME NEW set \in SUBSET Ips, NEW k \in Ips \cup {ZeroIp}
    PROVE  \/ /\ After(set, k) = None
              /\ \A ip \in set : k \in set /\ ~ (ip > k)
           \/ /\ After(set, k) \in set
              /\ \A ip \in set : k \notin set \/ ip > k => After(set, k) <= ip
<1> DEFINE rest == IF k \in set THEN {ip \in set : ip > k} ELSE set
<1>0. set \subseteq Nat /\ k \in Nat /\ None \notin Ips  BY BlacklistAssumption
<1>1. CASE rest = {}
  BY <1>0, <1>1 DEF After
<1>2. CASE rest # {}
  <2>1. PICK r \in rest : TRUE  BY <1>2
  <2>2. rest \in SUBSET Nat /\ rest \subseteq set  BY <1>0
  <2>3. \E m \in rest : \A x \in rest : m <= x
    <3> HIDE DEF rest
    <3> QED  BY <2>1, <2>2, LeastOf
  <2>4. After(set, k) = CHOOSE ip \in rest : \A o \in rest : ip <= o
    BY <1>2 DEF After
  <2>5. After(set, k) \in rest /\ \A o \in rest : After(set, k) <= o
    <3> HIDE DEF rest
    <3> QED  BY <2>3, <2>4
  <2> QED  BY <2>2, <2>5
<1> QED  BY <1>1, <1>2

(* Sorted by their offset, the symbols are the definitions in their order,   *)
(* whatever the order of the symbol table.                                   *)
LEMMA MapDataIs == \A i \in Maps : MapData[i] = i
<1>1. {SymTab[i] : i \in Maps} = Maps  BY BlacklistAssumption
<1> DEFINE id == [i \in Maps |-> i]
           Sorted(f) == \A i, j \in Maps : i < j => f[i] < f[j]
<1>2. id \in [Maps -> Maps] /\ Sorted(id)  OBVIOUS
<1>3. MapData = CHOOSE f \in [Maps -> Maps] : Sorted(f)  BY <1>1 DEF MapData
<1>4. MapData \in [Maps -> Maps] /\ Sorted(MapData)
  <2> HIDE DEF Sorted, id
  <2> QED  BY <1>2, <1>3
<1> HIDE DEF Sorted
<1>5. /\ MapData[0] \in 0 .. 4 /\ MapData[1] \in 0 .. 4 /\ MapData[2] \in 0 .. 4
      /\ MapData[3] \in 0 .. 4 /\ MapData[4] \in 0 .. 4
  BY <1>4 DEF Maps
<1>6. /\ MapData[0] < MapData[1] /\ MapData[1] < MapData[2]
      /\ MapData[2] < MapData[3] /\ MapData[3] < MapData[4]
  BY <1>4 DEF Sorted, Maps
<1>7. /\ MapData[0] = 0 /\ MapData[1] = 1 /\ MapData[2] = 2
      /\ MapData[3] = 3 /\ MapData[4] = 4
  BY <1>5, <1>6
<1> QED  BY <1>7 DEF Maps

LEMMA RelocatedIs ==
    ASSUME NEW fd, NEW s \in Maps
    PROVE  Relocated(fd)[s] = fd[s]
<1>1. (CHOOSE i \in Maps : MapData[i] = s) = s  BY MapDataIs
<1> QED  BY <1>1 DEF Relocated

-----------------------------------------------------------------------------
(* Who refers to a map, and what a change of the maps leaves                 *)

Referred ==
    /\ \A i \in Maps : {files[i], tool.fd[i]} \cap Objs \subseteq Live
    /\ attached # None => \A i \in Maps : attached[i] \in Objs => attached[i] \in Live
    /\ \A k \in Cmds : cmd[k].obj \in Objs => cmd[k].obj \in Live

LEMMA ReferredHolds == Referred
BY DEF Referred, Live

LEMMA ReferredThen == Referred'
BY ReferredHolds, PTL

LEMMA ContentsAre ==
    ASSUME NEW addresses \in [Ids -> SUBSET Ips], NEW bits \in [Ids -> SUBSET Rules],
           Contents(addresses, bits)
    PROVE  /\ black' \in [Ids -> SUBSET Ips] /\ ports' \in [Ids -> SUBSET Rules]
           /\ \A id \in Ids : <<0, id>> \in Live' => black'[id] = addresses[id]
           /\ \A id \in Ids : <<2, id>> \in Live' => ports'[id] = bits[id]
           /\ \A id \in Ids : black'[id] \in {{}, addresses[id]} /\ ports'[id] \in {{}, bits[id]}
           /\ DeadEmpty'
<1>1. black' = [id \in Ids |-> IF <<0, id>> \in Live' THEN addresses[id] ELSE {}]
  BY DEF Contents
<1>2. ports' = [id \in Ids |-> IF <<2, id>> \in Live' THEN bits[id] ELSE {}]
  BY DEF Contents
<1>3. \A id \in Ids : /\ black'[id] = IF <<0, id>> \in Live' THEN addresses[id] ELSE {}
                      /\ ports'[id] = IF <<2, id>> \in Live' THEN bits[id] ELSE {}
  BY <1>1, <1>2
<1>4. DeadEmpty'  BY <1>3 DEF DeadEmpty
<1> QED  BY <1>1, <1>2, <1>3, <1>4

(* The maps' part of Types, and that only maps that die change.              *)
Maps3 == /\ black \in [Ids -> SUBSET Ips] /\ ports \in [Ids -> SUBSET Rules]
         /\ rules \in [ips : SUBSET Ips, ports : SUBSET Rules]

BlackSame == \A id \in Ids : /\ <<0, id>> \in Live' => black'[id] = black[id]
                            /\ black'[id] \subseteq black[id]
PortsSame == \A id \in Ids : /\ <<2, id>> \in Live' => ports'[id] = ports[id]
                            /\ ports'[id] \subseteq ports[id]
LiveSame  == BlackSame /\ PortsSame

LEMMA SameMaps ==
    ASSUME Maps3, MapsUnchanged
    PROVE  Maps3' /\ LiveSame /\ DeadEmpty' /\ rules' = rules
<1>1. Contents(black, ports) /\ rules' = rules  BY DEF MapsUnchanged
<1>2. black \in [Ids -> SUBSET Ips] /\ ports \in [Ids -> SUBSET Rules]  BY DEF Maps3
<1> QED  BY <1>1, <1>2, ContentsAre DEF Maps3, LiveSame, BlackSame, PortsSame

(* To write the bits of a port that were read before is to change one rule.  *)
LEMMA BitsWritten ==
    ASSUME NEW o, o \in {2} \X Ids, Maps3, NEW port \in Ports, NEW proto \in Protos
    PROVE  /\ WithBits(ports[o[2]], port, BitsOf(o, port) \cup {proto})
                = ports[o[2]] \cup {<<port, proto>>}
           /\ WithBits(ports[o[2]], port, BitsOf(o, port) \ {proto})
                = ports[o[2]] \ {<<port, proto>>}
<1> DEFINE set  == ports[o[2]]
           bits == BitsOf(o, port)
<1>0. /\ set \in SUBSET Rules /\ bits \in SUBSET Protos
      /\ \A p \in Protos : p \in bits <=> <<port, p>> \in set
  BY DEF Maps3, BitsOf
<1> HIDE DEF set, bits
<1>1. \A new, r : r \in WithBits(set, port, new)
                    <=> (r \in set /\ r[1] # port) \/ \E p \in new : r = <<port, p>>
  BY DEF WithBits
<1>2. \A r \in set : r \in Ports \X Protos  BY <1>0 DEF Rules
<1>3. \A r \in set : r = <<r[1], r[2]>> /\ r[2] \in Protos  BY <1>2
<1>4. ASSUME NEW r
      PROVE  /\ r \in WithBits(set, port, bits \cup {proto}) <=> r \in set \/ r = <<port, proto>>
             /\ r \in WithBits(set, port, bits \ {proto}) <=> r \in set /\ r # <<port, proto>>
  <2>1. CASE r \in set /\ r[1] # port  BY <1>1, <1>3, <2>1
  <2>2. CASE r \in set /\ r[1] = port
    <3>1. r = <<port, r[2]>> /\ r[2] \in bits  BY <1>0, <1>3, <2>2
    <3>2. \A new : r \in WithBits(set, port, new) <=> r[2] \in new  BY <1>1, <2>2, <3>1
    <3>3. r = <<port, proto>> <=> r[2] = proto  BY <3>1
    <3> QED  BY <2>2, <3>1, <3>2, <3>3
  <2>3. CASE r \notin set
    <3>1. \A p \in bits : r # <<port, p>>  BY <1>0, <2>3
    <3> QED  BY <1>1, <2>3, <3>1
  <2> QED  BY <2>1, <2>2, <2>3
<1>5. /\ WithBits(set, port, bits \cup {proto}) = set \cup {<<port, proto>>}
      /\ WithBits(set, port, bits \ {proto}) = set \ {<<port, proto>>}
  BY <1>4
<1> QED  BY <1>5 DEF set, bits

LEMMA SetIpMaps ==
    ASSUME NEW o, o \in {0} \X Ids, Maps3, NEW add \in BOOLEAN, NEW ip \in Ips,
           SetIp(o, add, ip)
    PROVE  /\ Maps3' /\ DeadEmpty' /\ PortsSame
           /\ \A id \in Ids : id # o[2] =>
                /\ <<0, id>> \in Live' => black'[id] = black[id]
                /\ black'[id] \subseteq black[id]
           /\ o \in Live' => black'[o[2]] = WithIp(black[o[2]], add, ip)
           /\ black'[o[2]] \subseteq WithIp(black[o[2]], add, ip)
           /\ rules'.ports = rules.ports
           /\ rules'.ips = IF files[0] = o THEN WithIp(rules.ips, add, ip) ELSE rules.ips
<1> DEFINE addresses == [black EXCEPT ![o[2]] = WithIp(@, add, ip)]
<1>1. black \in [Ids -> SUBSET Ips] /\ ports \in [Ids -> SUBSET Rules]
      /\ rules \in [ips : SUBSET Ips, ports : SUBSET Rules]
  BY DEF Maps3
<1>2. o[2] \in Ids /\ o = <<0, o[2]>>  OBVIOUS
<1>3. addresses \in [Ids -> SUBSET Ips]  BY <1>1, <1>2 DEF WithIp
<1>4. /\ addresses[o[2]] = WithIp(black[o[2]], add, ip)
      /\ \A id \in Ids \ {o[2]} : addresses[id] = black[id]
  BY <1>1, <1>2
<1>5. /\ Contents(addresses, ports)
      /\ rules' = IF files[0] = o
                  THEN [rules EXCEPT !.ips = WithIp(@, add, ip)] ELSE rules
  BY DEF SetIp
<1>6. /\ rules' \in [ips : SUBSET Ips, ports : SUBSET Rules]
      /\ rules'.ports = rules.ports
      /\ rules'.ips = IF files[0] = o THEN WithIp(rules.ips, add, ip) ELSE rules.ips
  BY <1>1, <1>5 DEF WithIp
<1> HIDE DEF addresses
<1>7. /\ black' \in [Ids -> SUBSET Ips] /\ ports' \in [Ids -> SUBSET Rules] /\ DeadEmpty'
      /\ \A id \in Ids : <<0, id>> \in Live' => black'[id] = addresses[id]
      /\ \A id \in Ids : <<2, id>> \in Live' => ports'[id] = ports[id]
      /\ \A id \in Ids : black'[id] \in {{}, addresses[id]} /\ ports'[id] \in {{}, ports[id]}
  BY <1>1, <1>3, <1>5, ContentsAre
<1> QED  BY <1>2, <1>4, <1>6, <1>7 DEF Maps3, PortsSame

(* What a change of a port's bits in map o does.                             *)
PortChange(o, add, port, proto) ==
    /\ Maps3' /\ DeadEmpty' /\ BlackSame
    /\ \A id \in Ids : id # o[2] =>
         /\ <<2, id>> \in Live' => ports'[id] = ports[id]
         /\ ports'[id] \subseteq ports[id]
    /\ o \in Live' => ports'[o[2]] = IF add THEN ports[o[2]] \cup {<<port, proto>>}
                                     ELSE ports[o[2]] \ {<<port, proto>>}
    /\ rules'.ips = rules.ips
    /\ rules'.ports = IF files[2] # o THEN rules.ports
                      ELSE IF add THEN rules.ports \cup {<<port, proto>>}
                           ELSE rules.ports \ {<<port, proto>>}

LEMMA SetPortMaps ==
    ASSUME NEW o, o \in {2} \X Ids, Maps3, NEW add \in BOOLEAN, NEW port \in Ports,
           NEW proto \in Protos, NEW bits, bits = BitsOf(o, port),
           SetPort(o, add, port, proto, bits)
    PROVE  PortChange(o, add, port, proto)
<1> DEFINE written == [ports EXCEPT ![o[2]] = WithBits(@, port, NewBits(bits, add, proto))]
           new == IF add THEN ports[o[2]] \cup {<<port, proto>>}
                  ELSE ports[o[2]] \ {<<port, proto>>}
<1>1. black \in [Ids -> SUBSET Ips] /\ ports \in [Ids -> SUBSET Rules]
      /\ rules \in [ips : SUBSET Ips, ports : SUBSET Rules]
  BY DEF Maps3
<1>2. o[2] \in Ids /\ o = <<2, o[2]>> /\ <<port, proto>> \in Rules  BY DEF Rules
<1>3. WithBits(ports[o[2]], port, NewBits(bits, add, proto)) = new
  <2>1. /\ WithBits(ports[o[2]], port, BitsOf(o, port) \cup {proto})
             = ports[o[2]] \cup {<<port, proto>>}
        /\ WithBits(ports[o[2]], port, BitsOf(o, port) \ {proto})
             = ports[o[2]] \ {<<port, proto>>}
    BY ONLY Maps3, o \in {2} \X Ids, port \in Ports, proto \in Protos, BitsWritten
  <2>2. CASE add  BY ONLY <2>1, <2>2, bits = BitsOf(o, port) DEF NewBits
  <2>3. CASE ~ add  BY ONLY <2>1, <2>3, bits = BitsOf(o, port) DEF NewBits
  <2> QED  BY <2>2, <2>3
<1>4. written[o[2]] = new /\ \A id \in Ids \ {o[2]} : written[id] = ports[id]
  BY <1>1, <1>2, <1>3
<1>5. written \in [Ids -> SUBSET Rules]
  <2>1. new \in SUBSET Rules  BY <1>1, <1>2
  <2> HIDE DEF new
  <2> QED  BY <1>1, <1>2, <1>3, <2>1
<1>6. /\ Contents(black, written)
      /\ rules' = IF files[2] # o THEN rules
                  ELSE [rules EXCEPT !.ports = IF add THEN @ \cup {<<port, proto>>}
                                               ELSE @ \ {<<port, proto>>}]
  BY DEF SetPort
<1>7. /\ rules' \in [ips : SUBSET Ips, ports : SUBSET Rules]
      /\ rules'.ips = rules.ips
      /\ rules'.ports = IF files[2] # o THEN rules.ports
                        ELSE IF add THEN rules.ports \cup {<<port, proto>>}
                             ELSE rules.ports \ {<<port, proto>>}
  BY <1>1, <1>2, <1>6
<1> HIDE DEF written
<1>8. /\ black' \in [Ids -> SUBSET Ips] /\ ports' \in [Ids -> SUBSET Rules] /\ DeadEmpty'
      /\ \A id \in Ids : <<0, id>> \in Live' => black'[id] = black[id]
      /\ \A id \in Ids : <<2, id>> \in Live' => ports'[id] = written[id]
      /\ \A id \in Ids : black'[id] \in {{}, black[id]} /\ ports'[id] \in {{}, written[id]}
  BY <1>1, <1>5, <1>6, ContentsAre
<1> QED  BY <1>2, <1>4, <1>7, <1>8 DEF PortChange, Maps3, BlackSame

-----------------------------------------------------------------------------
(* Types and Holds *)

LEMMA TypesMaps == Types => Maps3
BY DEF Types, Maps3

LEMMA ObjOfIs ==
    /\ \A i \in Maps : {i} \X Ids \subseteq Objs /\ {i} \X Ids \subseteq ObjOf(i)
    /\ None \notin Objs /\ Objs = Maps \X Ids /\ \A i \in Maps : None \in ObjOf(i)
    /\ \A i \in Maps : \A o \in ObjOf(i) : o # None => o \in {i} \X Ids
BY BlacklistAssumption DEF ObjOf, Objs

LEMMA MapsAre == Maps = {0, 1, 2, 3, 4}
BY DEF Maps

LEMMA InObjs == {0} \X Ids \subseteq Objs /\ {2} \X Ids \subseteq Objs
BY DEF Objs, Maps

LEMMA NextMapIs ==
    ASSUME NEW t \in ToolSet
    PROVE  /\ NextMap(t) \in ToolSet
           /\ NextMap(t).fd = t.fd /\ NextMap(t).marked = t.marked
           /\ \/ NextMap(t).pc = "export" /\ t.at = 4
              \/ NextMap(t).pc = t.pc /\ t.at # 4 /\ NextMap(t).at = t.at + 1
<1>1. t.at \in 0 .. 4 /\ (t.at # 4 => t.at + 1 \in 0 .. 4)  BY DEF ToolSet, Maps
<1> QED  BY <1>1 DEF NextMap, ToolSet, Maps, LoaderPcs

LEMMA ToExportIs ==
    ASSUME Types, tool.marked # {}
    PROVE  ToExport \in tool.marked /\ ToExport \in Maps
<1>1. tool.marked \subseteq Maps /\ tool.marked \in SUBSET Nat
  BY DEF Types, ToolSet, Maps
<1>2. PICK m \in tool.marked : TRUE  OBVIOUS
<1>3. \E i \in tool.marked : \A j \in tool.marked : i <= j  BY <1>1, <1>2, LeastOf
<1> QED  BY <1>1, <1>3 DEF ToExport

LEMMA NoToolIs == NoTool \in ToolSet
BY DEF NoTool, ToolSet, LoaderPcs, Maps

LEMMA NoCmdIs == NoCmd \in CmdSet /\ NoCmd.pc = "idle" /\ NoCmd.obj = None
BY DEF NoCmd, CmdSet, CmdPcs, Protos

LEMMA InitTypes == Init => Types /\ \A k \in Cmds : Holds(cmd[k])
<1> SUFFICES ASSUME Init PROVE Types /\ \A k \in Cmds : Holds(cmd[k])  OBVIOUS
<1>1. cmd \in [Cmds -> CmdSet] /\ \A k \in Cmds : Holds(cmd[k])
  BY NoCmdIs DEF Init, Holds
<1>2. tool \in ToolSet /\ \A i \in Maps : tool.fd[i] \in ObjOf(i)
  BY NoToolIs, ObjOfIs DEF Init, NoTool
<1> QED  BY <1>1, <1>2, ObjOfIs, BlacklistAssumption DEF Init, Types

(* The loader's steps that leave the maps alone.                             *)
LEMMA LoaderTypes ==
    ASSUME Types, MapsUnchanged, cmd' = cmd,
           StartLoad \/ LoadPinned \/ CreateMap \/ PinMap \/ PinFails \/ Attach
             \/ LookupTestPort \/ Detach \/ DetachFails \/ ToolStops,
           Loader
    PROVE  Types'
<1>0. Maps3'  BY TypesMaps, SameMaps
<1> USE DEF Types
<1>1. CASE StartLoad
  <2>1. tool' \in ToolSet  BY <1>1, NoToolIs DEF StartLoad, ToolSet, LoaderPcs
  <2>2. \A i \in Maps : tool'.fd[i] \in ObjOf(i)  BY <1>1, ObjOfIs DEF StartLoad, NoTool
  <2> QED  BY <1>0, <1>1, <2>1, <2>2 DEF StartLoad, Maps3
<1>2. CASE LoadPinned
  <2> DEFINE t == [tool EXCEPT !.fd[tool.at] = files[tool.at]]
  <2>1. t \in ToolSet /\ \A i \in Maps : t.fd[i] \in ObjOf(i)  BY DEF ToolSet
  <2>2. tool' = NextMap(t)  BY <1>2 DEF LoadPinned
  <2> HIDE DEF t
  <2>3. tool' \in ToolSet /\ \A i \in Maps : tool'.fd[i] \in ObjOf(i)
    BY <2>1, <2>2, NextMapIs
  <2> QED  BY <1>0, <1>2, <2>3 DEF LoadPinned, Maps3
<1>3. CASE CreateMap
  <2>1. PICK id \in Ids :
          tool' = NextMap([tool EXCEPT !.fd[tool.at] = <<MapData[tool.at], id>>,
                                       !.marked = @ \cup {tool.at}])
    BY <1>3 DEF CreateMap
  <2> DEFINE t == [tool EXCEPT !.fd[tool.at] = <<MapData[tool.at], id>>,
                               !.marked = @ \cup {tool.at}]
  <2>2. tool.at \in Maps /\ <<MapData[tool.at], id>> \in {tool.at} \X Ids
    BY MapDataIs DEF ToolSet
  <2>3. <<MapData[tool.at], id>> \in Objs /\ <<MapData[tool.at], id>> \in ObjOf(tool.at)
    BY <2>2, ObjOfIs
  <2>4. t \in ToolSet /\ \A i \in Maps : t.fd[i] \in ObjOf(i)
    BY <2>2, <2>3 DEF ToolSet
  <2>5. tool' = NextMap(t)  BY <2>1
  <2> HIDE DEF t
  <2>6. tool' \in ToolSet /\ \A i \in Maps : tool'.fd[i] \in ObjOf(i)
    BY <2>4, <2>5, NextMapIs
  <2> QED  BY <1>0, <1>3, <2>6 DEF CreateMap, Maps3
<1>4. CASE PinMap
  <2>1. ToExport \in Maps /\ tool.fd[ToExport] \in ObjOf(ToExport)
        /\ tool.fd[ToExport] \in Objs \cup {None}
    BY <1>4, ToExportIs DEF PinMap, ToolSet
  <2>2. files' \in [Maps -> Objs \cup {None}] /\ \A i \in Maps : files'[i] \in ObjOf(i)
    BY <1>4, <2>1 DEF PinMap
  <2>3. tool' \in ToolSet /\ tool'.fd = tool.fd  BY <1>4 DEF PinMap, Exported, ToolSet
  <2> QED  BY <1>0, <1>4, <2>2, <2>3 DEF PinMap, Maps3
<1>5. CASE PinFails
  <2>1. tool' \in ToolSet /\ tool'.fd = tool.fd  BY <1>5 DEF PinFails, Exported, ToolSet
  <2>2. mishaps' \in 0 .. MaxMishaps  BY <1>5, BlacklistAssumption DEF PinFails, Mishap
  <2> QED  BY <1>0, <1>5, <2>1, <2>2 DEF PinFails, Maps3
<1>6. CASE Attach
  <2>1. \A s \in Maps : attached'[s] = tool.fd[s]  BY <1>6, RelocatedIs DEF Attach
  <2>2. \A s \in Maps : tool.fd[s] # None /\ tool.fd[s] \in Objs
    BY <1>6 DEF Attach, Loader, ToolSet
  <2>3. attached' \in [Maps -> Objs]  BY <1>6, <2>1, <2>2 DEF Attach, Relocated
  <2>4. tool' \in ToolSet /\ tool'.fd = tool.fd  BY <1>6 DEF Attach, Goto, ToolSet, LoaderPcs
  <2> QED  BY <1>0, <1>6, <2>1, <2>3, <2>4 DEF Attach, Maps3
<1>7. CASE LookupTestPort
  <2>1. tool' \in ToolSet /\ tool'.fd = tool.fd
    BY <1>7 DEF LookupTestPort, BitsOf, ToolSet, LoaderPcs
  <2> QED  BY <1>0, <1>7, <2>1 DEF LookupTestPort, Maps3
<1>8. CASE Detach \/ DetachFails
  <2>1. tool' = [NoTool EXCEPT !.pc = "unlink"]  BY <1>8 DEF Detach, DetachFails
  <2>2. tool' \in ToolSet  BY <2>1, NoToolIs DEF ToolSet, LoaderPcs
  <2>3. \A i \in Maps : tool'.fd[i] \in ObjOf(i)  BY <2>1, ObjOfIs DEF NoTool
  <2>4. mishaps' \in 0 .. MaxMishaps  BY <1>8, BlacklistAssumption DEF Detach, DetachFails, Mishap
  <2> QED  BY <1>0, <1>8, <2>2, <2>3, <2>4 DEF Detach, DetachFails, Maps3
<1>9. CASE ToolStops
  <2>1. tool' = NoTool  BY <1>9 DEF ToolStops
  <2>2. \A i \in Maps : tool'.fd[i] \in ObjOf(i)  BY <2>1, ObjOfIs DEF NoTool
  <2>3. mishaps' \in 0 .. MaxMishaps  BY <1>9, BlacklistAssumption DEF ToolStops, Mishap
  <2> QED  BY <1>0, <1>9, <2>1, <2>2, <2>3, NoToolIs DEF ToolStops, Maps3
<1> QED  BY <1>1, <1>2, <1>3, <1>4, <1>5, <1>6, <1>7, <1>8, <1>9

(* The loader's steps that change the maps.                                  *)
FdIs(i) == tool.fd[i] \in {i} \X Ids /\ tool.fd[i] = <<i, tool.fd[i][2]>>

LEMMA DescriptorIs ==
    ASSUME Types, NEW i \in Maps, tool.fd[i] # None
    PROVE  FdIs(i)
BY ObjOfIs DEF Types, FdIs

LEMMA AddTestIpTypes ==
    ASSUME Types, Loader, AddTestIp
    PROVE  Types' /\ FdIs(0) /\ SetIp(tool.fd[0], TRUE, TestIp)
<1>0. FdIs(0)  BY DescriptorIs, MapsAre DEF AddTestIp, Loader
<1>1. SetIp(tool.fd[0], TRUE, TestIp) /\ TestIp \in Ips /\ TRUE \in BOOLEAN
  BY BlacklistAssumption DEF AddTestIp
<1>2. Maps3'  BY <1>0, <1>1, TypesMaps, SetIpMaps DEF FdIs
<1>3. tool' \in ToolSet /\ tool'.fd = tool.fd
  BY DEF AddTestIp, Goto, Types, ToolSet, LoaderPcs
<1> QED  BY <1>0, <1>1, <1>2, <1>3 DEF AddTestIp, Types, Maps3

LEMMA AddTestPortTypes ==
    ASSUME Types, Loader, Bits, AddTestPort
    PROVE  /\ Types' /\ FdIs(2) /\ tool.bits = BitsOf(tool.fd[2], TestPort)
           /\ SetPort(tool.fd[2], TRUE, TestPort, "udp", tool.bits)
<1>0. FdIs(2)  BY DescriptorIs, MapsAre DEF AddTestPort, Loader
<1>1. /\ SetPort(tool.fd[2], TRUE, TestPort, "udp", tool.bits)
      /\ TestPort \in Ports /\ "udp" \in Protos /\ TRUE \in BOOLEAN
      /\ tool.bits = BitsOf(tool.fd[2], TestPort)
  BY BlacklistAssumption DEF AddTestPort, Bits, Protos
<1>2. Maps3'  BY <1>0, <1>1, TypesMaps, SetPortMaps DEF FdIs, PortChange
<1>3. \A i \in Maps : tool'.fd[i] \in ObjOf(i)  BY ObjOfIs DEF AddTestPort, NoTool
<1> QED  BY <1>0, <1>1, <1>2, <1>3, NoToolIs DEF AddTestPort, Types, Maps3

LEMMA UnlinkTypes ==
    ASSUME Types, Unlink
    PROVE  /\ Types' /\ DeadEmpty' /\ LiveSame
<1> USE DEF Types
<1>1. Contents(black, ports)  BY DEF Unlink
<1>2. LiveSame /\ DeadEmpty' /\ black' \in [Ids -> SUBSET Ips] /\ ports' \in [Ids -> SUBSET Rules]
  BY <1>1, ContentsAre DEF LiveSame, BlackSame, PortsSame
<1>3. rules' \in [ips : SUBSET Ips, ports : SUBSET Rules]  BY DEF Unlink
<1>4. files' \in [Maps -> Objs \cup {None}] /\ \A i \in Maps : files'[i] \in ObjOf(i)
  BY ObjOfIs DEF Unlink
<1>5. mishaps' \in 0 .. MaxMishaps  BY BlacklistAssumption DEF Unlink, Mishap
<1>6. tool' \in ToolSet /\ \A i \in Maps : tool'.fd[i] \in ObjOf(i)
  <2>1. CASE tool.at = 4
    BY <2>1, NoToolIs, ObjOfIs DEF Unlink, NoTool
  <2>2. CASE tool.at # 4
    <3>1. tool.at + 1 \in Maps  BY <2>2 DEF ToolSet, Maps
    <3> QED  BY <2>2, <3>1 DEF Unlink, ToolSet
  <2> QED  BY <2>1, <2>2
<1> QED  BY <1>2, <1>3, <1>4, <1>5, <1>6 DEF Unlink

LEMMA BecomeIs ==
    ASSUME NEW k \in Cmds, NEW c, c \in CmdSet, Holds(c), Become(k, c),
           Types, \A l \in Cmds : Holds(cmd[l])
    PROVE  /\ cmd' \in [Cmds -> CmdSet] /\ \A l \in Cmds : Holds(cmd'[l])
           /\ cmd'[k] = c /\ \A l \in Cmds \ {k} : cmd'[l] = cmd[l]
<1>1. cmd' = [cmd EXCEPT ![k] = c] /\ cmd \in [Cmds -> CmdSet]  BY DEF Become, Types
<1>2. /\ cmd' \in [Cmds -> CmdSet] /\ cmd'[k] = c
      /\ \A l \in Cmds \ {k} : cmd'[l] = cmd[l]
  BY <1>1
<1>3. ASSUME NEW l \in Cmds PROVE Holds(cmd'[l])
  <2>1. CASE l = k  BY <1>2, <2>1
  <2>2. CASE l # k  BY <1>2, <2>2
  <2> QED  BY <2>1, <2>2
<1> QED  BY <1>2, <1>3

CmdQuiet(k) == StartModify(k) \/ OpenIp(k) \/ OpenPort(k) \/ LookupPort(k)
                 \/ StartList(k) \/ OpenList(k) \/ PrintIp(k) \/ CmdEnds(k)

(* A command's steps that leave the maps alone: which record it becomes.     *)
LEMMA Records ==
    ASSUME Types, NEW k \in Cmds, Holds(cmd[k]), CmdQuiet(k)
    PROVE  \E c \in CmdSet : Holds(c) /\ Become(k, c)
<1>0. NoCmd \in CmdSet /\ Holds(NoCmd)  BY NoCmdIs DEF Holds, NoCmd
<1>1. cmd[k] \in CmdSet  BY DEF Types
<1>2. \A i \in Maps : files[i] # None => files[i] \in {i} \X Ids /\ files[i] \in Objs
  BY ObjOfIs DEF Types
<1>3. CASE StartModify(k)
  <2>1. PICK add \in BOOLEAN :
          \/ \E ip \in Ips :
               Become(k, [NoCmd EXCEPT !.pc = "openip", !.add = add, !.ip = ip])
          \/ \E port \in Ports, proto \in Protos :
               Become(k, [NoCmd EXCEPT !.pc = "openport", !.add = add,
                                       !.port = port, !.proto = proto])
    BY <1>3 DEF StartModify
  <2>2. ASSUME NEW ip \in Ips,
               Become(k, [NoCmd EXCEPT !.pc = "openip", !.add = add, !.ip = ip])
        PROVE  \E c \in CmdSet : Holds(c) /\ Become(k, c)
    <3> DEFINE c == [NoCmd EXCEPT !.pc = "openip", !.add = add, !.ip = ip]
    <3>1. c \in CmdSet  BY <1>0 DEF CmdSet, CmdPcs
    <3>2. Holds(c)  BY DEF Holds, NoCmd
    <3> QED  BY <2>2, <3>1, <3>2
  <2>3. ASSUME NEW port \in Ports, NEW proto \in Protos,
               Become(k, [NoCmd EXCEPT !.pc = "openport", !.add = add,
                                       !.port = port, !.proto = proto])
        PROVE  \E c \in CmdSet : Holds(c) /\ Become(k, c)
    <3> DEFINE c == [NoCmd EXCEPT !.pc = "openport", !.add = add,
                                  !.port = port, !.proto = proto]
    <3>1. c \in CmdSet  BY <1>0 DEF CmdSet, CmdPcs
    <3>2. Holds(c)  BY DEF Holds, NoCmd
    <3> QED  BY <2>3, <3>1, <3>2
  <2> QED  BY <2>1, <2>2, <2>3
<1>4. CASE OpenIp(k)
  <2>1. CASE files[0] = None  BY <1>0, <1>4, <2>1 DEF OpenIp
  <2>2. CASE files[0] # None
    <3> DEFINE c == [cmd[k] EXCEPT !.pc = "ip", !.obj = files[0]]
    <3>1. c \in CmdSet  BY <1>1, <1>2, <2>2, MapsAre DEF CmdSet, CmdPcs
    <3>2. Holds(c)  BY <1>1, <1>2, <1>4, <2>2, MapsAre DEF Holds, OpenIp, CmdSet
    <3> QED  BY <1>4, <2>2, <3>1, <3>2 DEF OpenIp
  <2> QED  BY <2>1, <2>2
<1>5. CASE OpenPort(k)
  <2>1. CASE files[2] = None \/ files[CountMap(cmd[k].proto)] = None
    BY <1>0, <1>5, <2>1 DEF OpenPort
  <2>2. CASE ~ (files[2] = None \/ files[CountMap(cmd[k].proto)] = None)
    <3> DEFINE c == [cmd[k] EXCEPT !.pc = "read", !.obj = files[2]]
    <3>1. c \in CmdSet  BY <1>1, <1>2, <2>2, MapsAre DEF CmdSet, CmdPcs
    <3>2. Holds(c)  BY <1>1, <1>2, <1>5, <2>2, MapsAre DEF Holds, OpenPort, CmdSet
    <3> QED  BY <1>5, <2>2, <3>1, <3>2 DEF OpenPort
  <2> QED  BY <2>1, <2>2
<1>6. CASE LookupPort(k)
  <2> DEFINE c == [cmd[k] EXCEPT !.pc = "update", !.bits = BitsOf(cmd[k].obj, cmd[k].port)]
  <2>1. c \in CmdSet  BY <1>1 DEF CmdSet, CmdPcs, BitsOf
  <2>2. Holds(c)  BY <1>1, <1>6 DEF Holds, LookupPort, CmdSet
  <2> QED  BY <1>6, <2>1, <2>2 DEF LookupPort
<1>7. CASE StartList(k)
  <2> DEFINE c == [NoCmd EXCEPT !.pc = "openlist"]
  <2>1. c \in CmdSet  BY <1>0 DEF CmdSet, CmdPcs
  <2>2. Holds(c)  BY DEF Holds, NoCmd
  <2> QED  BY <1>7, <2>1, <2>2 DEF StartList
<1>8. CASE OpenList(k)
  <2>1. CASE files[0] = None  BY <1>0, <1>8, <2>1 DEF OpenList
  <2>2. CASE files[0] # None
    <3> DEFINE c == [cmd[k] EXCEPT !.pc = "first", !.obj = files[0],
                                   !.owed = black[files[0][2]]]
    <3>0. files[0] \in {0} \X Ids /\ files[0] \in Objs  BY <1>2, <2>2, MapsAre
    <3>1. black[files[0][2]] \in SUBSET Ips  BY <3>0 DEF Types
    <3>2. c \in CmdSet  BY <1>1, <3>0, <3>1 DEF CmdSet, CmdPcs
    <3>3. Holds(c)  BY <1>1, <1>8, <3>0 DEF Holds, CmdSet, OpenList
    <3> QED  BY <1>8, <2>2, <3>2, <3>3 DEF OpenList
  <2> QED  BY <2>1, <2>2
<1>9. CASE PrintIp(k)
  <2> DEFINE set  == black[cmd[k].obj[2]]
             next == After(set, cmd[k].key)
  <2>0. set \in SUBSET Ips /\ cmd[k].key \in Ips \cup {ZeroIp}
    BY <1>1, <1>9 DEF Types, PrintIp, Holds, CmdSet
  <2>1. next = None \/ next \in Ips
    <3> HIDE DEF set
    <3> QED  BY <2>0, AfterIs
  <2> HIDE DEF next
  <2>2. Owed(k) \subseteq Ips  BY <1>1 DEF Owed, CmdSet
  <2>3. CASE next = None
    <3> DEFINE c == [NoCmd EXCEPT !.pc = "listed", !.owed = Owed(k)]
    <3>1. c \in CmdSet  BY <1>0, <2>2 DEF CmdSet, CmdPcs
    <3>2. Holds(c)  BY <1>0 DEF Holds, CmdSet
    <3> QED  BY <1>9, <2>3, <3>1, <3>2 DEF PrintIp, Printing, next
  <2>4. CASE next # None
    <3> DEFINE c == [cmd[k] EXCEPT !.pc = "next", !.key = next, !.owed = Owed(k) \ {next}]
    <3>1. c \in CmdSet  BY <1>1, <2>1, <2>2, <2>4 DEF CmdSet, CmdPcs
    <3>2. Holds(c)  BY <1>1, <1>9 DEF Holds, CmdSet, PrintIp
    <3> QED  BY <1>9, <2>4, <3>1, <3>2 DEF PrintIp, Printing, next
  <2> QED  BY <2>3, <2>4
<1>10. CASE CmdEnds(k)  BY <1>0, <1>10 DEF CmdEnds
<1> QED  BY <1>3, <1>4, <1>5, <1>6, <1>7, <1>8, <1>9, <1>10 DEF CmdQuiet

Machine == <<files, attached, tool, mishaps, warned>>

LEMMA QuietIs ==
    ASSUME NEW k \in Cmds, CmdQuiet(k)
    PROVE  MapsUnchanged /\ UNCHANGED Machine
BY DEF CmdQuiet, StartModify, OpenIp, OpenPort, LookupPort, StartList, OpenList,
       PrintIp, CmdEnds, MachineUnchanged, ToolUnchanged, Machine

LEMMA QuietTypes ==
    ASSUME Types, \A l \in Cmds : Holds(cmd[l]), NEW k \in Cmds, CmdQuiet(k)
    PROVE  /\ Types' /\ \A l \in Cmds : Holds(cmd'[l])
           /\ \A l \in Cmds \ {k} : cmd'[l] = cmd[l]
<1>1. PICK c \in CmdSet : Holds(c) /\ Become(k, c)  BY Records
<1>2. /\ cmd' \in [Cmds -> CmdSet] /\ \A l \in Cmds : Holds(cmd'[l])
      /\ \A l \in Cmds \ {k} : cmd'[l] = cmd[l]
  BY <1>1, BecomeIs
<1>3. MapsUnchanged /\ UNCHANGED Machine  BY QuietIs
<1>4. Maps3'  BY <1>3, TypesMaps, SameMaps
<1> QED  BY <1>2, <1>3, <1>4 DEF Types, Machine, Maps3

(* The record that a deletion leaves to another command.                     *)
Deleted(l, k) == IF cmd[l].obj = cmd[k].obj /\ ~ cmd[k].add
                 THEN [cmd[l] EXCEPT !.owed = @ \ {cmd[k].ip}] ELSE cmd[l]

LEMMA ModifyIpTypes ==
    ASSUME Types, \A l \in Cmds : Holds(cmd[l]), NEW k \in Cmds, ModifyIp(k)
    PROVE  /\ Types' /\ \A l \in Cmds : Holds(cmd'[l])
           /\ UNCHANGED Machine
           /\ cmd'[k] = NoCmd /\ \A l \in Cmds \ {k} : cmd'[l] = Deleted(l, k)
           /\ cmd[k].obj \in {0} \X Ids /\ cmd[k].ip \in Ips /\ cmd[k].add \in BOOLEAN
           /\ SetIp(cmd[k].obj, cmd[k].add, cmd[k].ip)
<1>1. cmd[k] \in CmdSet /\ cmd[k].pc = "ip"  BY DEF Types, ModifyIp
<1>2. cmd[k].obj \in {0} \X Ids /\ cmd[k].ip \in Ips /\ cmd[k].add \in BOOLEAN
  BY <1>1 DEF Holds, CmdSet
<1>3. SetIp(cmd[k].obj, cmd[k].add, cmd[k].ip) /\ UNCHANGED Machine
  BY DEF ModifyIp, MachineUnchanged, ToolUnchanged, Machine
<1>4. Maps3'  BY <1>2, <1>3, TypesMaps, SetIpMaps
<1>5. cmd' = [l \in Cmds |-> IF l = k THEN NoCmd ELSE Deleted(l, k)]
  BY DEF ModifyIp, Deleted
<1>6. ASSUME NEW l \in Cmds PROVE Deleted(l, k) \in CmdSet /\ Holds(Deleted(l, k))
  <2>1. cmd[l] \in CmdSet /\ Holds(cmd[l])  BY DEF Types
  <2>2. [cmd[l] EXCEPT !.owed = @ \ {cmd[k].ip}] \in CmdSet  BY <2>1 DEF CmdSet
  <2>3. Holds([cmd[l] EXCEPT !.owed = @ \ {cmd[k].ip}])  BY <2>1 DEF Holds, CmdSet
  <2> QED  BY <2>1, <2>2, <2>3 DEF Deleted
<1>7. Holds(NoCmd) /\ NoCmd \in CmdSet  BY NoCmdIs DEF Holds, NoCmd
<1>8. /\ cmd' \in [Cmds -> CmdSet] /\ \A l \in Cmds : Holds(cmd'[l])
      /\ cmd'[k] = NoCmd /\ \A l \in Cmds \ {k} : cmd'[l] = Deleted(l, k)
  BY <1>5, <1>6, <1>7
<1> QED  BY <1>2, <1>3, <1>4, <1>8 DEF Types, Machine, Maps3

LEMMA UpdatePortTypes ==
    ASSUME Types, \A l \in Cmds : Holds(cmd[l]), Bits, NEW k \in Cmds, UpdatePort(k)
    PROVE  /\ Types' /\ \A l \in Cmds : Holds(cmd'[l])
           /\ UNCHANGED Machine
           /\ cmd'[k] = NoCmd /\ \A l \in Cmds \ {k} : cmd'[l] = cmd[l]
           /\ cmd[k].obj \in {2} \X Ids /\ cmd[k].port \in Ports /\ cmd[k].add \in BOOLEAN
           /\ cmd[k].proto \in Protos /\ cmd[k].bits = BitsOf(cmd[k].obj, cmd[k].port)
           /\ SetPort(cmd[k].obj, cmd[k].add, cmd[k].port, cmd[k].proto, cmd[k].bits)
<1>1. cmd[k] \in CmdSet /\ cmd[k].pc = "update"  BY DEF Types, UpdatePort
<1>2. /\ cmd[k].obj \in {2} \X Ids /\ cmd[k].port \in Ports /\ cmd[k].add \in BOOLEAN
      /\ cmd[k].proto \in Protos /\ cmd[k].bits = BitsOf(cmd[k].obj, cmd[k].port)
  BY <1>1 DEF Holds, CmdSet, Bits
<1>3. /\ SetPort(cmd[k].obj, cmd[k].add, cmd[k].port, cmd[k].proto, cmd[k].bits)
      /\ UNCHANGED Machine
  BY DEF UpdatePort, MachineUnchanged, ToolUnchanged, Machine
<1>4. Maps3'  BY <1>2, <1>3, TypesMaps, SetPortMaps DEF PortChange
<1>5. Holds(NoCmd) /\ NoCmd \in CmdSet  BY NoCmdIs DEF Holds, NoCmd
<1>6. /\ cmd' \in [Cmds -> CmdSet] /\ \A l \in Cmds : Holds(cmd'[l])
      /\ cmd'[k] = NoCmd /\ \A l \in Cmds \ {k} : cmd'[l] = cmd[l]
  BY <1>5, BecomeIs DEF UpdatePort
<1> QED  BY <1>2, <1>3, <1>4, <1>6 DEF Types, Machine, Maps3

-----------------------------------------------------------------------------
(* Commands that leave the maps alone                                        *)

LEMMA QuietRecord ==
    ASSUME Types, NEW k \in Cmds, CmdQuiet(k)
    PROVE  /\ cmd'[k].obj \in {None, files[0], files[2], cmd[k].obj}
           /\ cmd'[k].pc = "update" => LookupPort(k)
           /\ cmd'[k].pc \in {"first", "next", "listed"} => OpenList(k) \/ PrintIp(k)
<1>0. cmd \in [Cmds -> CmdSet] /\ cmd[k] \in CmdSet  BY DEF Types
<1>1. \A c : Become(k, c) => cmd'[k] = c  BY <1>0 DEF Become
<1>2. CASE StartModify(k)
  <2>1. cmd'[k].obj = None /\ cmd'[k].pc \in {"openip", "openport"}
    BY <1>1, <1>2 DEF StartModify, NoCmd
  <2> QED  BY <2>1
<1>3. CASE OpenIp(k)
  <2>1. cmd'[k] = NoCmd \/ cmd'[k] = [cmd[k] EXCEPT !.pc = "ip", !.obj = files[0]]
    BY <1>1, <1>3 DEF OpenIp
  <2>2. cmd'[k].obj \in {None, files[0]} /\ cmd'[k].pc \in {"idle", "ip"}
    <3>1. CASE cmd'[k] = NoCmd  BY <3>1 DEF NoCmd
    <3>2. CASE cmd'[k] # NoCmd  BY <1>0, <2>1, <3>2 DEF CmdSet
    <3> QED  BY <3>1, <3>2
  <2> QED  BY <2>2
<1>4. CASE OpenPort(k)
  <2>1. cmd'[k] = NoCmd \/ cmd'[k] = [cmd[k] EXCEPT !.pc = "read", !.obj = files[2]]
    BY <1>1, <1>4 DEF OpenPort
  <2>2. cmd'[k].obj \in {None, files[2]} /\ cmd'[k].pc \in {"idle", "read"}
    <3>1. CASE cmd'[k] = NoCmd  BY <3>1 DEF NoCmd
    <3>2. CASE cmd'[k] # NoCmd  BY <1>0, <2>1, <3>2 DEF CmdSet
    <3> QED  BY <3>1, <3>2
  <2> QED  BY <2>2
<1>5. CASE LookupPort(k)  BY <1>0, <1>1, <1>5 DEF LookupPort, CmdSet
<1>6. CASE StartList(k)  BY <1>0, <1>1, <1>6 DEF StartList, NoCmd, CmdSet
<1>7. CASE OpenList(k)
  <2>1. \/ cmd'[k] = NoCmd
        \/ cmd'[k] = [cmd[k] EXCEPT !.pc = "first", !.obj = files[0],
                                    !.owed = black[files[0][2]]]
    BY <1>1, <1>7 DEF OpenList
  <2>2. cmd'[k].obj \in {None, files[0]} /\ cmd'[k].pc \in {"idle", "first"}
    <3>1. CASE cmd'[k] = NoCmd  BY <3>1 DEF NoCmd
    <3>2. CASE cmd'[k] # NoCmd  BY <1>0, <2>1, <3>2 DEF CmdSet
    <3> QED  BY <3>1, <3>2
  <2> QED  BY <1>7, <2>2
<1>8. CASE PrintIp(k)
  <2> DEFINE ip == After(black[cmd[k].obj[2]], cmd[k].key)
  <2>1. \/ cmd'[k] = [NoCmd EXCEPT !.pc = "listed", !.owed = Owed(k)]
        \/ cmd'[k] = [cmd[k] EXCEPT !.pc = "next", !.key = ip, !.owed = Owed(k) \ {ip}]
    BY <1>1, <1>8 DEF PrintIp, Printing
  <2> HIDE DEF ip
  <2>2. cmd'[k].obj \in {None, cmd[k].obj} /\ cmd'[k].pc \in {"next", "listed"}
    BY <1>0, <2>1 DEF CmdSet, NoCmd
  <2> QED  BY <1>8, <2>2
<1>9. CASE CmdEnds(k)  BY <1>0, <1>1, <1>9 DEF CmdEnds, NoCmd, CmdSet
<1> QED  BY <1>2, <1>3, <1>4, <1>5, <1>6, <1>7, <1>8, <1>9 DEF CmdQuiet

(* What a change of the maps leaves to those that have the map open.         *)
LEMMA BlackKept ==
    ASSUME BlackSame, NEW o, o \in {0} \X Ids, o \in Live'
    PROVE  black'[o[2]] = black[o[2]]
<1>1. o[2] \in Ids /\ o = <<0, o[2]>>  OBVIOUS
<1> QED  BY <1>1 DEF BlackSame

LEMMA PortsKept ==
    ASSUME PortsSame, NEW o, o \in {2} \X Ids, o \in Live'
    PROVE  ports'[o[2]] = ports[o[2]]
<1>1. o[2] \in Ids /\ o = <<2, o[2]>>  OBVIOUS
<1> QED  BY <1>1 DEF PortsSame

LEMMA FilesAre ==
    ASSUME Types
    PROVE  /\ files[0] # None => files[0] \in {0} \X Ids
           /\ files[2] # None => files[2] \in {2} \X Ids
BY ObjOfIs, MapsAre DEF Types

LEMMA HeldKept ==
    ASSUME Types, Held, LiveSame, files' = files, rules' = rules
    PROVE  Held'
<1>1. (files[0] # None => files[0] \in Live') /\ (files[2] # None => files[2] \in Live')
  BY ReferredThen, FilesAre, InObjs, MapsAre DEF Referred
<1>2. files[0] # None => black'[files[0][2]] = black[files[0][2]]
  BY <1>1, FilesAre, BlackKept DEF LiveSame
<1>3. files[2] # None => ports'[files[2][2]] = ports[files[2][2]]
  BY <1>1, FilesAre, PortsKept DEF LiveSame
<1> QED  BY <1>2, <1>3 DEF Held

LEMMA BitsKept ==
    ASSUME Types, Bits, PortsSame, NEW k \in Cmds, cmd[k].pc = "update", Holds(cmd[k]),
           cmd'[k] = cmd[k]
    PROVE  cmd'[k].bits = BitsOf(cmd[k].obj, cmd[k].port)'
<1>1. cmd[k].obj \in {2} \X Ids /\ cmd[k].obj \in Live'
  BY ReferredThen, InObjs DEF Referred, Holds
<1>2. ports'[cmd[k].obj[2]] = ports[cmd[k].obj[2]]  BY <1>1, PortsKept
<1> QED  BY <1>2 DEF Bits, BitsOf

LEMMA ListingKept ==
    ASSUME Types, Listing, BlackSame, NEW k \in Cmds, cmd[k].pc \in {"first", "next"}, Holds(cmd[k]),
           cmd'[k].obj = cmd[k].obj
    PROVE  black'[cmd[k].obj[2]] = black[cmd[k].obj[2]]
<1>1. cmd[k].obj \in {0} \X Ids /\ cmd[k].obj \in Live'
  BY ReferredThen, InObjs DEF Referred, Holds
<1> QED  BY <1>1, BlackKept

LEMMA ToolBitsKept ==
    ASSUME Types, Loader, Bits, PortsSame, tool' = tool
    PROVE  tool.pc = "testport" => tool.bits = BitsOf(tool.fd[2], TestPort)'
<1> SUFFICES ASSUME tool.pc = "testport" PROVE tool.bits = BitsOf(tool.fd[2], TestPort)'
  OBVIOUS
<1>1. tool.fd[2] \in {2} \X Ids  BY DescriptorIs, MapsAre DEF Loader, FdIs
<1>2. tool.fd[2] \in Live'  BY <1>1, ReferredThen, InObjs, MapsAre DEF Referred
<1>3. ports'[tool.fd[2][2]] = ports[tool.fd[2][2]]  BY <1>1, <1>2, PortsKept
<1> QED  BY <1>3 DEF Bits, BitsOf

(* A map that is the loader's own stays empty, if others' get no new entries.*)
LEMMA PrivateKept ==
    ASSUME Types, Loader, Private, tool' = tool,
           0 \in tool.marked => black'[tool.fd[0][2]] \subseteq black[tool.fd[0][2]],
           2 \in tool.marked => ports'[tool.fd[2][2]] \subseteq ports[tool.fd[2][2]],
           \A i \in tool.marked, l \in Cmds : cmd'[l].obj # tool.fd[i]
    PROVE  Private'
BY DEF Private

LEMMA QuietIInv ==
    ASSUME IInv, NEW k \in Cmds, CmdQuiet(k), LookupPort(k) => k \in Modifiers
    PROVE  IInv'
<1> USE DEF IInv
<1>1. /\ Types' /\ \A l \in Cmds : Holds(cmd'[l])
      /\ \A l \in Cmds \ {k} : cmd'[l] = cmd[l]
  BY QuietTypes
<1>2. MapsUnchanged /\ UNCHANGED Machine  BY QuietIs
<1>3. /\ LiveSame /\ BlackSame /\ PortsSame
      /\ DeadEmpty' /\ rules' = rules
  BY <1>2, TypesMaps, SameMaps DEF LiveSame
<1>4. Loader' /\ Agree'  BY <1>2 DEF Loader, Agree, Machine
<1>5. /\ cmd'[k].obj \in {None, files[0], files[2], cmd[k].obj}
      /\ cmd'[k].pc = "update" => LookupPort(k)
      /\ cmd'[k].pc \in {"first", "next", "listed"} => OpenList(k) \/ PrintIp(k)
  BY QuietRecord
<1>6. Private'
  <2>1. ASSUME NEW i \in tool.marked PROVE tool.fd[i] \notin {None, files[0], files[2]}
    <3>1. i \in Maps /\ files[i] = None /\ tool.fd[i] # None
      BY DEF Loader, Types, ToolSet
    <3>2. tool.fd[i] \in {i} \X Ids  BY <3>1, ObjOfIs DEF Types
    <3> QED  BY <3>1, <3>2, FilesAre
  <2>2. ASSUME NEW i \in tool.marked, NEW l \in Cmds PROVE cmd'[l].obj # tool.fd[i]
    BY <1>1, <1>5, <2>1 DEF Private
  <2>3. /\ 0 \in tool.marked => tool.fd[0][2] \in Ids
        /\ 2 \in tool.marked => tool.fd[2][2] \in Ids
    BY DescriptorIs, MapsAre DEF Loader, FdIs
  <2> QED  BY <1>2, <1>3, <2>2, <2>3, PrivateKept DEF BlackSame, PortsSame, Machine
<1>7. Held'  BY <1>2, <1>3, HeldKept DEF Machine
<1>8. Bits'
  <2>1. tool.pc = "testport" => tool.bits = BitsOf(tool.fd[2], TestPort)'
    BY <1>2, <1>3, ToolBitsKept DEF LiveSame, Machine
  <2>2. ASSUME NEW l \in Cmds, cmd'[l].pc = "update", l # k
        PROVE  l \in Modifiers /\ cmd'[l].bits = BitsOf(cmd[l].obj, cmd[l].port)'
    BY <1>1, <1>3, <2>2, BitsKept DEF Bits
  <2>3. CASE LookupPort(k)
    <3>1. cmd'[k] = [cmd[k] EXCEPT !.pc = "update", !.bits = BitsOf(cmd[k].obj, cmd[k].port)]
      BY <2>3 DEF LookupPort, Become, Types
    <3>2. /\ cmd'[k].obj = cmd[k].obj /\ cmd'[k].port = cmd[k].port
          /\ cmd'[k].bits = BitsOf(cmd[k].obj, cmd[k].port)
      BY <3>1 DEF Types, CmdSet
    <3>3. cmd[k].obj \in {2} \X Ids  BY <2>3 DEF LookupPort, Holds
    <3>4. ports'[cmd[k].obj[2]] = ports[cmd[k].obj[2]]
      BY <1>3, <3>2, <3>3, PortsKept, ReferredThen, InObjs DEF Referred
    <3>5. cmd'[k].bits = BitsOf(cmd[k].obj, cmd[k].port)'  BY <3>2, <3>4 DEF BitsOf
    <3>6. /\ tool.pc = "testport" => cmd[k].port # TestPort
          /\ \A l \in Modifiers : cmd[l].pc = "update" => cmd[l].port # cmd[k].port
      BY <2>3 DEF LookupPort, PortFree
    <3>7. k \in Modifiers /\ \A l \in Cmds \ {k} : cmd'[l] = cmd[l]  BY <1>1, <2>3
    <3>8. tool' = tool  BY <1>2 DEF Machine
    <3>9. \A l \in Cmds : cmd'[l].pc = "update" =>
            /\ l \in Modifiers
            /\ cmd'[l].bits = BitsOf(cmd[l].obj, cmd[l].port)'
            /\ tool.pc = "testport" => cmd'[l].port # TestPort
            /\ \A m \in Cmds \ {l} : cmd'[m].pc = "update" => cmd'[m].port # cmd'[l].port
      BY <2>2, <3>2, <3>5, <3>6, <3>7 DEF Bits
    <3> QED  BY <2>1, <3>8, <3>9 DEF Bits
  <2>4. CASE cmd'[k].pc # "update"
    <3>1. tool' = tool  BY <1>2 DEF Machine
    <3>2. \A l \in Cmds : cmd'[l].pc = "update" =>
            /\ l \in Modifiers
            /\ cmd'[l].bits = BitsOf(cmd[l].obj, cmd[l].port)'
            /\ tool.pc = "testport" => cmd'[l].port # TestPort
            /\ \A m \in Cmds \ {l} : cmd'[m].pc = "update" => cmd'[m].port # cmd'[l].port
      BY <1>1, <2>2, <2>4 DEF Bits
    <3> QED  BY <2>1, <3>1, <3>2 DEF Bits
  <2> QED  BY <1>5, <2>3, <2>4
<1>9. Listing'
  <2>1. ASSUME NEW l \in Cmds, l # k
        PROVE  /\ cmd'[l].pc \in {"first", "next"} =>
                    cmd'[l].owed \subseteq black'[cmd'[l].obj[2]]
               /\ cmd'[l].pc = "next" => \A ip \in cmd'[l].owed : ip > cmd'[l].key
               /\ cmd'[l].pc = "listed" => cmd'[l].owed = {}
    BY <1>1, <1>3, <2>1, ListingKept DEF Listing
  <2>2. ASSUME cmd'[k].pc \in {"first", "next", "listed"}
        PROVE  /\ cmd'[k].pc \in {"first", "next"} =>
                    cmd'[k].owed \subseteq black'[cmd'[k].obj[2]]
               /\ cmd'[k].pc = "next" => \A ip \in cmd'[k].owed : ip > cmd'[k].key
               /\ cmd'[k].pc = "listed" => cmd'[k].owed = {}
    <3>0. cmd[k] \in CmdSet /\ cmd \in [Cmds -> CmdSet]  BY DEF Types
    <3>1. CASE OpenList(k)
      <4>1. files[0] # None
        BY <2>2, <3>0, <3>1 DEF OpenList, Become, NoCmd
      <4>2. cmd'[k] = [cmd[k] EXCEPT !.pc = "first", !.obj = files[0],
                                     !.owed = black[files[0][2]]]
        BY <3>0, <3>1, <4>1 DEF OpenList, Become
      <4>3. cmd'[k].pc = "first" /\ cmd'[k].obj = files[0]
            /\ cmd'[k].owed = black[files[0][2]]
        BY <3>0, <4>2 DEF CmdSet
      <4>4. files[0] \in {0} \X Ids /\ files[0] \in Objs  BY <4>1, FilesAre, MapsAre DEF Types
      <4>5. files[0] \in Live'  BY <4>3, <4>4, ReferredThen DEF Referred
      <4>6. black'[files[0][2]] = black[files[0][2]]
        BY <1>3, <4>4, <4>5, BlackKept
      <4> QED  BY <4>3, <4>6
    <3>2. CASE PrintIp(k)
      <4> DEFINE set  == black[cmd[k].obj[2]]
                 key  == cmd[k].key
                 next == After(set, key)
                 owed == Owed(k)
      <4>0. cmd[k].pc \in {"first", "next"} /\ cmd[k].obj \in {0} \X Ids
        BY <3>2 DEF PrintIp, Holds
      <4>1. set \in SUBSET Ips /\ key \in Ips \cup {ZeroIp}
        BY <3>0, <4>0 DEF Types, CmdSet
      <4>2. cmd[k].owed \subseteq set
            /\ (cmd[k].pc = "first" => key = ZeroIp)
            /\ (cmd[k].pc = "next" => \A ip \in cmd[k].owed : ip > key)
        BY <4>0 DEF Listing, Holds
      <4>3. owed \subseteq set /\ \A ip \in owed : key \in set => ip > key
        <5>1. CASE cmd[k].pc = "first"
          <6>1. owed = IF ZeroIp \in set THEN {ip \in cmd[k].owed : ip > ZeroIp}
                       ELSE cmd[k].owed
            BY <5>1 DEF Owed
          <6> HIDE DEF set, key, owed
          <6> QED  BY <4>2, <5>1, <6>1
        <5>2. CASE cmd[k].pc = "next"
          <6>1. owed = cmd[k].owed  BY <5>2 DEF Owed
          <6> HIDE DEF set, key, owed
          <6> QED  BY <4>2, <5>2, <6>1
        <5> QED  BY <4>0, <5>1, <5>2
      <4> HIDE DEF set, key, owed
      <4>4. \/ next = None /\ \A ip \in set : key \in set /\ ~ (ip > key)
            \/ next \in set /\ \A ip \in set : key \notin set \/ ip > key => next <= ip
        BY <4>1, AfterIs
      <4> HIDE DEF next
      <4>5. set \subseteq Nat /\ None \notin set  BY <4>1, BlacklistAssumption
      <4>6. CASE next = None
        <5>1. cmd'[k] = [NoCmd EXCEPT !.pc = "listed", !.owed = owed]
          BY <3>0, <3>2, <4>6 DEF PrintIp, Printing, Become, set, key, next, owed
        <5>2. cmd'[k].pc = "listed" /\ cmd'[k].owed = owed
          BY <5>1, NoCmdIs DEF CmdSet
        <5>3. owed = {}  BY <4>3, <4>4, <4>5, <4>6
        <5> QED  BY <5>2, <5>3
      <4>7. CASE next # None
        <5>1. cmd'[k] = [cmd[k] EXCEPT !.pc = "next", !.key = next, !.owed = owed \ {next}]
          BY <3>0, <3>2, <4>7 DEF PrintIp, Printing, Become, set, key, next, owed
        <5>2. /\ cmd'[k].pc = "next" /\ cmd'[k].owed = owed \ {next}
              /\ cmd'[k].key = next /\ cmd'[k].obj = cmd[k].obj
          BY <3>0, <5>1 DEF CmdSet
        <5>3. black'[cmd'[k].obj[2]] = set
          BY <1>3, <4>0, <5>2, ListingKept DEF set
        <5>4. ASSUME NEW ip \in owed \ {next} PROVE ip > next
          <6>1. ip \in set /\ ip \in Nat /\ next \in Nat  BY <4>3, <4>4, <4>5, <4>7
          <6>2. next <= ip  BY <4>3, <4>4, <4>7, <6>1
          <6> QED  BY <6>1, <6>2
        <5> QED  BY <4>3, <5>2, <5>3, <5>4
      <4> QED  BY <4>6, <4>7
    <3> QED  BY <1>5, <2>2, <3>1, <3>2
  <2> QED  BY <2>1, <2>2 DEF Listing
<1> QED  BY <1>1, <1>3, <1>4, <1>6, <1>7, <1>8, <1>9

-----------------------------------------------------------------------------
(* Steps that change a rule                                                  *)

LEMMA SetIpHeld ==
    ASSUME NEW o, o \in {0} \X Ids, Types, Held, files' = files,
           NEW add \in BOOLEAN, NEW ip \in Ips, SetIp(o, add, ip)
    PROVE  Held'
<1>1. /\ PortsSame /\ o[2] \in Ids /\ o = <<0, o[2]>>
      /\ \A id \in Ids : id # o[2] => (<<0, id>> \in Live' => black'[id] = black[id])
      /\ o \in Live' => black'[o[2]] = WithIp(black[o[2]], add, ip)
      /\ rules'.ports = rules.ports
      /\ rules'.ips = IF files[0] = o THEN WithIp(rules.ips, add, ip) ELSE rules.ips
  BY TypesMaps, SetIpMaps
<1>2. (files[0] # None => files[0] \in Live') /\ (files[2] # None => files[2] \in Live')
  BY ReferredThen, FilesAre, InObjs, MapsAre DEF Referred
<1>3. files[2] # None => ports'[files[2][2]] = ports[files[2][2]]
  BY <1>1, <1>2, FilesAre, PortsKept
<1>4. o # None  BY ObjOfIs, MapsAre
<1>5. CASE files[0] = o  BY <1>1, <1>2, <1>3, <1>4, <1>5 DEF Held
<1>6. CASE files[0] = None  BY <1>1, <1>3, <1>4, <1>6 DEF Held
<1>7. CASE files[0] # o /\ files[0] # None
  <2>1. files[0] = <<0, files[0][2]>> /\ files[0][2] \in Ids  BY <1>7, FilesAre
  <2>2. files[0][2] # o[2]  BY <1>1, <1>7, <2>1
  <2>3. black'[files[0][2]] = black[files[0][2]]  BY <1>1, <1>2, <1>7, <2>1, <2>2
  <2> QED  BY <1>1, <1>3, <1>7, <2>3 DEF Held
<1> QED  BY <1>5, <1>6, <1>7

LEMMA SetPortHeld ==
    ASSUME NEW o, o \in {2} \X Ids, Types, Held, files' = files,
           NEW add \in BOOLEAN, NEW port \in Ports, NEW proto \in Protos,
           NEW bits, bits = BitsOf(o, port), SetPort(o, add, port, proto, bits)
    PROVE  Held'
<1>1. /\ BlackSame /\ o[2] \in Ids /\ o = <<2, o[2]>>
      /\ \A id \in Ids : id # o[2] => (<<2, id>> \in Live' => ports'[id] = ports[id])
      /\ o \in Live' => ports'[o[2]] = IF add THEN ports[o[2]] \cup {<<port, proto>>}
                                       ELSE ports[o[2]] \ {<<port, proto>>}
      /\ rules'.ips = rules.ips
      /\ rules'.ports = IF files[2] # o THEN rules.ports
                        ELSE IF add THEN rules.ports \cup {<<port, proto>>}
                             ELSE rules.ports \ {<<port, proto>>}
  <2>1. PortChange(o, add, port, proto)  BY TypesMaps, SetPortMaps
  <2> QED  BY <2>1 DEF PortChange
<1>2. (files[0] # None => files[0] \in Live') /\ (files[2] # None => files[2] \in Live')
  BY ReferredThen, FilesAre, InObjs, MapsAre DEF Referred
<1>3. files[0] # None => black'[files[0][2]] = black[files[0][2]]
  BY <1>1, <1>2, FilesAre, BlackKept
<1>4. o # None  BY ObjOfIs, MapsAre
<1>5. CASE files[2] = o
  <2>1. ports'[o[2]] = rules'.ports  BY <1>1, <1>2, <1>4, <1>5 DEF Held
  <2> QED  BY <1>1, <1>3, <1>4, <1>5, <2>1 DEF Held
<1>6. CASE files[2] = None  BY <1>1, <1>3, <1>4, <1>6 DEF Held
<1>7. CASE files[2] # o /\ files[2] # None
  <2>1. files[2] = <<2, files[2][2]>> /\ files[2][2] \in Ids  BY <1>7, FilesAre
  <2>2. files[2][2] # o[2]  BY <1>1, <1>7, <2>1
  <2>3. ports'[files[2][2]] = ports[files[2][2]]  BY <1>1, <1>2, <1>7, <2>1, <2>2
  <2> QED  BY <1>1, <1>3, <1>7, <2>3 DEF Held
<1> QED  BY <1>5, <1>6, <1>7

(* The bits of the other ports stay.                                         *)
LEMMA SetPortBits ==
    ASSUME NEW o, o \in {2} \X Ids, Types,
           NEW add \in BOOLEAN, NEW port \in Ports, NEW proto \in Protos,
           NEW bits, bits = BitsOf(o, port), SetPort(o, add, port, proto, bits),
           NEW q, q \in {2} \X Ids, q \in Live', NEW other, other # port
    PROVE  \A p \in Protos : <<other, p>> \in ports'[q[2]] <=> <<other, p>> \in ports[q[2]]
<1>1. /\ o[2] \in Ids /\ o = <<2, o[2]>> /\ q[2] \in Ids /\ q = <<2, q[2]>>
      /\ \A id \in Ids : id # o[2] => (<<2, id>> \in Live' => ports'[id] = ports[id])
      /\ o \in Live' => ports'[o[2]] = IF add THEN ports[o[2]] \cup {<<port, proto>>}
                                       ELSE ports[o[2]] \ {<<port, proto>>}
  <2>1. PortChange(o, add, port, proto)  BY TypesMaps, SetPortMaps
  <2> QED  BY <2>1 DEF PortChange
<1>2. CASE q = o
  <2>1. \A p \in Protos : <<other, p>> # <<port, proto>>  OBVIOUS
  <2> QED  BY <1>1, <1>2, <2>1
<1>3. CASE q # o
  <2>1. q[2] # o[2]  BY <1>1, <1>3
  <2>2. ports'[q[2]] = ports[q[2]]  BY <1>1, <2>1
  <2> QED  BY <2>2
<1> QED  BY <1>2, <1>3

LEMMA ModifyIpIInv ==
    ASSUME IInv, NEW k \in Cmds, ModifyIp(k)
    PROVE  IInv'
<1> USE DEF IInv
<1> DEFINE o == cmd[k].obj
           add == cmd[k].add
           ip == cmd[k].ip
<1>1. /\ Types' /\ \A l \in Cmds : Holds(cmd'[l])
      /\ UNCHANGED Machine
      /\ cmd'[k] = NoCmd /\ \A l \in Cmds \ {k} : cmd'[l] = Deleted(l, k)
      /\ o \in {0} \X Ids /\ ip \in Ips /\ add \in BOOLEAN
      /\ SetIp(o, add, ip)
  BY ModifyIpTypes
<1>2. /\ DeadEmpty' /\ PortsSame /\ o[2] \in Ids
      /\ \A id \in Ids : id # o[2] =>
           /\ <<0, id>> \in Live' => black'[id] = black[id]
           /\ black'[id] \subseteq black[id]
      /\ o \in Live' => black'[o[2]] = WithIp(black[o[2]], add, ip)
  <2> HIDE DEF o, add, ip
  <2> QED  BY <1>1, TypesMaps, SetIpMaps
<1>3. Held'
  <2> HIDE DEF o, add, ip
  <2> QED  BY <1>1, SetIpHeld DEF Machine
<1>4. Loader' /\ Agree'  BY <1>1 DEF Loader, Agree, Machine
<1>5. \A l \in Cmds : cmd[l] \in CmdSet  BY DEF Types
<1>6. ASSUME NEW l \in Cmds, l # k
      PROVE  /\ cmd'[l].pc = cmd[l].pc /\ cmd'[l].obj = cmd[l].obj /\ cmd'[l].bits = cmd[l].bits
             /\ cmd'[l].port = cmd[l].port /\ cmd'[l].key = cmd[l].key
             /\ cmd'[l].owed \subseteq cmd[l].owed
             /\ ~ add /\ cmd[l].obj = o => cmd'[l].owed = cmd[l].owed \ {ip}
  <2>1. cmd[l] \in CmdSet /\ cmd'[l] = Deleted(l, k)  BY <1>1, <1>5, <1>6
  <2>2. CASE cmd[l].obj = o /\ ~ add
    <3>1. cmd'[l] = [cmd[l] EXCEPT !.owed = @ \ {ip}]  BY <2>1, <2>2 DEF Deleted
    <3> HIDE DEF o, add, ip
    <3> QED  BY <2>1, <3>1 DEF CmdSet
  <2>3. CASE ~ (cmd[l].obj = o /\ ~ add)
    <3>1. cmd'[l] = cmd[l]  BY <2>1, <2>3 DEF Deleted
    <3> QED  BY <2>3, <3>1
  <2> QED  BY <2>2, <2>3
<1>7. cmd'[k].pc = "idle" /\ cmd'[k].obj = None  BY <1>1, NoCmdIs
<1> HIDE DEF o, add, ip
<1>8. Private'
  <2>1. \A i \in tool.marked : tool.fd[i] # None  BY DEF Loader
  <2>2. \A i \in tool.marked, l \in Cmds : cmd'[l].obj # tool.fd[i]
    BY <1>6, <1>7, <2>1 DEF Private
  <2>3. 0 \in tool.marked => black'[tool.fd[0][2]] \subseteq black[tool.fd[0][2]]
    <3> SUFFICES ASSUME 0 \in tool.marked
                 PROVE  black'[tool.fd[0][2]] \subseteq black[tool.fd[0][2]]
      OBVIOUS
    <3>1. tool.fd[0] \in {0} \X Ids  BY <2>1, DescriptorIs, MapsAre DEF FdIs
    <3>2. tool.fd[0] # o  BY DEF Private, o
    <3>3. tool.fd[0][2] \in Ids /\ tool.fd[0][2] # o[2]  BY <1>1, <3>1, <3>2
    <3> QED  BY <1>2, <3>3
  <2>4. 2 \in tool.marked => ports'[tool.fd[2][2]] \subseteq ports[tool.fd[2][2]]
    <3>1. 2 \in tool.marked => tool.fd[2][2] \in Ids
      BY <2>1, DescriptorIs, MapsAre DEF FdIs
    <3> QED  BY <1>2, <3>1 DEF PortsSame
  <2> QED  BY <1>1, <2>2, <2>3, <2>4, PrivateKept DEF Machine
<1>9. Bits'
  <2>1. tool.pc = "testport" => tool.bits = BitsOf(tool.fd[2], TestPort)'
    BY <1>1, <1>2, ToolBitsKept DEF Machine
  <2>2. ASSUME NEW l \in Cmds, cmd'[l].pc = "update", l # k
        PROVE  l \in Modifiers /\ cmd'[l].bits = BitsOf(cmd[l].obj, cmd[l].port)'
    <3>1. cmd[l].pc = "update" /\ Holds(cmd[l])  BY <1>6, <2>2
    <3>2. cmd[l].obj \in {2} \X Ids  BY <3>1 DEF Holds
    <3>3. cmd[l].obj \in Live'  BY <1>6, <2>2, <3>2, ReferredThen, InObjs DEF Referred
    <3>4. ports'[cmd[l].obj[2]] = ports[cmd[l].obj[2]]  BY <1>2, <3>2, <3>3, PortsKept
    <3> QED  BY <1>6, <2>2, <3>1, <3>4 DEF Bits, BitsOf
  <2>3. tool' = tool  BY <1>1 DEF Machine
  <2>4. \A l \in Cmds : cmd'[l].pc = "update" =>
          /\ l \in Modifiers
          /\ cmd'[l].bits = BitsOf(cmd[l].obj, cmd[l].port)'
          /\ tool.pc = "testport" => cmd'[l].port # TestPort
          /\ \A m \in Cmds \ {l} : cmd'[m].pc = "update" => cmd'[m].port # cmd'[l].port
    BY <1>6, <1>7, <2>2 DEF Bits
  <2> QED  BY <2>1, <2>3, <2>4 DEF Bits
<1>10. Listing'
  <2>1. ASSUME NEW l \in Cmds, l # k, cmd'[l].pc \in {"first", "next"}
        PROVE  /\ cmd'[l].owed \subseteq black'[cmd'[l].obj[2]]
               /\ cmd'[l].pc = "next" => \A j \in cmd'[l].owed : j > cmd'[l].key
    <3>1. /\ cmd[l].pc \in {"first", "next"} /\ cmd[l].obj \in {0} \X Ids
          /\ cmd[l].owed \subseteq black[cmd[l].obj[2]]
          /\ cmd[l].pc = "next" => \A j \in cmd[l].owed : j > cmd[l].key
      BY <1>6, <2>1 DEF Listing, Holds
    <3>2. cmd[l].obj \in Live'  BY <1>6, <2>1, <3>1, ReferredThen, InObjs DEF Referred
    <3>3. cmd'[l].owed \subseteq black'[cmd[l].obj[2]]
      <4>1. CASE cmd[l].obj = o
        <5>1. black'[o[2]] = WithIp(black[o[2]], add, ip)  BY <1>2, <3>2, <4>1
        <5>2. CASE add  BY <1>6, <2>1, <3>1, <4>1, <5>1, <5>2 DEF WithIp
        <5>3. CASE ~ add  BY <1>6, <2>1, <3>1, <4>1, <5>1, <5>3 DEF WithIp
        <5> QED  BY <5>2, <5>3
      <4>2. CASE cmd[l].obj # o
        <5>1. cmd[l].obj = <<0, cmd[l].obj[2]>> /\ cmd[l].obj[2] \in Ids  BY <3>1
        <5>2. cmd[l].obj[2] # o[2]  BY <1>1, <4>2, <5>1
        <5>3. black'[cmd[l].obj[2]] = black[cmd[l].obj[2]]  BY <1>2, <3>2, <5>1, <5>2
        <5> QED  BY <1>6, <2>1, <3>1, <5>3
      <4> QED  BY <4>1, <4>2
    <3> QED  BY <1>6, <2>1, <3>1, <3>3
  <2>2. ASSUME NEW l \in Cmds, l # k, cmd'[l].pc = "listed"
        PROVE  cmd'[l].owed = {}
    BY <1>6, <2>2 DEF Listing
  <2> QED  BY <1>7, <2>1, <2>2 DEF Listing
<1> QED  BY <1>1, <1>2, <1>3, <1>4, <1>8, <1>9, <1>10

LEMMA UpdatePortIInv ==
    ASSUME IInv, NEW k \in Cmds, UpdatePort(k)
    PROVE  IInv'
<1> USE DEF IInv
<1> DEFINE o == cmd[k].obj
           add == cmd[k].add
           port == cmd[k].port
           proto == cmd[k].proto
           bits == cmd[k].bits
<1>1. /\ Types' /\ \A l \in Cmds : Holds(cmd'[l])
      /\ UNCHANGED Machine
      /\ cmd'[k] = NoCmd /\ \A l \in Cmds \ {k} : cmd'[l] = cmd[l]
      /\ o \in {2} \X Ids /\ port \in Ports /\ add \in BOOLEAN
      /\ proto \in Protos /\ bits = BitsOf(o, port)
      /\ SetPort(o, add, port, proto, bits)
  BY UpdatePortTypes
<1>0. cmd[k].pc = "update"  BY DEF UpdatePort
<1>2. /\ DeadEmpty' /\ BlackSame /\ o[2] \in Ids
      /\ \A id \in Ids : id # o[2] =>
           /\ <<2, id>> \in Live' => ports'[id] = ports[id]
           /\ ports'[id] \subseteq ports[id]
  <2> HIDE DEF o, add, port, proto, bits
  <2>1. PortChange(o, add, port, proto)  BY <1>1, TypesMaps, SetPortMaps
  <2> QED  BY <1>1, <2>1 DEF PortChange
<1>3. Held'
  <2> HIDE DEF o, add, port, proto, bits
  <2> QED  BY <1>1, SetPortHeld DEF Machine
<1>4. Loader' /\ Agree'  BY <1>1 DEF Loader, Agree, Machine
<1>5. cmd'[k].pc = "idle" /\ cmd'[k].obj = None  BY <1>1, NoCmdIs
<1>6. /\ tool.pc = "testport" => port # TestPort
      /\ \A l \in Cmds \ {k} : cmd[l].pc = "update" => cmd[l].port # port
  BY <1>0 DEF Bits
<1>7. tool' = tool  BY <1>1 DEF Machine
<1>8. \A i \in tool.marked : tool.fd[i] # None /\ tool.fd[i] # o  BY DEF Loader, Private
<1> HIDE DEF o, add, port, proto, bits
<1>9. Private'
  <2>1. \A i \in tool.marked, l \in Cmds : cmd'[l].obj # tool.fd[i]
    BY <1>1, <1>5, <1>8 DEF Private
  <2>2. 2 \in tool.marked => ports'[tool.fd[2][2]] \subseteq ports[tool.fd[2][2]]
    <3> SUFFICES ASSUME 2 \in tool.marked
                 PROVE  ports'[tool.fd[2][2]] \subseteq ports[tool.fd[2][2]]
      OBVIOUS
    <3>1. tool.fd[2] \in {2} \X Ids  BY <1>8, DescriptorIs, MapsAre DEF FdIs
    <3>2. tool.fd[2][2] \in Ids /\ tool.fd[2][2] # o[2]  BY <1>1, <1>8, <3>1
    <3> QED  BY <1>2, <3>2
  <2>3. 0 \in tool.marked => black'[tool.fd[0][2]] \subseteq black[tool.fd[0][2]]
    <3>1. 0 \in tool.marked => tool.fd[0][2] \in Ids
      BY <1>8, DescriptorIs, MapsAre DEF FdIs
    <3> QED  BY <1>2, <3>1 DEF BlackSame
  <2> QED  BY <1>7, <2>1, <2>2, <2>3, PrivateKept
<1>10. Bits'
  <2>1. ASSUME NEW q, q \in {2} \X Ids, q \in Live', NEW other, other # port
        PROVE  \A p \in Protos : <<other, p>> \in ports'[q[2]] <=> <<other, p>> \in ports[q[2]]
    BY <1>1, <2>1, SetPortBits
  <2>2. tool.pc = "testport" => tool.bits = BitsOf(tool.fd[2], TestPort)'
    <3> SUFFICES ASSUME tool.pc = "testport"
                 PROVE  tool.bits = BitsOf(tool.fd[2], TestPort)'
      OBVIOUS
    <3>1. tool.fd[2] \in {2} \X Ids  BY DescriptorIs, MapsAre DEF Loader, FdIs
    <3>2. tool.fd[2] \in Live'  BY <1>7, <3>1, ReferredThen, InObjs, MapsAre DEF Referred
    <3>3. \A p \in Protos : <<TestPort, p>> \in ports'[tool.fd[2][2]]
                              <=> <<TestPort, p>> \in ports[tool.fd[2][2]]
      BY <1>6, <2>1, <3>1, <3>2
    <3> QED  BY <1>7, <3>3 DEF Bits, BitsOf
  <2>3. ASSUME NEW l \in Cmds, cmd'[l].pc = "update"
        PROVE  /\ l \in Modifiers /\ l # k /\ cmd[l].pc = "update"
               /\ cmd'[l].bits = BitsOf(cmd[l].obj, cmd[l].port)'
    <3>1. l # k /\ cmd'[l] = cmd[l]  BY <1>1, <1>5, <2>3
    <3>2. cmd[l].obj \in {2} \X Ids /\ cmd[l].obj \in Live' /\ cmd[l].port # port
      BY <1>6, <2>3, <3>1, ReferredThen, InObjs DEF Referred, Holds
    <3>3. \A p \in Protos : <<cmd[l].port, p>> \in ports'[cmd[l].obj[2]]
                              <=> <<cmd[l].port, p>> \in ports[cmd[l].obj[2]]
      BY <2>1, <3>2
    <3> QED  BY <2>3, <3>1, <3>3 DEF Bits, BitsOf
  <2>4. \A l \in Cmds : cmd'[l].pc = "update" =>
          /\ l \in Modifiers
          /\ cmd'[l].bits = BitsOf(cmd[l].obj, cmd[l].port)'
          /\ tool.pc = "testport" => cmd'[l].port # TestPort
          /\ \A m \in Cmds \ {l} : cmd'[m].pc = "update" => cmd'[m].port # cmd'[l].port
    BY <1>1, <2>3 DEF Bits
  <2> QED  BY <1>7, <2>2, <2>4 DEF Bits
<1>11. Listing'
  <2>1. ASSUME NEW l \in Cmds, l # k, cmd'[l].pc \in {"first", "next"}
        PROVE  /\ cmd'[l].owed \subseteq black'[cmd'[l].obj[2]]
               /\ cmd'[l].pc = "next" => \A ip \in cmd'[l].owed : ip > cmd'[l].key
    BY <1>1, <1>2, <2>1, ListingKept DEF Listing
  <2> QED  BY <1>1, <1>5, <2>1 DEF Listing
<1> QED  BY <1>1, <1>2, <1>3, <1>4, <1>9, <1>10, <1>11

-----------------------------------------------------------------------------
(* The loader *)

LEMMA CmdsKept ==
    ASSUME IInv, cmd' = cmd, PortsSame
    PROVE  \A l \in Cmds : cmd'[l].pc = "update" =>
             /\ l \in Modifiers
             /\ cmd'[l].bits = BitsOf(cmd[l].obj, cmd[l].port)'
             /\ \A m \in Cmds \ {l} : cmd'[m].pc = "update" => cmd'[m].port # cmd'[l].port
BY BitsKept DEF IInv, Bits

LEMMA ListingsKept ==
    ASSUME IInv, cmd' = cmd, BlackSame
    PROVE  Listing'
BY ListingKept DEF IInv, Listing

LoaderQuiet == StartLoad \/ LoadPinned \/ CreateMap \/ PinMap \/ PinFails \/ Attach
                 \/ LookupTestPort \/ Detach \/ DetachFails \/ ToolStops

LEMMA LoaderQuietIs ==
    ASSUME IInv, LoaderQuiet
    PROVE  /\ Types' /\ \A l \in Cmds : Holds(cmd'[l])
           /\ cmd' = cmd /\ rules' = rules /\ LiveSame /\ DeadEmpty' /\ Listing'
           /\ tool'.pc # "testport" => Bits'
<1> USE DEF IInv
<1>1. MapsUnchanged /\ cmd' = cmd
  BY DEF LoaderQuiet, StartLoad, LoadPinned, CreateMap, PinMap, PinFails, Attach,
         LookupTestPort, Detach, DetachFails, ToolStops
<1>2. LiveSame /\ DeadEmpty' /\ rules' = rules  BY <1>1, TypesMaps, SameMaps
<1>3. Types'  BY <1>1, LoaderTypes DEF LoaderQuiet
<1>4. \A l \in Cmds : Holds(cmd'[l])  BY <1>1
<1>5. Listing'  BY <1>1, <1>2, ListingsKept DEF LiveSame
<1>6. tool'.pc # "testport" => Bits'
  <2>1. PortsSame  BY <1>2 DEF LiveSame
  <2> QED  BY <1>1, <2>1, CmdsKept DEF Bits
<1> QED  BY <1>1, <1>2, <1>3, <1>4, <1>5, <1>6

LEMMA StartLoadIInv == IInv /\ StartLoad => IInv'
<1> SUFFICES ASSUME IInv, StartLoad PROVE IInv'  OBVIOUS
<1> USE DEF IInv
<1>1. /\ Types' /\ (\A l \in Cmds : Holds(cmd'[l])) /\ rules' = rules /\ LiveSame
      /\ DeadEmpty' /\ Listing' /\ (tool'.pc # "testport" => Bits')
  BY LoaderQuietIs DEF LoaderQuiet
<1>2. /\ tool'.pc = "maps" /\ tool'.at = 0 /\ tool'.marked = {}
      /\ tool'.fd = [i \in Maps |-> None]
      /\ files' = files /\ attached' = attached
      /\ warned' = IF warned = "now" THEN "before" ELSE warned
  BY DEF StartLoad, NoTool
<1>3. Loader'  BY <1>2 DEF Loader, Maps
<1>4. Agree'  BY <1>2 DEF Agree
<1>5. Private'  BY <1>2 DEF Private
<1>6. Held'  BY <1>1, <1>2, HeldKept
<1> QED  BY <1>1, <1>2, <1>3, <1>4, <1>5, <1>6

LEMMA LoadPinnedIInv == IInv /\ LoadPinned => IInv'
<1> SUFFICES ASSUME IInv, LoadPinned PROVE IInv'  OBVIOUS
<1> USE DEF IInv
<1>1. /\ Types' /\ (\A l \in Cmds : Holds(cmd'[l])) /\ rules' = rules /\ LiveSame
      /\ DeadEmpty' /\ Listing' /\ (tool'.pc # "testport" => Bits') /\ cmd' = cmd
  BY LoaderQuietIs DEF LoaderQuiet
<1> DEFINE at == tool.at
           t == [tool EXCEPT !.fd[at] = files[at]]
<1>2. /\ tool.pc = "maps" /\ files[at] # None /\ tool' = NextMap(t)
      /\ files' = files /\ attached' = attached /\ warned' = warned
  BY DEF LoadPinned
<1>3. /\ tool \in ToolSet /\ t \in ToolSet /\ at \in 0 .. 4 /\ t.at = at /\ t.pc = "maps"
      /\ t.marked = tool.marked /\ t.fd[at] = files[at]
      /\ \A i \in Maps \ {at} : t.fd[i] = tool.fd[i]
  BY <1>2 DEF Types, ToolSet, Maps
<1> HIDE DEF t
<1>4. /\ tool'.fd = t.fd /\ tool'.marked = tool.marked
      /\ \/ tool'.pc = "export" /\ at = 4
         \/ tool'.pc = "maps" /\ at # 4 /\ tool'.at = at + 1
  BY <1>2, <1>3, NextMapIs
<1>5. /\ warned # "now" /\ at \notin tool.marked
      /\ \A i \in Maps : i < at => tool.fd[i] # None /\ (i \in tool.marked \/ tool.fd[i] = files[i])
      /\ \A i \in Maps : i > at => tool.fd[i] = None /\ i \notin tool.marked
  <2> HIDE DEF at
  <2>1. \A i \in Maps : IF i < at
              THEN tool.fd[i] # None /\ (i \in tool.marked \/ tool.fd[i] = files[i])
              ELSE tool.fd[i] = None /\ i \notin tool.marked
    BY <1>2 DEF Loader, at
  <2> QED  BY <1>2, <1>3, <2>1 DEF Loader, Maps
<1> HIDE DEF at
<1>6. \A i \in tool.marked : i \in Maps /\ i # at /\ files[i] = None /\ tool.fd[i] # None
                             /\ tool'.fd[i] = tool.fd[i]
  BY <1>3, <1>4, <1>5 DEF Loader, ToolSet
<1>7. \A i \in Maps : i <= at => tool'.fd[i] # None /\ (i \in tool.marked \/ tool'.fd[i] = files[i])
  BY <1>2, <1>3, <1>4, <1>5 DEF Maps
<1>8. Loader'
  <2>1. CASE tool'.pc = "export"
    BY <1>2, <1>4, <1>6, <1>7, <2>1 DEF Loader, Maps
  <2>2. CASE tool'.pc = "maps"
    <3>1. tool'.at = at + 1  BY <1>4, <2>2
    <3>2. \A i \in Maps :
            IF i < tool'.at
            THEN tool'.fd[i] # None /\ (i \in tool'.marked \/ tool'.fd[i] = files'[i])
            ELSE tool'.fd[i] = None /\ i \notin tool'.marked
      <4> TAKE i \in Maps
      <4>1. CASE i <= at  BY <1>2, <1>3, <1>4, <1>7, <3>1, <4>1 DEF Maps
      <4>2. CASE i > at  BY <1>3, <1>4, <1>5, <3>1, <4>2 DEF Maps
      <4> QED  BY <1>3, <4>1, <4>2 DEF Maps
    <3> QED  BY <1>2, <1>4, <1>5, <1>6, <2>2, <3>2 DEF Loader
  <2> QED  BY <1>4, <2>1, <2>2
<1>9. Agree'  BY <1>2, <1>4 DEF Agree
<1>10. Private'
  <2>1. /\ 0 \in tool.marked => tool.fd[0][2] \in Ids
        /\ 2 \in tool.marked => tool.fd[2][2] \in Ids
    BY <1>6, DescriptorIs, MapsAre DEF FdIs
  <2>2. /\ \A j \in Ids : black[j] = {} => black'[j] = {}
        /\ \A j \in Ids : ports[j] = {} => ports'[j] = {}
    BY <1>1 DEF LiveSame, BlackSame, PortsSame
  <2>3. /\ 0 \in tool.marked => black'[tool'.fd[0][2]] = {}
        /\ 2 \in tool.marked => ports'[tool'.fd[2][2]] = {}
    BY <1>6, <2>1, <2>2 DEF Private
  <2>4. \A i \in tool.marked, l \in Cmds : cmd'[l].obj # tool'.fd[i]
    BY <1>1, <1>6 DEF Private
  <2> QED  BY <1>4, <2>3, <2>4 DEF Private
<1>11. Held'  BY <1>1, <1>2, HeldKept
<1> QED  BY <1>1, <1>4, <1>8, <1>9, <1>10, <1>11

LEMMA CreateMapIInv == IInv /\ CreateMap => IInv'
<1> SUFFICES ASSUME IInv, CreateMap PROVE IInv'  OBVIOUS
<1> USE DEF IInv
<1>1. /\ Types' /\ (\A l \in Cmds : Holds(cmd'[l])) /\ rules' = rules /\ LiveSame
      /\ DeadEmpty' /\ Listing' /\ (tool'.pc # "testport" => Bits') /\ cmd' = cmd
  BY LoaderQuietIs DEF LoaderQuiet
<1> DEFINE at == tool.at
<1>2. /\ tool.pc = "maps" /\ files[at] = None
      /\ files' = files /\ attached' = attached /\ warned' = warned
  BY DEF CreateMap
<1>3. tool \in ToolSet /\ at \in Maps /\ at \in 0 .. 4  BY DEF Types, ToolSet, Maps
<1>4. PICK id \in Ids : /\ <<at, id>> \notin Live
                        /\ tool' = NextMap([tool EXCEPT !.fd[at] = <<at, id>>,
                                                        !.marked = @ \cup {at}])
  <2>1. MapData[at] = at  BY <1>3, MapDataIs
  <2> QED  BY <2>1 DEF CreateMap
<1> DEFINE t == [tool EXCEPT !.fd[at] = <<at, id>>, !.marked = @ \cup {at}]
<1>5. /\ t \in ToolSet /\ t.at = at /\ t.pc = "maps"
      /\ t.marked = tool.marked \cup {at} /\ t.fd[at] = <<at, id>>
      /\ \A i \in Maps \ {at} : t.fd[i] = tool.fd[i]
  <2>1. <<at, id>> \in Objs  BY <1>3 DEF Objs
  <2> QED  BY <1>2, <1>3, <2>1 DEF ToolSet
<1>6. tool' = NextMap(t)  BY <1>4
<1> HIDE DEF t
<1>7. /\ tool'.fd = t.fd /\ tool'.marked = tool.marked \cup {at}
      /\ \/ tool'.pc = "export" /\ at = 4
         \/ tool'.pc = "maps" /\ at # 4 /\ tool'.at = at + 1
  BY <1>5, <1>6, NextMapIs
<1>8. <<at, id>> # None  BY <1>3, BlacklistAssumption
<1>9. /\ warned # "now" /\ at \notin tool.marked
      /\ \A i \in Maps : i < at => tool.fd[i] # None /\ (i \in tool.marked \/ tool.fd[i] = files[i])
      /\ \A i \in Maps : i > at => tool.fd[i] = None /\ i \notin tool.marked
  <2> HIDE DEF at
  <2>1. \A i \in Maps : IF i < at
              THEN tool.fd[i] # None /\ (i \in tool.marked \/ tool.fd[i] = files[i])
              ELSE tool.fd[i] = None /\ i \notin tool.marked
    BY <1>2 DEF Loader, at
  <2> QED  BY <1>2, <1>3, <2>1 DEF Loader, Maps
<1> HIDE DEF at
<1>10. \A i \in tool.marked : i \in Maps /\ i # at /\ files[i] = None /\ tool.fd[i] # None
                              /\ tool'.fd[i] = tool.fd[i]
  BY <1>3, <1>5, <1>7, <1>9 DEF Loader, ToolSet
<1>11. \A i \in Maps : i <= at => tool'.fd[i] # None
                                  /\ (i \in tool'.marked \/ tool'.fd[i] = files[i])
  <2> TAKE i \in Maps
  <2>1. CASE i = at  BY <1>5, <1>7, <1>8, <2>1
  <2>2. CASE i < at  BY <1>5, <1>7, <1>9, <2>2
  <2>3. i <= at => i = at \/ i < at  BY <1>3 DEF Maps
  <2> QED  BY <2>1, <2>2, <2>3
<1>12. \A i \in tool'.marked : files[i] = None /\ tool'.fd[i] # None
  BY <1>2, <1>5, <1>7, <1>8, <1>10
<1>13. Loader'
  <2>1. CASE tool'.pc = "export"
    BY <1>2, <1>3, <1>7, <1>11, <1>12, <2>1 DEF Loader, Maps
  <2>2. CASE tool'.pc = "maps"
    <3>1. tool'.at = at + 1  BY <1>7, <2>2
    <3>2. \A i \in Maps :
            IF i < tool'.at
            THEN tool'.fd[i] # None /\ (i \in tool'.marked \/ tool'.fd[i] = files'[i])
            ELSE tool'.fd[i] = None /\ i \notin tool'.marked
      <4> TAKE i \in Maps
      <4>1. CASE i <= at  BY <1>2, <1>3, <1>7, <1>11, <3>1, <4>1 DEF Maps
      <4>2. CASE i > at  BY <1>3, <1>5, <1>7, <1>9, <3>1, <4>2 DEF Maps
      <4> QED  BY <1>3, <4>1, <4>2 DEF Maps
    <3> QED  BY <1>2, <1>9, <1>12, <2>2, <3>2 DEF Loader
  <2> QED  BY <1>7, <2>1, <2>2
<1>14. Agree'  BY <1>2, <1>7 DEF Agree
<1>15. Private'
  <2>1. /\ 0 \in tool.marked => tool.fd[0][2] \in Ids
        /\ 2 \in tool.marked => tool.fd[2][2] \in Ids
    BY <1>10, DescriptorIs, MapsAre DEF FdIs
  <2>2. /\ at = 0 => black[id] = {}
        /\ at = 2 => ports[id] = {}
    BY <1>4 DEF DeadEmpty
  <2>3. \A l \in Cmds : cmd[l].obj # <<at, id>>
    <3>1. <<at, id>> \in Objs  BY <1>3, <1>4 DEF Objs
    <3> QED  BY <1>4, <3>1, ReferredHolds DEF Referred
  <2>4. /\ \A j \in Ids : black[j] = {} => black'[j] = {}
        /\ \A j \in Ids : ports[j] = {} => ports'[j] = {}
    BY <1>1 DEF LiveSame, BlackSame, PortsSame
  <2>5. 0 \in tool'.marked => black'[tool'.fd[0][2]] = {}
    <3>1. CASE at = 0  BY <1>5, <1>7, <2>2, <2>4, <3>1
    <3>2. CASE at # 0  BY <1>7, <1>10, <2>1, <2>4, <3>2 DEF Private
    <3> QED  BY <3>1, <3>2
  <2>6. 2 \in tool'.marked => ports'[tool'.fd[2][2]] = {}
    <3>1. CASE at = 2  BY <1>5, <1>7, <2>2, <2>4, <3>1
    <3>2. CASE at # 2  BY <1>7, <1>10, <2>1, <2>4, <3>2 DEF Private
    <3> QED  BY <3>1, <3>2
  <2>7. \A i \in tool'.marked, l \in Cmds : cmd'[l].obj # tool'.fd[i]
    BY <1>1, <1>5, <1>7, <1>10, <2>3 DEF Private
  <2> QED  BY <2>5, <2>6, <2>7 DEF Private
<1>16. Held'  BY <1>1, <1>2, HeldKept
<1> QED  BY <1>1, <1>7, <1>13, <1>14, <1>15, <1>16

LEMMA PinIs ==
    ASSUME IInv, tool.pc = "export", tool.marked # {}, tool' = Exported, cmd' = cmd, LiveSame
    PROVE  /\ ToExport \in tool.marked /\ ToExport \in Maps
           /\ tool'.fd = tool.fd /\ tool'.marked = tool.marked \ {ToExport}
           /\ tool'.pc = "export"
           /\ \A i \in tool.marked : i \in Maps /\ files[i] = None /\ tool.fd[i] # None
           /\ Private'
<1> USE DEF IInv
<1>1. /\ ToExport \in tool.marked /\ ToExport \in Maps
      /\ \A i \in tool.marked : i \in Maps /\ files[i] = None /\ tool.fd[i] # None
  BY ToExportIs DEF Loader, Types, ToolSet
<1>2. /\ tool'.fd = tool.fd /\ tool'.marked = tool.marked \ {ToExport}
      /\ tool'.pc = "export"
  BY DEF Exported, Types, ToolSet
<1>3. Private'
  <2>1. /\ 0 \in tool.marked => tool.fd[0][2] \in Ids
        /\ 2 \in tool.marked => tool.fd[2][2] \in Ids
    BY <1>1, DescriptorIs, MapsAre DEF FdIs
  <2>2. /\ \A j \in Ids : black[j] = {} => black'[j] = {}
        /\ \A j \in Ids : ports[j] = {} => ports'[j] = {}
    BY DEF LiveSame, BlackSame, PortsSame
  <2>3. /\ 0 \in tool.marked => black'[tool.fd[0][2]] = {}
        /\ 2 \in tool.marked => ports'[tool.fd[2][2]] = {}
    BY <2>1, <2>2 DEF Private
  <2> QED  BY <1>2, <2>3 DEF Private
<1> QED  BY <1>1, <1>2, <1>3

LEMMA PinMapIInv == IInv /\ PinMap => IInv'
<1> SUFFICES ASSUME IInv, PinMap PROVE IInv'  OBVIOUS
<1> USE DEF IInv
<1>1. /\ Types' /\ (\A l \in Cmds : Holds(cmd'[l])) /\ rules' = rules /\ LiveSame
      /\ DeadEmpty' /\ Listing' /\ (tool'.pc # "testport" => Bits') /\ cmd' = cmd
  BY LoaderQuietIs DEF LoaderQuiet
<1> DEFINE e == ToExport
<1>2. /\ tool.pc = "export" /\ tool.marked # {} /\ tool' = Exported
      /\ files' = [files EXCEPT ![e] = tool.fd[e]]
      /\ attached' = attached /\ warned' = warned
  BY DEF PinMap
<1>3. /\ e \in tool.marked /\ e \in Maps
      /\ tool'.fd = tool.fd /\ tool'.marked = tool.marked \ {e} /\ tool'.pc = "export"
      /\ \A i \in tool.marked : i \in Maps /\ files[i] = None /\ tool.fd[i] # None
      /\ Private'
  BY <1>1, <1>2, PinIs
<1> HIDE DEF e
<1>4. files'[e] = tool.fd[e] /\ \A i \in Maps \ {e} : files'[i] = files[i]
  BY <1>2, <1>3 DEF Types
<1>5. Loader'
  <2>1. \A i \in Maps : tool'.fd[i] # None
          /\ (i \in tool'.marked \/ tool'.fd[i] = files'[i] \/ warned' = "now")
    BY <1>2, <1>3, <1>4 DEF Loader
  <2>2. \A i \in tool'.marked : files'[i] = None /\ tool'.fd[i] # None
    BY <1>3, <1>4
  <2> QED  BY <1>3, <2>1, <2>2 DEF Loader
<1>6. Agree'
  <2>1. ASSUME attached # None, warned = "no" PROVE FALSE
    <3>1. attached[e] = files[e]  BY <1>3, <2>1 DEF Agree
    <3>2. attached[e] \in Objs  BY <1>3, <2>1 DEF Types
    <3> QED  BY <1>3, <3>1, <3>2, ObjOfIs
  <2> QED  BY <1>2, <1>3, <2>1 DEF Agree
<1>7. Held'
  <2>0. /\ files'[0] \in Objs => files'[0] \in Live'
        /\ files'[2] \in Objs => files'[2] \in Live'
    BY ReferredThen, MapsAre DEF Referred
  <2>1. rules.ips = IF files'[0] = None THEN {} ELSE black'[files'[0][2]]
    <3>1. CASE e = 0
      <4>1. files[0] = None /\ files'[0] = tool.fd[0] /\ tool.fd[0] # None
        BY <1>3, <1>4, <3>1
      <4>2. black[tool.fd[0][2]] = {}  BY <1>3, <3>1 DEF Private
      <4>3. tool.fd[0] \in {0} \X Ids  BY <4>1, DescriptorIs, MapsAre DEF FdIs
      <4>4. black'[tool.fd[0][2]] = {}
        BY <1>1, <4>2, <4>3 DEF LiveSame, BlackSame
      <4> QED  BY <4>1, <4>4 DEF Held
    <3>2. CASE e # 0
      <4>1. files'[0] = files[0]  BY <1>4, <3>2, MapsAre
      <4>2. files[0] # None => black'[files[0][2]] = black[files[0][2]]
        BY <1>1, <2>0, <4>1, FilesAre, InObjs, BlackKept DEF LiveSame
      <4> QED  BY <4>1, <4>2 DEF Held
    <3> QED  BY <3>1, <3>2
  <2>2. rules.ports = IF files'[2] = None THEN {} ELSE ports'[files'[2][2]]
    <3>1. CASE e = 2
      <4>1. files[2] = None /\ files'[2] = tool.fd[2] /\ tool.fd[2] # None
        BY <1>3, <1>4, <3>1
      <4>2. ports[tool.fd[2][2]] = {}  BY <1>3, <3>1 DEF Private
      <4>3. tool.fd[2] \in {2} \X Ids  BY <4>1, DescriptorIs, MapsAre DEF FdIs
      <4>4. ports'[tool.fd[2][2]] = {}
        BY <1>1, <4>2, <4>3 DEF LiveSame, PortsSame
      <4> QED  BY <4>1, <4>4 DEF Held
    <3>2. CASE e # 2
      <4>1. files'[2] = files[2]  BY <1>4, <3>2, MapsAre
      <4>2. files[2] # None => ports'[files[2][2]] = ports[files[2][2]]
        BY <1>1, <2>0, <4>1, FilesAre, InObjs, PortsKept DEF LiveSame
      <4> QED  BY <4>1, <4>2 DEF Held
    <3> QED  BY <3>1, <3>2
  <2> QED  BY <1>1, <2>1, <2>2 DEF Held
<1> QED  BY <1>1, <1>3, <1>5, <1>6, <1>7

LEMMA PinFailsIInv == IInv /\ PinFails => IInv'
<1> SUFFICES ASSUME IInv, PinFails PROVE IInv'  OBVIOUS
<1> USE DEF IInv
<1>1. /\ Types' /\ (\A l \in Cmds : Holds(cmd'[l])) /\ rules' = rules /\ LiveSame
      /\ DeadEmpty' /\ Listing' /\ (tool'.pc # "testport" => Bits') /\ cmd' = cmd
  BY LoaderQuietIs DEF LoaderQuiet
<1>2. /\ tool.pc = "export" /\ tool.marked # {} /\ tool' = Exported
      /\ files' = files /\ attached' = attached /\ warned' = "now"
  BY DEF PinFails
<1>3. /\ tool'.fd = tool.fd /\ tool'.marked \subseteq tool.marked /\ tool'.pc = "export"
      /\ Private'
  BY <1>1, <1>2, PinIs
<1>4. Loader'  BY <1>2, <1>3 DEF Loader
<1>5. Agree'  BY <1>2, <1>3 DEF Agree
<1>6. Held'  BY <1>1, <1>2, HeldKept
<1> QED  BY <1>1, <1>3, <1>4, <1>5, <1>6

LEMMA AttachIInv == IInv /\ Attach => IInv'
<1> SUFFICES ASSUME IInv, Attach PROVE IInv'  OBVIOUS
<1> USE DEF IInv
<1>1. /\ Types' /\ (\A l \in Cmds : Holds(cmd'[l])) /\ rules' = rules /\ LiveSame
      /\ DeadEmpty' /\ Listing' /\ (tool'.pc # "testport" => Bits') /\ cmd' = cmd
  BY LoaderQuietIs DEF LoaderQuiet
<1>2. /\ tool.pc = "export" /\ tool.marked = {} /\ attached' = Relocated(tool.fd)
      /\ files' = files /\ warned' = IF warned = "before" THEN "no" ELSE warned
      /\ tool'.pc = "testip" /\ tool'.fd = tool.fd /\ tool'.marked = tool.marked
  BY DEF Attach, Goto, Types, ToolSet
<1>3. \A i \in Maps : tool.fd[i] # None /\ (tool.fd[i] = files[i] \/ warned = "now")
  BY <1>2 DEF Loader
<1>4. Loader'  BY <1>2, <1>3 DEF Loader
<1>5. Agree'
  <2>1. \A i \in Maps : attached'[i] = tool.fd[i]  BY <1>2, RelocatedIs
  <2> QED  BY <1>2, <1>3, <2>1 DEF Agree
<1>6. Private'  BY <1>2 DEF Private
<1>7. Held'  BY <1>1, <1>2, HeldKept
<1> QED  BY <1>1, <1>2, <1>4, <1>5, <1>6, <1>7

LEMMA LookupTestPortIInv == IInv /\ LookupTestPort => IInv'
<1> SUFFICES ASSUME IInv, LookupTestPort PROVE IInv'  OBVIOUS
<1> USE DEF IInv
<1>1. /\ Types' /\ (\A l \in Cmds : Holds(cmd'[l])) /\ rules' = rules /\ LiveSame
      /\ DeadEmpty' /\ Listing' /\ cmd' = cmd
  BY LoaderQuietIs DEF LoaderQuiet
<1>2. /\ tool.pc = "lookup" /\ tool'.pc = "testport" /\ tool'.fd = tool.fd
      /\ tool'.marked = tool.marked /\ tool'.bits = BitsOf(tool.fd[2], TestPort)
      /\ files' = files /\ warned' = warned /\ attached' = attached
      /\ PortFree(TestPort)
  BY DEF LookupTestPort, Types, ToolSet
<1>3. /\ \A i \in Maps : tool.fd[i] # None
      /\ tool.marked = {}
  BY <1>2 DEF Loader
<1>4. Loader'  BY <1>2, <1>3 DEF Loader
<1>5. Agree'  BY <1>2 DEF Agree
<1>6. Private'  BY <1>2, <1>3 DEF Private
<1>7. Held'  BY <1>1, <1>2, HeldKept
<1>8. Bits'
  <2>1. tool'.bits = BitsOf(tool.fd[2], TestPort)'
    <3>1. tool.fd[2] \in {2} \X Ids  BY <1>3, DescriptorIs, MapsAre DEF FdIs
    <3>2. tool.fd[2] \in Live'  BY <1>2, <3>1, ReferredThen, InObjs, MapsAre DEF Referred
    <3>3. ports'[tool.fd[2][2]] = ports[tool.fd[2][2]]
      BY <1>1, <3>1, <3>2, PortsKept DEF LiveSame
    <3> QED  BY <1>2, <3>3 DEF BitsOf
  <2>2. \A l \in Cmds : cmd'[l].pc = "update" =>
          /\ l \in Modifiers
          /\ cmd'[l].bits = BitsOf(cmd[l].obj, cmd[l].port)'
          /\ \A m \in Cmds \ {l} : cmd'[m].pc = "update" => cmd'[m].port # cmd'[l].port
    BY <1>1, CmdsKept DEF LiveSame
  <2>3. \A l \in Cmds : cmd'[l].pc = "update" => cmd'[l].port # TestPort
    BY <1>1, <1>2, <2>2 DEF PortFree
  <2> QED  BY <2>1, <2>2, <2>3 DEF Bits
<1> QED  BY <1>1, <1>4, <1>5, <1>6, <1>7, <1>8

LEMMA DetachIInv == IInv /\ (Detach \/ DetachFails) => IInv'
<1> SUFFICES ASSUME IInv, Detach \/ DetachFails PROVE IInv'  OBVIOUS
<1> USE DEF IInv
<1>1. /\ Types' /\ (\A l \in Cmds : Holds(cmd'[l])) /\ rules' = rules /\ LiveSame
      /\ DeadEmpty' /\ Listing' /\ (tool'.pc # "testport" => Bits') /\ cmd' = cmd
  BY LoaderQuietIs DEF LoaderQuiet
<1>2. /\ tool'.pc = "unlink" /\ tool'.marked = {} /\ files' = files
      /\ attached' = None \/ warned' = "now"
  BY DEF Detach, DetachFails, NoTool
<1>3. Loader'  BY <1>2 DEF Loader
<1>4. Agree'  BY <1>2 DEF Agree
<1>5. Private'  BY <1>2 DEF Private
<1>6. Held'  BY <1>1, <1>2, HeldKept
<1> QED  BY <1>1, <1>2, <1>3, <1>4, <1>5, <1>6

LEMMA ToolStopsIInv == IInv /\ ToolStops => IInv'
<1> SUFFICES ASSUME IInv, ToolStops PROVE IInv'  OBVIOUS
<1> USE DEF IInv
<1>1. /\ Types' /\ (\A l \in Cmds : Holds(cmd'[l])) /\ rules' = rules /\ LiveSame
      /\ DeadEmpty' /\ Listing' /\ (tool'.pc # "testport" => Bits') /\ cmd' = cmd
  BY LoaderQuietIs DEF LoaderQuiet
<1>2. /\ tool'.pc = "idle" /\ tool'.marked = {} /\ files' = files
      /\ attached' = attached /\ warned' = warned
  BY DEF ToolStops, NoTool
<1>3. Loader'  BY <1>2 DEF Loader
<1>4. Agree'  BY <1>2 DEF Agree
<1>5. Private'  BY <1>2 DEF Private
<1>6. Held'  BY <1>1, <1>2, HeldKept
<1> QED  BY <1>1, <1>2, <1>3, <1>4, <1>5, <1>6

LEMMA UnlinkIInv == IInv /\ Unlink => IInv'
<1> SUFFICES ASSUME IInv, Unlink PROVE IInv'  OBVIOUS
<1> USE DEF IInv
<1>1. Types' /\ DeadEmpty' /\ LiveSame /\ BlackSame /\ PortsSame
  BY UnlinkTypes DEF LiveSame
<1>2. /\ tool.pc = "unlink" /\ tool'.pc \in {"idle", "unlink"} /\ tool'.marked = {}
      /\ cmd' = cmd /\ warned' = warned /\ attached' = attached
  BY DEF Unlink, NoTool, Loader, Types, ToolSet
<1>3. \A l \in Cmds : Holds(cmd'[l])  BY <1>2
<1>4. Loader'  BY <1>2 DEF Loader
<1>5. Agree'
  <2>1. attached = None \/ warned # "no"  BY <1>2 DEF Agree
  <2> QED  BY <1>2, <2>1 DEF Agree
<1>6. Private'  BY <1>2 DEF Private
<1>7. Bits'
  <2>1. tool'.pc # "testport"  BY <1>2
  <2> QED  BY <1>1, <1>2, <2>1, CmdsKept DEF Bits
<1>8. Listing'  BY <1>1, <1>2, ListingsKept
<1>9. Held'
  <2>0. /\ files'[0] \in Objs => files'[0] \in Live'
        /\ files'[2] \in Objs => files'[2] \in Live'
    BY ReferredThen, MapsAre DEF Referred
  <2>1. \/ files' = files /\ rules' = rules
        \/ /\ files' = [files EXCEPT ![tool.at] = None]
           /\ rules'.ips = IF tool.at = 0 THEN {} ELSE rules.ips
           /\ rules'.ports = IF tool.at = 2 THEN {} ELSE rules.ports
    BY DEF Unlink
  <2>2. CASE files' = files /\ rules' = rules  BY <1>1, <2>2, HeldKept
  <2>3. CASE ~ (files' = files /\ rules' = rules)
    <3>1. /\ tool.at \in Maps
          /\ files'[tool.at] = None /\ \A i \in Maps \ {tool.at} : files'[i] = files[i]
      BY <2>1, <2>3 DEF Types, ToolSet
    <3>2. files'[0] # None => tool.at # 0 /\ files'[0] = files[0]
                              /\ black'[files[0][2]] = black[files[0][2]]
      BY <1>1, <2>0, <3>1, MapsAre, FilesAre, InObjs, BlackKept
    <3>3. files'[2] # None => tool.at # 2 /\ files'[2] = files[2]
                              /\ ports'[files[2][2]] = ports[files[2][2]]
      BY <1>1, <2>0, <3>1, MapsAre, FilesAre, InObjs, PortsKept
    <3>4. (tool.at # 0 => files'[0] = files[0]) /\ (tool.at # 2 => files'[2] = files[2])
      BY <3>1, MapsAre
    <3> QED  BY <2>1, <2>3, <3>1, <3>2, <3>3, <3>4 DEF Held
  <2> QED  BY <2>2, <2>3
<1> QED  BY <1>1, <1>3, <1>4, <1>5, <1>6, <1>7, <1>8, <1>9

LEMMA AddTestIpIInv == IInv /\ AddTestIp => IInv'
<1> SUFFICES ASSUME IInv, AddTestIp PROVE IInv'  OBVIOUS
<1> USE DEF IInv
<1>1. /\ Types' /\ tool.fd[0] \in {0} \X Ids /\ SetIp(tool.fd[0], TRUE, TestIp)
      /\ TestIp \in Ips
  BY AddTestIpTypes, BlacklistAssumption DEF FdIs
<1> DEFINE o == tool.fd[0]
<1>2. /\ DeadEmpty' /\ PortsSame /\ o[2] \in Ids
      /\ \A id \in Ids : id # o[2] =>
           /\ <<0, id>> \in Live' => black'[id] = black[id]
           /\ black'[id] \subseteq black[id]
      /\ o \in Live' => black'[o[2]] = WithIp(black[o[2]], TRUE, TestIp)
  <2>1. TRUE \in BOOLEAN  OBVIOUS
  <2> HIDE DEF o
  <2> QED  BY <1>1, <2>1, TypesMaps, SetIpMaps DEF o
<1>3. /\ tool.pc = "testip" /\ tool'.pc = "lookup" /\ tool'.fd = tool.fd
      /\ tool'.marked = tool.marked /\ cmd' = cmd /\ files' = files
      /\ attached' = attached /\ warned' = warned
  BY DEF AddTestIp, Goto, Types, ToolSet
<1>4. Held'
  <2>1. TRUE \in BOOLEAN  OBVIOUS
  <2> QED  BY <1>1, <1>3, <2>1, SetIpHeld
<1>5. Loader'  BY <1>3 DEF Loader
<1>6. Agree'  BY <1>3 DEF Agree
<1>7. Private'  BY <1>3 DEF Private, Loader
<1>8. Bits'  BY <1>2, <1>3, CmdsKept DEF Bits
<1>9. Listing'
  <2>1. ASSUME NEW l \in Cmds, cmd[l].pc \in {"first", "next"}
        PROVE  black[cmd[l].obj[2]] \subseteq black'[cmd[l].obj[2]]
    <3>1. cmd[l].obj \in {0} \X Ids /\ cmd[l].obj \in Live'
      BY <1>3, <2>1, ReferredThen, InObjs DEF Referred, Holds
    <3>2. CASE cmd[l].obj = o  BY <1>2, <3>1, <3>2 DEF WithIp
    <3>3. CASE cmd[l].obj # o
      <4>1. cmd[l].obj = <<0, cmd[l].obj[2]>> /\ cmd[l].obj[2] \in Ids  BY <3>1
      <4>2. cmd[l].obj[2] # o[2]  BY <1>1, <3>3, <4>1
      <4> QED  BY <1>2, <3>1, <4>1, <4>2
    <3> QED  BY <3>2, <3>3
  <2> QED  BY <1>3, <2>1 DEF Listing
<1> QED  BY <1>1, <1>2, <1>3, <1>4, <1>5, <1>6, <1>7, <1>8, <1>9

LEMMA AddTestPortIInv == IInv /\ AddTestPort => IInv'
<1> SUFFICES ASSUME IInv, AddTestPort PROVE IInv'  OBVIOUS
<1> USE DEF IInv
<1>1. /\ Types' /\ tool.fd[2] \in {2} \X Ids /\ tool.bits = BitsOf(tool.fd[2], TestPort)
      /\ SetPort(tool.fd[2], TRUE, TestPort, "udp", tool.bits)
      /\ TestPort \in Ports /\ "udp" \in Protos /\ TRUE \in BOOLEAN
  BY AddTestPortTypes, BlacklistAssumption DEF FdIs, Protos
<1>2. DeadEmpty' /\ BlackSame
  <2>1. PortChange(tool.fd[2], TRUE, TestPort, "udp")  BY <1>1, TypesMaps, SetPortMaps
  <2> QED  BY <2>1 DEF PortChange
<1>3. /\ tool.pc = "testport" /\ tool'.pc = "idle"
      /\ tool'.marked = {} /\ cmd' = cmd /\ files' = files
      /\ attached' = attached /\ warned' = warned
  BY DEF AddTestPort, NoTool
<1>4. Held'  BY <1>1, <1>3, SetPortHeld
<1>5. Loader'  BY <1>3 DEF Loader
<1>6. Agree'  BY <1>3 DEF Agree
<1>7. Private'  BY <1>3 DEF Private
<1>8. Bits'
  <2>1. ASSUME NEW q, q \in {2} \X Ids, q \in Live', NEW other, other # TestPort
        PROVE  \A p \in Protos : <<other, p>> \in ports'[q[2]] <=> <<other, p>> \in ports[q[2]]
    BY <1>1, <2>1, SetPortBits
  <2>2. ASSUME NEW l \in Cmds, cmd[l].pc = "update"
        PROVE  cmd[l].bits = BitsOf(cmd[l].obj, cmd[l].port)'
    <3>1. cmd[l].obj \in {2} \X Ids /\ cmd[l].obj \in Live' /\ cmd[l].port # TestPort
      BY <1>3, <2>2, ReferredThen, InObjs DEF Referred, Holds, Bits
    <3>2. \A p \in Protos : <<cmd[l].port, p>> \in ports'[cmd[l].obj[2]]
                              <=> <<cmd[l].port, p>> \in ports[cmd[l].obj[2]]
      BY <2>1, <3>1
    <3> QED  BY <1>3, <2>2, <3>2 DEF Bits, BitsOf
  <2> QED  BY <1>3, <2>2 DEF Bits
<1>9. Listing'  BY <1>2, <1>3, ListingsKept
<1> QED  BY <1>1, <1>2, <1>3, <1>4, <1>5, <1>6, <1>7, <1>8, <1>9

-----------------------------------------------------------------------------
(* The invariant holds throughout *)

LEMMA InitIInv == Init => IInv
<1> SUFFICES ASSUME Init PROVE IInv  OBVIOUS
<1>1. Types /\ \A k \in Cmds : Holds(cmd[k])  BY InitTypes
<1>2. \A k \in Cmds : cmd[k].pc = "idle" /\ cmd[k].obj = None  BY NoCmdIs DEF Init
<1>3. /\ tool.pc = "idle" /\ tool.marked = {} /\ attached = None
      /\ \A i \in Maps : files[i] = None
  BY DEF Init, NoTool
<1>4. Loader /\ Agree /\ Private  BY <1>3 DEF Loader, Agree, Private
<1>5. DeadEmpty /\ Held  BY <1>3, MapsAre DEF Init, DeadEmpty, Held
<1>6. Bits /\ Listing  BY <1>2, <1>3 DEF Bits, Listing
<1> QED  BY <1>1, <1>4, <1>5, <1>6 DEF IInv

LEMMA CommandIInv ==
    ASSUME IInv, (\E k \in Modifiers : Modify(k)) \/ (\E k \in Listers : List(k))
                   \/ (\E k \in Cmds : CmdEnds(k))
    PROVE  IInv'
<1>1. ASSUME NEW k \in Modifiers, Modify(k) PROVE IInv'
  <2>1. k \in Cmds  BY DEF Cmds
  <2>2. CASE ModifyIp(k)  BY <2>1, <2>2, ModifyIpIInv
  <2>3. CASE UpdatePort(k)  BY <2>1, <2>3, UpdatePortIInv
  <2>4. CASE CmdQuiet(k)  BY <2>1, <2>4, QuietIInv
  <2> QED  BY <1>1, <2>2, <2>3, <2>4 DEF Modify, CmdQuiet
<1>2. ASSUME NEW k \in Cmds, StartList(k) \/ OpenList(k) \/ PrintIp(k) \/ CmdEnds(k)
      PROVE  IInv'
  <2>1. CmdQuiet(k)  BY <1>2 DEF CmdQuiet
  <2>2. ~ LookupPort(k)
    <3> SUFFICES ASSUME LookupPort(k) PROVE FALSE  OBVIOUS
    <3>1. cmd[k].pc = "read" /\ cmd'[k].pc = "update"
      BY DEF LookupPort, Become, IInv, Types, CmdSet
    <3>2. cmd'[k].pc # "update"
      <4>1. cmd[k].pc \in {"openlist", "first", "next", "idle"} \/ CmdEnds(k)
        BY <1>2 DEF StartList, OpenList, PrintIp
      <4>2. CmdEnds(k)  BY <3>1, <4>1
      <4> QED  BY <4>2, NoCmdIs DEF CmdEnds, Become, IInv, Types
    <3> QED  BY <3>1, <3>2
  <2> QED  BY <2>1, <2>2, QuietIInv
<1>3. Listers \subseteq Cmds  BY DEF Cmds
<1> QED  BY <1>1, <1>2, <1>3 DEF List

LEMMA StutterIInv == IInv /\ UNCHANGED vars => IInv'
<1> SUFFICES ASSUME IInv, UNCHANGED vars PROVE IInv'  OBVIOUS
<1> USE DEF IInv, vars
<1>1. Types' /\ \A k \in Cmds : Holds(cmd'[k])  BY DEF Types
<1>2. Loader' /\ Agree' /\ Private'  BY DEF Loader, Agree, Private
<1>3. DeadEmpty' /\ Held'
  <2>1. Live' = Live  BY DEF Live
  <2> QED  BY <2>1 DEF DeadEmpty, Held
<1>4. Bits' /\ Listing'  BY DEF Bits, BitsOf, Listing
<1> QED  BY <1>1, <1>2, <1>3, <1>4

LEMMA NextIInv == IInv /\ [Next]_vars => IInv'
BY StartLoadIInv, LoadPinnedIInv, CreateMapIInv, PinMapIInv, PinFailsIInv, AttachIInv,
   AddTestIpIInv, LookupTestPortIInv, AddTestPortIInv, DetachIInv, UnlinkIInv,
   ToolStopsIInv, CommandIInv, StutterIInv
   DEF Next, Load, Remove

(* Every reachable state satisfies the inductive invariant.                   *)
THEOREM Invariant == Spec => []IInv
BY InitIInv, NextIInv, PTL DEF Spec

-----------------------------------------------------------------------------
(* What it says of the properties *)

LEMMA IInvTypes == IInv => TypeOK
<1> SUFFICES ASSUME IInv PROVE TypeOK  OBVIOUS
<1>1. \A k \in Cmds : cmd[k].obj \in Objs \cup {None} /\ cmd[k].owed \subseteq Ips
  BY DEF IInv, Types, CmdSet
<1>2. /\ tool.pc \in LoaderPcs /\ tool.at \in Maps /\ tool.marked \subseteq Maps
      /\ tool.bits \subseteq Protos
  BY DEF IInv, Types, ToolSet
<1> QED  BY <1>1, <1>2 DEF IInv, Types, TypeOK, LoaderPcs

LEMMA IInvFiles == IInv => FilesOfProgram
BY DEF IInv, Agree, FilesOfProgram, InForce

LEMMA IInvRules == IInv => RulesKept
<1> SUFFICES ASSUME IInv, InForce, NEW pkt \in Packets
             PROVE  (XdpProgram(attached, pkt) = "drop") <=> (pkt.l2 = "ipv4" /\ Matches(pkt))
  BY DEF RulesKept
<1>1. attached # None /\ \A i \in Maps : files[i] = attached[i] /\ attached[i] \in Objs
  BY DEF IInv, Agree, InForce, Types
<1>2. files[0] # None /\ files[2] # None  BY <1>1, ObjOfIs, MapsAre
<1>3. rules.ips = black[attached[0][2]] /\ rules.ports = ports[attached[2][2]]
  BY <1>1, <1>2, MapsAre DEF IInv, Held
<1>4. rules.ports \subseteq Ports \X Protos  BY DEF IInv, Types, Rules
<1>5. <<pkt.port, "short">> \notin rules.ports  BY <1>4 DEF Protos
<1> QED
  BY <1>3, <1>5 DEF XdpProgram, ParseIpv4, ParsePort, Matches, Packets

LEMMA IInvListing == IInv => ListComplete
BY DEF IInv, Listing, ListComplete, Cmds

(* The machine, the loader and the commands stay in their ranges; a          *)
(* descriptor is always of a map of the definition it stands for.            *)
THEOREM TypeCorrect == Spec => []TypeOK
BY Invariant, IInvTypes, PTL

(* When no loader is at work and none has complained, the files the command  *)
(* line opens are the maps of the program on the device, after any number of *)
(* loaders that failed or were killed.                                       *)
THEOREM FilesAreOfProgram == Spec => []FilesOfProgram
BY Invariant, IInvFiles, PTL

(* ... and the program drops exactly the packets that match the rules asked  *)
(* for of these files.                                                       *)
THEOREM RulesAreKept == Spec => []RulesKept
BY Invariant, IInvRules, PTL

(* A listing has printed every address that was in the map all along, save   *)
(* 0.0.0.0 and what comes before it in a map that has it at the start.       *)
THEOREM ListingsComplete == Spec => []ListComplete
BY Invariant, IInvListing, PTL
=============================================================================

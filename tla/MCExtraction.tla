---------------------------- MODULE MCExtraction ----------------------------
(***************************************************************************)
(* Extraction for TLC: a small machine with every kind of node, the paths  *)
(* a backup treats in a special way, and the hosts it is restored on.      *)
(***************************************************************************)
EXTENDS Extraction, TLC

usr     == <<"usr">>
bin     == <<"usr", "bin">>
xray    == <<"usr", "bin", "xray">>
current == <<"usr", "current">>
docker  == <<"docker">>
volumes == <<"docker", "volumes">>
data    == <<"docker", "volumes", "data">>
layer   == <<"docker", "layer">>
cache   == <<"usr", "cache">>
socket  == <<"usr", "bin", "socket">>
agent   == <<"agent">>
token   == <<"agent", "token">>

AllPaths == {<<>>, usr, bin, xray, current, docker, volumes, data, layer, cache, socket,
             agent, token}

Holding(nodes) == nodes @@ [p \in AllPaths |-> Nothing]

\* The machine: agent and token are there although today's agent excludes
\* them, as in a snapshot of an older one.
Machine == Holding(<<>> :> Dir("0755") @@ usr :> Dir("0755") @@ bin :> Dir("0755")
             @@ xray :> File("long") @@ current :> Link(xray)
             @@ docker :> Dir("0700") @@ volumes :> Dir("0700") @@ data :> File("short")
             @@ layer :> File("long") @@ cache :> File("long") @@ socket :> Socket
             @@ agent :> Dir("0700") @@ token :> File("long"))

\* A host of its own, with the system's directories and an agent.
NewHost == Holding(<<>> :> Dir("0755") @@ usr :> Dir("0755") @@ bin :> Dir("0755")
             @@ agent :> Dir("0755") @@ token :> File("short"))

\* One on which another program was linked, into a place of the host's own.
LinkedHost == [NewHost EXCEPT ![usr] = Dir("0700"), ![xray] = Link(token),
                              ![current] = Dir("0755"),
                              ![docker] = Dir("0755"), ![layer] = File("short")]

Trees == {Machine}
Hosts == {NewHost, LinkedHost}
Roots == {{<<>>, usr, volumes}, {xray}, {bin, current, volumes},
          {usr, xray, current, data, cache}}
Prefixes1 == {cache}
HostPrefixes == {agent}
Modes == {"0700", "0750", "0755"}
Sizes == ("short" :> 1 @@ "long" :> 2)
=============================================================================

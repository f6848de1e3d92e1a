----------------------------- MODULE Bootstrap -----------------------------
(***************************************************************************)
(* The bootstrap-node resolver of src/src-tauri/src/commands/bootstrap.rs. *)
(* Its two getters choose, in the same order of tiers, the BOOTSTRAP_NODES *)
(* environment variable (comma separated, each field trimmed, blank       *)
(* fields dropped), the bootstrap_nodes.json file embedded at build time, *)
(* and three hardcoded nodes.  get_bootstrap_nodes returns addresses;     *)
(* get_bootstrap_nodes_with_info returns (alias, multiaddr) records.      *)
(*                                                                         *)
(* The environment and the embedded file are fixed for a process, so they *)
(* are chosen in Init; the Tauri commands are the actions, and each       *)
(* records what it returned.  Strings are sequences over a small alphabet *)
(* of characters with the comma and a whitespace character in it, so that *)
(* split(',') and trim() are modelled by what they do.                     *)
(***************************************************************************)
EXTENDS Naturals, Sequences, FiniteSets

CONSTANTS
    Comma, Space,    \* the characters ',' and ' ' (trim strips whitespace)
    Letters,         \* the other characters of an address
    EnvMaxLen,       \* bound on the length of BOOTSTRAP_NODES
    Unset,           \* std::env::var fails: unset or not Unicode
    JsonFiles,       \* the node lists a bootstrap_nodes.json may parse to
    JsonErr,         \* serde_json::from_str fails
    HardcodedAddrs,  \* get_hardcoded_bootstrap_nodes' three addresses
    HardcodedInfo,   \* the three (alias, multiaddr) records of the last tier
    None             \* a getter not called yet

Char == {Comma, Space} \cup Letters
Str == Seq(Char)

(* The BOOTSTRAP_NODES values of at most EnvMaxLen characters. *)
EnvValues == UNION {[1..n -> Char] : n \in 0..EnvMaxLen}

ASSUME BootstrapAssumption ==
    /\ Comma \notin Letters /\ Space \notin Letters /\ Comma # Space
    /\ EnvMaxLen \in Nat
    /\ Unset \notin EnvValues /\ JsonErr \notin JsonFiles
    /\ JsonFiles \subseteq Seq([alias : Str, multiaddr : Str])
    /\ HardcodedAddrs \in Seq(Str) /\ Len(HardcodedAddrs) = 3
    /\ HardcodedInfo \in Seq([alias : Str, multiaddr : Str]) /\ Len(HardcodedInfo) = 3
    \* the two hardcoded literals of bootstrap.rs list the same multiaddrs
    /\ \A i \in 1..3 : HardcodedInfo[i].multiaddr = HardcodedAddrs[i]

VARIABLES
    env,    \* the value of BOOTSTRAP_NODES, or Unset
    json,   \* what the embedded bootstrap_nodes.json parses to, or JsonErr
    nodes,  \* what get_bootstrap_nodes_command returned last, or None
    info    \* what get_bootstrap_nodes_with_info_command returned last, or None

vars == <<env, json, nodes, info>>

-----------------------------------------------------------------------------
(* Helpers translated from the code.                                       *)

(* The r-th smallest of a finite set of string positions. *)
NthSmallest(K, r) == CHOOSE k \in K : Cardinality({j \in K : j < k}) = r - 1

(* str::split(','): the fields between commas, an empty string giving one *)
(* empty field and a trailing comma an empty last field.  Field k runs    *)
(* from after the (k-1)-th comma to before the k-th, the string's ends    *)
(* standing for the 0-th and the last cut.                                 *)
SplitComma(s) ==
    LET commas == {i \in DOMAIN s : s[i] = Comma}
        n == Cardinality(commas)
        cut(k) == IF k = 0 THEN 0
                  ELSE IF k = n + 1 THEN Len(s) + 1
                  ELSE NthSmallest(commas, k)
    IN [k \in 1..(n + 1) |-> SubSeq(s, cut(k - 1) + 1, cut(k) - 1)]

(* str::trim: strip whitespace from both ends. *)
Trim(t) ==
    LET keep == {i \in DOMAIN t : t[i] # Space}
        first == CHOOSE i \in keep : \A j \in keep : i <= j
        last == CHOOSE i \in keep : \A j \in keep : j <= i
    IN IF keep = {} THEN <<>> ELSE SubSeq(t, first, last)

(* split(',').map(trim).filter(non-empty).collect(): the non-blank        *)
(* trimmed fields, in their order.                                          *)
ParseEnvNodes(s) ==
    LET f == [k \in DOMAIN SplitComma(s) |-> Trim(SplitComma(s)[k])]
        kept == {k \in DOMAIN f : f[k] # <<>>}
    IN [r \in 1..Cardinality(kept) |-> f[NthSmallest(kept, r)]]

(* The env tier applies when the variable is set and yields some node. *)
EnvApplies == env # Unset /\ ParseEnvNodes(env) # <<>>

(* load_bootstrap_nodes_from_json: the multiaddrs of the file's nodes. *)
LoadBootstrapNodesFromJson(j) == [i \in DOMAIN j |-> j[i].multiaddr]

(* The file tier applies when it parses and lists some node. *)
JsonApplies == json # JsonErr /\ json # <<>>

(* get_hardcoded_bootstrap_nodes: the last-resort list. *)
GetHardcodedBootstrapNodes == HardcodedAddrs

-----------------------------------------------------------------------------
(* The Tauri commands.                                                     *)

(* Mutant: the env tier taken whenever the variable is set. *)
GetBootstrapNodesNoEmptyCheck ==
    /\ nodes' = IF env # Unset THEN ParseEnvNodes(env)
                ELSE IF JsonApplies THEN LoadBootstrapNodesFromJson(json)
                ELSE GetHardcodedBootstrapNodes
    /\ UNCHANGED <<env, json, info>>

(* get_bootstrap_nodes_command -> get_bootstrap_nodes. *)
GetBootstrapNodes ==
    /\ nodes' = IF EnvApplies THEN ParseEnvNodes(env)
                ELSE IF JsonApplies THEN LoadBootstrapNodesFromJson(json)
                ELSE GetHardcodedBootstrapNodes
    /\ UNCHANGED <<env, json, info>>

(* Mutant: the alias numbered from enumerate's 0-based index, without +1. *)
EnvInfoZeroBased(addrs) ==
    [i \in DOMAIN addrs |-> [alias |-> <<"bootstrap", i - 1>>, multiaddr |-> addrs[i]]]

(* The records made for the env tier: alias format!("bootstrap-{}", i+1), *)
(* modelled by the number it is made from (i + 1 is the position in a     *)
(* sequence numbered from 1).                                             *)
EnvInfo(addrs) ==
    [i \in DOMAIN addrs |-> [alias |-> <<"bootstrap", i>>, multiaddr |-> addrs[i]]]

(* Mutant: the file tier forgotten by the info getter. *)
GetBootstrapNodesWithInfoSkipsJson ==
    /\ info' = IF EnvApplies THEN EnvInfo(ParseEnvNodes(env)) ELSE HardcodedInfo
    /\ UNCHANGED <<env, json, nodes>>

(* get_bootstrap_nodes_with_info_command -> get_bootstrap_nodes_with_info. *)
GetBootstrapNodesWithInfo ==
    /\ info' = IF EnvApplies THEN EnvInfo(ParseEnvNodes(env))
               ELSE IF JsonApplies THEN json
               ELSE HardcodedInfo
    /\ UNCHANGED <<env, json, nodes>>

Init ==
    /\ env \in EnvValues \cup {Unset}
    /\ json \in JsonFiles \cup {JsonErr}
    /\ nodes = None
    /\ info = None

Next == GetBootstrapNodes \/ GetBootstrapNodesWithInfo

Spec == Init /\ [][Next]_vars

TypeOK ==
    /\ env \in EnvValues \cup {Unset}
    /\ json \in JsonFiles \cup {JsonErr}
    /\ nodes \in Seq(Str) \cup {None}
    /\ info \in Seq([alias : Str \cup ({"bootstrap"} \X (Nat \ {0})), multiaddr : Str])
                \cup {None}

-----------------------------------------------------------------------------
(* Properties.                                                             *)

(* Both getters always return at least one node, whatever the environment *)
(* and the packaged file hold (the tests of bootstrap.rs, and spec.md     *)
(* section 6: the resolver supplies an initial list of peer addresses).   *)
NeverEmpty ==
    /\ nodes # None => Len(nodes) > 0
    /\ info # None => Len(info) > 0

(* The two getters agree: the addresses get_bootstrap_nodes returns are   *)
(* the multiaddrs of the records get_bootstrap_nodes_with_info returns, in *)
(* the same order, for every environment and packaged file.               *)
GettersAgree ==
    (nodes # None /\ info # None) =>
        nodes = [i \in DOMAIN info |-> info[i].multiaddr]

=============================================================================

------------------------------- MODULE SafeConfig -------------------------------
(***************************************************************************)
(* What the operator promises about the network configuration of a running *)
(* cluster, whatever is asked of it: a configuration is recorded as        *)
(* applied, and handed to the operands, only if what runs on the recorded  *)
(* one keeps working.  The only other change is the one the README offers  *)
(* to administrators, to delete the record.                                *)
(*                                                                         *)
(* Addresses are numbers, IPv4 below FirstIPv6 and IPv6 from there on.  A  *)
(* network is [net, size]: the block of `size` addresses around `net`.      *)
(***************************************************************************)
EXTENDS Integers, Sequences

CONSTANT FirstIPv6

VARIABLES
  record,    \* the configuration recorded as applied
  running    \* the configuration the operands were last given

safeVars == <<record, running>>

NoMigration == [on |-> FALSE, from |-> 0, to |-> 0, machine |-> 0]
NoConfig == [sn |-> <<>>, cn |-> <<>>, type |-> "", mtu |-> 0, mig |-> NoMigration,
             noOverlay |-> FALSE, multi |-> "unset", extra |-> "none",
             proxy |-> "", state |-> ""]

IsIPv6(n) == n.net >= FirstIPv6

Block(n) == LET base == (n.net \div n.size) * n.size
            IN  base .. base + n.size - 1

(* The addresses pods may have in the family of the primary service network. *)
PodAddresses(c) ==
  UNION {Block(c.cn[i]) : i \in {j \in DOMAIN c.cn : IsIPv6(c.cn[j]) = IsIPv6(c.sn[1])}}

(* Services keep their addresses, and pods theirs.                         *)
KeepsAddresses(p, c) == c.sn[1] = p.sn[1] /\ PodAddresses(p) \subseteq PodAddresses(c)

(* The MTU in use changes only by a migration that starts from it.         *)
KeepsMTU(p, c) ==
  \/ c.mtu = p.mtu
  \/ c.mig.on /\ c.mig.from = p.mtu
  \/ c.mig.on /\ p.mig.on /\ c.mig.from = p.mig.from

(* During a migration of the MTU the pod networks are not looked at.       *)
SafeChange(p, c) ==
  p # NoConfig =>
    /\ c.type = p.type /\ c.multi = p.multi
    /\ c.sn[1] = p.sn[1]
    /\ p.mig.on \/ KeepsAddresses(p, c)
    /\ p.type = "OVNKubernetes" => KeepsMTU(p, c)

SafeInit == record = NoConfig /\ running = NoConfig

Record == record' # NoConfig /\ SafeChange(record, record') /\ UNCHANGED running
Run == running' # NoConfig /\ SafeChange(record, running') /\ UNCHANGED record
ForgetRecord == record' = NoConfig /\ UNCHANGED running

SafeNext == Record \/ Run \/ ForgetRecord

SafeSpec == SafeInit /\ [][SafeNext]_safeVars
=================================================================================

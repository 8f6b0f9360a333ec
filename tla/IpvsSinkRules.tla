----------------------------- MODULE IpvsSinkRules -----------------------------
(***************************************************************************)
(* The iptables rules of ipvs-as-sink (iptables.go): the nat rules that a  *)
(* Sync writes for the ip sets that count something, what a restore that   *)
(* does not flush makes of the kernel's chains, and what the chains do to  *)
(* a packet.  A table is a function from the chains that exist to          *)
(* sequences of rules; a rule has a condition (a set the packet must be    *)
(* in, or a word) and a target.                                            *)
(***************************************************************************)
EXTENDS Naturals, Sequences, SequencesExt

CONSTANT masqueradeAll

\* KUBE-MARK-DROP is ensured first and has no line of its own.
iptablesChains == <<"KUBE-SERVICES", "KUBE-POSTROUTING", "KUBE-FIREWALL", "KUBE-NODE-PORT",
                    "KUBE-LOAD-BALANCER", "KUBE-MARK-MASQ">>

Rule(from, on, to) == [from |-> from, on |-> on, to |-> to]

ipsetWithIptablesChainLocalLast == <<
    Rule("KUBE-SERVICES", "KUBE-LOAD-BALANCER", "KUBE-LOAD-BALANCER"),
    Rule("KUBE-SERVICES", "KUBE-LOAD-BALANCER-LOCAL", "RETURN"),
    Rule("KUBE-NODE-PORT", "KUBE-NODE-PORT-TCP", "KUBE-MARK-MASQ"),
    Rule("KUBE-NODE-PORT", "KUBE-NODE-PORT-UDP", "KUBE-MARK-MASQ")>>
ipsetWithIptablesChain == <<
    Rule("KUBE-POSTROUTING", "KUBE-LOOP-BACK", "MASQUERADE"),
    Rule("KUBE-SERVICES", "KUBE-LOAD-BALANCER", "KUBE-LOAD-BALANCER"),
    Rule("KUBE-LOAD-BALANCER", "KUBE-LOAD-BALANCER-FW", "KUBE-FIREWALL"),
    Rule("KUBE-FIREWALL", "KUBE-LOAD-BALANCER-SOURCE-CIDR", "RETURN"),
    Rule("KUBE-LOAD-BALANCER", "KUBE-LOAD-BALANCER-LOCAL", "RETURN"),
    Rule("KUBE-NODE-PORT", "KUBE-NODE-PORT-TCP", "KUBE-MARK-MASQ"),
    Rule("KUBE-NODE-PORT", "KUBE-NODE-PORT-UDP", "KUBE-MARK-MASQ")>>

acceptIPVSTraffic(refs) ==
    SelectSeq(<<Rule("KUBE-SERVICES", "KUBE-CLUSTER-IP", "ACCEPT"),
                Rule("KUBE-SERVICES", "KUBE-LOAD-BALANCER", "ACCEPT")>>,
              LAMBDA r : refs[r.on] # 0)

externalIPRules == <<Rule("KUBE-SERVICES", "KUBE-EXTERNAL-IP off machine", "ACCEPT"),
                     Rule("KUBE-SERVICES", "KUBE-EXTERNAL-IP dst LOCAL", "ACCEPT")>>

writeIptablesRules(refs) ==
    SelectSeq(ipsetWithIptablesChain, LAMBDA r : refs[r.on] # 0)
    \o (IF refs["KUBE-CLUSTER-IP"] = 0 THEN <<>>
        ELSE <<Rule("KUBE-SERVICES", IF masqueradeAll THEN "KUBE-CLUSTER-IP" ELSE "KUBE-CLUSTER-IP src",
                    "KUBE-MARK-MASQ")>>)
    \o (IF refs["KUBE-EXTERNAL-IP"] = 0 THEN <<>>
        ELSE <<Rule("KUBE-SERVICES", "KUBE-EXTERNAL-IP", "KUBE-MARK-MASQ")>> \o externalIPRules)
    \o <<Rule("KUBE-SERVICES", "dst LOCAL", "KUBE-NODE-PORT"),
         Rule("KUBE-LOAD-BALANCER", "always", "KUBE-MARK-MASQ"),
         Rule("KUBE-FIREWALL", "always", "KUBE-MARK-DROP")>>
    \o acceptIPVSTraffic(refs)
    \o <<Rule("KUBE-POSTROUTING", "not marked", "RETURN"),
         Rule("KUBE-POSTROUTING", "always", "unmark"),
         Rule("KUBE-POSTROUTING", "always", "MASQUERADE"),
         Rule("KUBE-MARK-MASQ", "always", "mark")>>

\* createAndLinkKubeChain with the ensuring of chain n failing (0: of KUBE-MARK-DROP;
\* past the last: none): the chains before it exist and have a line, which makes the
\* restore replace their rules; the jumps are linked only if none fails.
EnsuredChains(n) == {iptablesChains[k] : k \in {j \in DOMAIN iptablesChains : j < n}}
AllEnsured == Len(iptablesChains) + 1
createAndLinkKubeChain(ipt, n) ==
    [chains |-> ipt.chains \cup EnsuredChains(n),
     rules |-> ipt.rules, linked |-> ipt.linked \/ n = AllEnsured]

\* RestoreAll is all or nothing: it fails when a rule's chain does not exist.
RestoreAll(ipt, declared, written) ==
    IF ~(ToSet(iptablesChains) \subseteq ipt.chains) THEN ipt
    ELSE [ipt EXCEPT !.rules = [c \in ToSet(iptablesChains) |->
             (IF c \in declared \/ c \notin DOMAIN @ THEN <<>> ELSE @[c])
             \o SelectSeq(written, LAMBDA r : r.from = c)]]

NoRules == [chains |-> {}, rules |-> <<>>, linked |-> FALSE]

syncIPTableRules(ipt, refs, n, ok) ==
    LET ensured == createAndLinkKubeChain(ipt, n)
    IN IF ok THEN RestoreAll(ensured, EnsuredChains(n), writeIptablesRules(refs)) ELSE ensured
-----------------------------------------------------------------------------
(* What netfilter does.  A packet [to, port, proto, off, sets]: addressed  *)
(* to one of the host's own addresses, from off the machine or not; sets   *)
(* are the sets it is in.  The fate of a packet is [mark, drop, over].     *)

On(r, p) ==
    CASE r.on = "always" -> TRUE
      [] r.on = "dst LOCAL" -> TRUE
      [] r.on = "KUBE-CLUSTER-IP src" -> ~p.off /\ "KUBE-CLUSTER-IP" \in p.sets
      [] r.on = "KUBE-EXTERNAL-IP off machine" -> p.off /\ "KUBE-EXTERNAL-IP" \in p.sets
      [] r.on = "KUBE-EXTERNAL-IP dst LOCAL" -> "KUBE-EXTERNAL-IP" \in p.sets
      [] OTHER -> r.on \in p.sets

\* The targets that end a chain or mark; the chains nest at most three deep.
Leaf(fate, to) == CASE to = "KUBE-MARK-MASQ" -> [fate EXCEPT !.mark = TRUE]
                    [] to = "KUBE-MARK-DROP" -> [fate EXCEPT !.drop = TRUE]
                    [] to \in {"ACCEPT", "RETURN"} -> [fate EXCEPT !.over = to]
                    [] OTHER -> fate
Returned(fate) == IF fate.over = "RETURN" THEN [fate EXCEPT !.over = "no"] ELSE fate
WalkInner(rules, p, fate) ==
    Returned(FoldLeft(LAMBDA f, r : IF f.over # "no" \/ ~On(r, p) THEN f ELSE Leaf(f, r.to),
                      fate, rules))
WalkMiddle(ipt, rules, p, fate) ==
    Returned(FoldLeft(LAMBDA f, r : IF f.over # "no" \/ ~On(r, p) THEN f
                                    ELSE IF r.to = "KUBE-FIREWALL" THEN WalkInner(ipt.rules[r.to], p, f)
                                    ELSE Leaf(f, r.to),
                      fate, rules))

Fate(ipt, p) ==
    LET start == [mark |-> FALSE, drop |-> FALSE, over |-> "no"]
    IN IF ~ipt.linked \/ ipt.rules = <<>> THEN start
       ELSE FoldLeft(LAMBDA f, r : IF f.over # "no" \/ ~On(r, p) THEN f
                                   ELSE IF r.to \in {"KUBE-LOAD-BALANCER", "KUBE-NODE-PORT"}
                                        THEN WalkMiddle(ipt, ipt.rules[r.to], p, f)
                                   ELSE Leaf(f, r.to),
                     start, ipt.rules["KUBE-SERVICES"])
=============================================================================

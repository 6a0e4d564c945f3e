----------------------------- MODULE MCHAAddon -----------------------------
(* Small instances of HAAddon. *)
EXTENDS HAAddon

CONSTANTS n1, n2, n3, f1

TwoSubnets == <<n1, n2>>
ThreeSubnets == <<n1, n2, n3>>

\* Untouched, somebody else's proxy, and one that trusts the add-on too.
SomeConfigs == {[proxies |-> {}, forwarded |-> FALSE], [proxies |-> {f1}, forwarded |-> TRUE],
                [proxies |-> {f1, n1, n2}, forwarded |-> TRUE]}

Mapping(forwarded, lists) ==
    [http |-> "mapping", forwarded |-> forwarded, neat |-> FALSE, lists |-> lists]

\* No http section, one that is not a mapping, one that lists somebody else.
ListFiles ==
    {[http |-> h, forwarded |-> FALSE, neat |-> FALSE, lists |-> <<>>] : h \in {"absent", "other"}}
    \cup {Mapping(FALSE, <<>>), Mapping(TRUE, <<{f1}>>), Mapping(FALSE, <<{n1}>>)}

\* trusted_proxies given as a single address.
ScalarFiles == {Mapping(TRUE, <<Scalar>>)}

\* No http section at all.
NoSection == {[http |-> "absent", forwarded |-> FALSE, neat |-> FALSE, lists |-> <<>>]}
=============================================================================

---------------------------- MODULE MCAzureDiscovery ----------------------------
(***************************************************************************)
(* AzureDiscovery with one account name in up to two subscriptions, more    *)
(* than a page need hold, or with two names in one.                         *)
(***************************************************************************)
EXTENDS AzureDiscovery

CONSTANTS sub1, sub2

Described(mongo, primary, readOnly) ==
    [mongo |-> mongo, primary |-> primary, readOnly |-> readOnly]

\* A read-only string without the tag, and both kinds with it.
MCOffers == {<<Described(FALSE, TRUE, TRUE), Described(TRUE, TRUE, FALSE),
               Described(TRUE, FALSE, TRUE)>>}

\* A name that may be in both subscriptions, and one of the IDs it may have.
NameOrId == {"n", <<sub1, "n">>}
=============================================================================

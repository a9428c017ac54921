---------------------------- MODULE MCRateLimit ----------------------------
(* RateLimit on small instances.                                           *)
EXTENDS RateLimit

Ask(route, client, from, forwarded, mailbox) ==
  [route |-> route, client |-> client, from |-> from, forwarded |-> forwarded,
   mailbox |-> mailbox]

Proxies == {"proxy"}

\* A household: one of them asks through the proxy too, and both for one mailbox
\* or one of them for another, at the two routes that send mail, which share a
\* limiter.
Household ==
  {Ask("resend-verification", "ana", "home", "", "m1"),
   Ask("forgot-password", "ana", "proxy", "home", "m1"),
   Ask("forgot-password", "ben", "home", "", "m1"),
   Ask("forgot-password", "ben", "home", "", "m2")}

\* Someone who has two addresses asks for one mailbox.
ManyAddresses ==
  {Ask("forgot-password", "eve", "a1", "", "m1"),
   Ask("forgot-password", "eve", "a2", "", "m1")}
=============================================================================

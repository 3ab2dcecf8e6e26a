---------------------- MODULE MCThrottledAuthenticator ----------------------
(* Small instances of ThrottledAuthenticator.                               *)
EXTENDS ThrottledAuthenticator

CONSTANTS s1, s2, ip1, ip2, u1, u2

\* Two users behind one address.
SharedAddress == s1 :> {ip1, u1} @@ s2 :> {ip1, u2}

\* Two users, each at an address of their own.
OwnAddresses == s1 :> {ip1, u1} @@ s2 :> {ip2, u2}

=============================================================================

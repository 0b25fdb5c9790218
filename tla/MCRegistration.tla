--------------------------- MODULE MCRegistration ---------------------------
EXTENDS Registration, TLC

CONSTANTS a, b

\* The device b and any other of Boxes have the same joined identity.
MCIdentity ==
    [x \in Boxes |->
       IF x = b
       THEN [OUI |-> <<"O">>, ProductClass |-> <<"P", "Q">>,
             SerialNumber |-> <<"R">>]
       ELSE [OUI |-> <<"O">>, ProductClass |-> <<"P">>,
             SerialNumber |-> <<"Q", "R">>]]

=============================================================================

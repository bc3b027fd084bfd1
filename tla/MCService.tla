------------------------------ MODULE MCService ------------------------------
(* A small instance of Service for TLC.                                    *)
EXTENDS Service

MCToLower == [n \in Names |-> IF n = "CLIENT1" THEN "client1" ELSE n]

MCAuthorizedClients == [n \in {"client1", "superuser"} |->
                          IF n = "superuser" THEN "Admin" ELSE "User"]

Cert(name) == [allowed |-> TRUE, prefix |-> TRUE, entity |-> name]

\* Two spellings of a client, and an administrator.
Single == {<<Cert("client1")>>, <<Cert("CLIENT1")>>, <<Cert("superuser")>>}

\* A client that sends an intermediate certificate along, which names nobody.
WithCA == <<Cert("client1"), Cert("ca")>>

MCChains == Single \cup {WithCA}

\* A job is started, something is done to it, and then it is looked at or
\* stopped, each by anybody.
MCCommandLines ==
    <<{"Start"} \X Single,
      (Operations \X Single) \cup {<<"Status", WithCA>>},
      {<<"Status", <<Cert("client1")>>>>, <<"Stop", <<Cert("client1")>>>>,
       <<"Stop", <<Cert("superuser")>>>>}>>
==============================================================================

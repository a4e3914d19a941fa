----------------------------- MODULE MCJourney ------------------------------
(* Inputs around the ends of the fields and of the integers.               *)
EXTENDS Journey

Lines(n) == UNION {[1..k -> Chars] : k \in 0..n}

\* One character more than the fields hold.
MCPosts ==
    [kind : {"post"}, client : {"c", "java"}, via : BOOLEAN,
     id : Lines(MSG_ID_SIZE + 1), text : Lines(MSG_MESS_SIZE + 1)]

MCFilePosts == [kind : {"file"}, id : Lines(MSG_ID_SIZE + 1), text : Lines(MSG_MESS_SIZE + 1)]

Octets == {0, 7, 8, 10, 15, 64, 77, 99, 100, 255}

MCAddresses == {<<192, 168, a, b>> : a \in Octets, b \in Octets}

Ports == {-1000, -999, -1, 0, 80, 4242, 9999, 10000}

MCRegistrations ==
    [kind : {"regi"}, id : {<<"x">>, <<"x", "x">>, <<"x", " ">>, <<"x", "x", "x">>},
     port1 : {5252, -1, 10000}, port2 : Ports,
     ip1 : {<<225, 1, 2, 4>>}, ip2 : MCAddresses]

MCAsked ==
    [kind : {"last"}, client : {"c", "java"},
     nb : {-1000, -999, -100, -99, -10, -1, 0, 1, 10, 99, 100, 999, 1000, 1500, 10000}]

\* Around the bounds of the code, of an int, and of an unsigned long.
Numbers ==
    LET int == INT_MAX + 1
        long == ULONG_MAX + 1
    IN  {None} \cup
        {b + d : b \in {-long, -2 * int, -int, 0, 50, 99, 100, MaxDelay, USHRT_MAX,
                        USHRT_MAX + 1, int, 2 * int, long}, d \in {-1, 0, 1, 50}}

MCArguments ==
    [kind : {"main"}, delay : {None, 0, 30},
     args : [1..2 -> Numbers] \cup {<<4242>>, <<4242, 10, 10>>}]
      \cup [kind : {"main"}, delay : Numbers, args : {<<4242, 99>>}]

=============================================================================

----------------------------- MODULE MCSearchTx -----------------------------
(* Blocks for SearchTx: messages, the logs the node writes for them, and    *)
(* the transactions made of them.                                           *)
EXTENDS SearchTx

Digits(t) == [kind |-> "digits", text |-> t, points |-> 0]
Other(t)  == [kind |-> "other", text |-> t, points |-> 0]
Uatom(n)  == <<Digits(n), Other("uatom")>>
IbcDenom  == <<Digits("7"), Other("ibc/"), Digits("27"), Other("FAB")>>
HashDenom == <<Digits("7"), Other("ibc/"), Digits("27")>>
Pointed   == <<[Digits("1.2.3") EXCEPT !.points = 2], Other("uatom")>>

Move(to, coins) == [to |-> to, coins |-> coins]
Msg(path, moves) == [path |-> path, wire |-> TRUE, coins |-> moves # << >>, moves |-> moves]
Cosmos(route, type, moves) == Msg(<<"/cosmos", route, "v1beta1", type>>, moves)

Attr(key, text, coins) == [key |-> key, text |-> text, coins |-> coins]
MoveAttrs(m) == <<Attr("recipient", m.to, << >>), Attr("sender", "s", << >>),
                  Attr("amount", "", m.coins)>>
\* an event of another type, and the transfer event with all moves of the message
LogOf(k, m) ==
  [msgIndex |-> k - 1,
   events |-> <<[type |-> "message", attrs |-> MoveAttrs(Move("stranger", <<Uatom("9")>>))],
                [type |-> "transfer", attrs |-> FlattenSeq([i \in DOMAIN m.moves |-> MoveAttrs(m.moves[i])])]>>]
Tx(msgs) == [messages |-> msgs, logs |-> [k \in DOMAIN msgs |-> LogOf(k, msgs[k])], code |-> 0]
Shuffled(msgs) == [Tx(msgs) EXCEPT !.logs = Reverse(@)]
Failed(msgs) == [messages |-> msgs, logs |-> << >>, code |-> 1]

Send       == Cosmos("bank", "MsgMultiSend", <<Move("a", <<Uatom("1")>>), Move("b", <<Uatom("2"), IbcDenom>>)>>)
Undelegate == Cosmos("staking", "MsgUndelegate", <<Move("unbonded", <<Uatom("3")>>), Move("a", <<HashDenom>>)>>)
Fund       == Cosmos("distribution", "MsgFundCommunityPool", <<Move("pool", <<Uatom("4")>>)>>)
Odd        == Cosmos("bank", "MsgSend", <<Move("a", <<Pointed>>)>>)
Vote       == Cosmos("gov", "MsgVote", << >>)

\* one transaction for every path of the tables, and for paths outside them
Paths(prefix, routes) ==
  UNION { { prefix \o <<r>> \o <<"v1", t>> : t \in DOMAIN routes[r] } : r \in DOMAIN routes }
AllPaths == Paths(<<"/cosmos">>, addSubEvent) \cup Paths(<<"/ibc", "core">>, addIBCSubEvent)
            \cup Paths(<<"/tendermint">>, addTendermintSubEvent)
            \cup { <<"/cosmos", "authz", "v1", "MsgGrant">>, <<"/cosmos", "bank", "MsgSend">> }
OnePath == { <<Tx(<<Msg(p, << >>)>>)>> : p \in AllPaths }

Bad   == { <<Tx(<<Vote, Fund>>)>>, <<Tx(<<Odd>>)>>, <<Tx(<<[Vote EXCEPT !.wire = FALSE]>>)>>,
           <<Tx(<<Send>>), Failed(<<Vote>>), Tx(<<Vote, Fund>>)>> }
Some  == { Tx(<<Send, Undelegate>>), Shuffled(<<Undelegate, Vote, Send>>), Failed(<<Send>>),
           Tx(<<Cosmos("authz", "MsgGrant", << >>)>>) }
Mixed == UNION { [1 .. n -> Some] : n \in 1 .. 3 }
Long  == [i \in 1 .. 5 |-> Tx(<<Send>>)]

MCBlocks == OnePath \cup Bad \cup Mixed \cup {Long}
=============================================================================

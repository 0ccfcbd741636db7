------------------------------- MODULE MCPeople -------------------------------
(* One employee who works in a, moves to b, comes back without a known date, *)
(* leaves, and whose account appears: what Special lists one after another.  *)
EXTENDS PeopleSync, TLC

CONSTANTS a, b, e1, u1, p1, p2

Works(c, day) == e1 :> [ center |-> c, from |-> day, active |-> TRUE ]
Signs(c, e) == u1 :> [ center |-> c, employee |-> e, active |-> TRUE ]
Nobody == [ i \in {} |-> 0 ]

MCSources ==
  { [ centers |-> {a}, people |-> Works(a, 1), users |-> Nobody ],
    [ centers |-> {a, b}, people |-> Works(b, 2), users |-> Signs(b, e1) ],
    [ centers |-> {a}, people |-> Works(a, NoDate), users |-> Signs(NoOne, NoOne) ],
    [ centers |-> {b}, people |-> Nobody, users |-> Nobody ] }

(* New tables; tables that earlier runs have filled; rows of another system. *)
MCBeginnings ==
  { [ affiliation |-> "UNLINKED", tenant |-> [ c \in Centers |-> IF c = a THEN "UNLINKED" ELSE "NONE" ],
      employee |-> [ e \in Employees |-> "NONE" ], account |-> [ u \in Accounts |-> "NONE" ],
      membership |-> {} ],
    [ affiliation |-> "LINKED", tenant |-> [ c \in Centers |-> IF c = a THEN "ACTIVE" ELSE "FOREIGN" ],
      employee |-> [ e \in Employees |-> "ACTIVE" ], account |-> [ u \in Accounts |-> "NONE" ],
      membership |-> { [ employee |-> e, center |-> a, from |-> 1, to |-> Open, by |-> p1 ] : e \in Employees } ],
    [ affiliation |-> "LINKED", tenant |-> [ c \in Centers |-> IF c = a THEN "INACTIVE" ELSE "ACTIVE" ],
      employee |-> [ e \in Employees |-> "ACTIVE" ], account |-> [ u \in Accounts |-> "ACTIVE" ],
      membership |-> { [ employee |-> e1, center |-> b, from |-> 1, to |-> 1, by |-> p1 ],
                       [ employee |-> e1, center |-> a, from |-> 2, to |-> Open, by |-> p2 ] } ] }
=============================================================================

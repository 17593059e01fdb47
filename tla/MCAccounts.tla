----------------------------- MODULE MCAccounts -----------------------------
(* A browser with two tabs, and two users; each scene is about a few of the *)
(* things they do.                                                          *)
EXTENDS Accounts

CONSTANTS ann, bob, home, t1, t2

Places == [t \in Tabs |-> home]
Scene(known, some) ==
  [known |-> known, left |-> [what \in Spent |-> IF what \in DOMAIN some THEN some[what] ELSE 0]]
Several ==
  {Scene({ann}, [login |-> 3, wrong |-> 1, fail |-> 1]),
   Scene({ann}, [login |-> 2, logout |-> 2, fail |-> 1]),
   Scene({ann}, [login |-> 2, logout |-> 1, end |-> 1]),
   Scene({ann}, [login |-> 1, logout |-> 1, load |-> 1]),
   Scene({}, [register |-> 2, login |-> 1]),
   Scene({ann}, [login |-> 1, logout |-> 1, query |-> 1, load |-> 1, bounce |-> 1]),
   Scene({}, [register |-> 1, profile |-> 1, load |-> 1]),
   Scene({}, [register |-> 1, logout |-> 1, fail |-> 1, lose |-> 1]),
   Scene({ann}, [login |-> 2, profile |-> 1, upload |-> 1]),
   Scene({ann}, [login |-> 1, profile |-> 1, upload |-> 1, remove |-> 1]),
   Scene({ann}, [login |-> 2, password |-> 2, wrong |-> 1]),
   Scene({ann}, [login |-> 2, query |-> 1, end |-> 1, bounce |-> 1]),
   Scene({ann, bob}, [login |-> 2, query |-> 1, lose |-> 1])}
=============================================================================

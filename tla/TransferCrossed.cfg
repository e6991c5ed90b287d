\* One round of main()'s crossed transfers, with balances so small that a
\* transfer is refused or not according to the order.
SPECIFICATION Spec
CONSTANTS
  alice = alice
  bob = bob
  charlie = charlie
  t1 = t1
  t2 = t2
  t3 = t3
  t4 = t4
  Free = Free
  Accounts <- AllAccounts
  Threads <- AllThreads
  From <- MCFrom
  To <- MCTo
  Amount <- MCAmount
  Opening = 2
INVARIANTS
  MoneyConserved
  NeverOverdrawn
  NoDeadlock
PROPERTIES
  NoLostUpdate
  Termination

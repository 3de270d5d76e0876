SPECIFICATION Spec
CONSTANTS
    Nodes = {1, 2, 3, 4, 5, 6, 7, 8, 9, 10}
    Uuids = {1, 2, 3, 4, 5, 6, 7, 8, 9, 10}
    Nil = Nil
    None = None
    Users <- MCUsers
    UsersOf <- MCUsersOf
INVARIANT RedBlack
INVARIANT OwnAccount
INVARIANT Listed
PROPERTY ImplementsAccounts

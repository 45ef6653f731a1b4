CONSTANTS
    eagle = eagle
    a = a
    b = b
    secret = secret
    word = word
    Clients = {c1, c2}
    Names = {eagle, a, b}
    Passwords = {secret, word}
    Others = {}
    Admins <- MCAdmins
    MaxUsers = 2
SPECIFICATION Spec
SYMMETRY Symmetry
INVARIANTS AdminStays OneUserPerName
 

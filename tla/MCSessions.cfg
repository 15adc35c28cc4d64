SPECIFICATION Spec
CONSTANTS
    Fds = {1, 2}
    MaxConns = 3
    MaxSent = 3
    Users = {"u"}
    Channels = {"c"}
    Replicas = {r1}
    MaxAuth = 2
    MaxFailed = 2
    Workers = 2
    MaxTime = 1
    MaxGen = 2
    Menus <- MCMenus
INVARIANTS RepliesInOrder NoneStranded RegistriesExact IdentityOwn
PROPERTIES PasswordsStay AnswersCome
CHECK_DEADLOCK FALSE

CONSTANTS
    ClientProtocols <- MCClientProtocols
    ServerProtocols <- MCServerProtocols
    UserHeaders <- MCUserHeaders
    ForeignRequest <- MCForeignRequest
    ForeignResponse <- MCForeignResponse
SPECIFICATION Spec
INVARIANT EndsAgree AcceptedIsUnderstood
CHECK_DEADLOCK FALSE

\* A ticket of each kind and a waiter for any of them.
SPECIFICATION FairGateSpec
CONSTANTS
    Ticket = {expires, approves, environment}
    Waiter = {waiter}
    AutoAfterTimeout = {approves}
    AutoApprove = {environment}
INVARIANT AgentAgreesWithTicket
PROPERTY RequestEnds
CHECK_DEADLOCK FALSE

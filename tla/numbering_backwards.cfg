\* One request edits nextNumber while another creates invoices.
SPECIFICATION Spec
CONSTANTS
    Requests = {r1, r2}
    Prefixes = {"INV"}
    FirstPrefix = "INV"
    NumberInputs = {2}
    MaxNumber = 3
    MaxAborts = 0
    NoOne = NoOne
PROPERTY NeverBackwards
